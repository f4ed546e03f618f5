---------------------------- MODULE AssetsProofs ----------------------------
(***************************************************************************)
(* Assets for every set of uploads, versions, recognitions and workers and *)
(* any number of faults.                                                   *)
(*                                                                         *)
(* The uploads come first and on their own: whatever the jobs do, their    *)
(* effect on the uploads is a step of UploadsNext (AssetsRefinesUploads),  *)
(* and the lock of an upload says what is known of its object (LockInv).   *)
(* Then the profile, whose revision tells whether anything happened to it  *)
(* since Purge read it (ProfileInv); and the photos, whose deletions are   *)
(* known by their job: the job table and the workers are abstracted to     *)
(* JobsNext first (WorkInv), so that the photos (PhotosInv) have one lemma *)
(* for what any handler may do.                                            *)
(*                                                                         *)
(* What is said last holds while no worker outlives its lease or its lock: *)
(* then one job of the profile is at work at a time (LeaseInv), and what   *)
(* its handler knows at each step (Knows) says which persons and uploads   *)
(* may still be there (FaceInv).                                           *)
(***************************************************************************)
EXTENDS Assets, TLAPS

-----------------------------------------------------------------------------
(* The uploads.                                                            *)

\* What the service does to its uploads.
UploadsNext ==
  \/ \E u \in UploadIds : \/ RequestUpload(u, TRUE) \/ BeginPut(u) \/ Put(u)
                          \/ EndPut(u) \/ PutFails(u) \/ UploadExpires(u)
  \/ \E a \in Erasers, u \in UploadIds : EraseObject(a, u) \/ EraseRow(a, u)
  \/ \E U \in SUBSET UploadIds : /\ \A u \in U : Bindable(u)
                                 /\ uploads' = Bound(U)
                                 /\ UNCHANGED <<objects, uploadLock, puts>>
  \/ \E a \in Erasers : /\ uploadLock' = UnlockedBy(a)
                        /\ UNCHANGED <<uploads, objects, puts>>

UploadsSpec == UploadsInit /\ [][UploadsNext]_uploadVars

\* A call that stores an object has the lock and a row that is not deleted; an
\* eraser that has the lock has removed the object.
LockInv ==
  \A u \in UploadIds :
    /\ puts[u] \in {"putting", "stored"} => uploadLock[u] = Client /\ Stored(u)
    /\ uploadLock[u] \in Erasers => u \notin objects
    /\ uploads[u].bound => uploads[u].status # "none"

UploadsInv == UploadsTypeOK /\ LockInv /\ DeletedIsGone

LEMMA UploadsInitInv == UploadsInit => UploadsInv
<1> SUFFICES ASSUME UploadsInit PROVE UploadsInv
  OBVIOUS
<1>1. UploadsTypeOK
  BY UploadsAssumption DEF UploadsInit, UploadsTypeOK, NoUpload, UploadRow
<1>2. LockInv /\ DeletedIsGone
  BY UploadsAssumption DEF UploadsInit, LockInv, DeletedIsGone, NoUpload
<1> QED
  BY <1>1, <1>2 DEF UploadsInv

LEMMA RowFlags ==
  ASSUME NEW row \in UploadRow, NEW b \in BOOLEAN
  PROVE  [row EXCEPT !.expired = b] \in UploadRow /\ [row EXCEPT !.bound = b] \in UploadRow
BY DEF UploadRow

\* Every step keeps UploadsInv; a deleted row stays deleted, a bound one bound.
RowsKeep ==
  \A u \in UploadIds : /\ uploads[u].status = "deleted" => uploads'[u].status = "deleted"
                       /\ uploads[u].bound => uploads'[u].bound

LEMMA UploadsStepInv == UploadsInv /\ [UploadsNext]_uploadVars => UploadsInv' /\ RowsKeep
<1> SUFFICES ASSUME UploadsInv, [UploadsNext]_uploadVars PROVE UploadsInv' /\ RowsKeep
  OBVIOUS
<1> USE UploadsAssumption DEF UploadsInv, UploadsTypeOK, LockInv, DeletedIsGone, RowsKeep, UploadRow, Stored
<1>1. ASSUME NEW u \in UploadIds, RequestUpload(u, TRUE) PROVE UploadsInv' /\ RowsKeep
  <2>1. CASE uploads' = [uploads EXCEPT ![u].status = "uploading"] /\ uploads[u].status = "none"
    <3>1. uploads' \in [UploadIds -> UploadRow]
      BY <2>1
    <3>2. \A v \in UploadIds : /\ uploads'[v].bound = uploads[v].bound
                               /\ v # u => uploads'[v] = uploads[v]
                               /\ v = u => uploads'[v].status = "uploading"
      BY <2>1
    <3> QED
      BY <1>1, <2>1, <3>1, <3>2 DEF RequestUpload
  <2>2. CASE UNCHANGED uploads
    BY <1>1, <2>2 DEF RequestUpload
  <2> QED
    BY <1>1, <2>1, <2>2 DEF RequestUpload
<1>2. ASSUME NEW u \in UploadIds, BeginPut(u) PROVE UploadsInv' /\ RowsKeep
  BY <1>2 DEF BeginPut, Lockable
<1>3. ASSUME NEW u \in UploadIds, Put(u) PROVE UploadsInv' /\ RowsKeep
  BY <1>3 DEF Put
<1>4. ASSUME NEW u \in UploadIds, EndPut(u) PROVE UploadsInv' /\ RowsKeep
  BY <1>4 DEF EndPut
<1>5. ASSUME NEW u \in UploadIds, PutFails(u) PROVE UploadsInv' /\ RowsKeep
  BY <1>5 DEF PutFails
<1>6. ASSUME NEW u \in UploadIds, UploadExpires(u) PROVE UploadsInv' /\ RowsKeep
  <2>1. uploads' \in [UploadIds -> UploadRow]
    <3> HIDE DEF UploadRow
    <3>1. uploads' = [uploads EXCEPT ![u].expired = TRUE]
      BY <1>6 DEF UploadExpires
    <3>2. [uploads[u] EXCEPT !.expired = TRUE] \in UploadRow
      BY RowFlags
    <3> QED
      BY <3>1, <3>2
  <2>2. \A v \in UploadIds : /\ uploads'[v].bound = uploads[v].bound
                             /\ uploads'[v].status = uploads[v].status
    BY <1>6 DEF UploadExpires
  <2> QED
    BY <1>6, <2>1, <2>2 DEF UploadExpires
<1>7. ASSUME NEW a \in Erasers, NEW u \in UploadIds, EraseObject(a, u)
      PROVE  UploadsInv' /\ RowsKeep
  BY <1>7 DEF EraseObject, Lockable
<1>8. ASSUME NEW a \in Erasers, NEW u \in UploadIds, EraseRow(a, u)
      PROVE  UploadsInv' /\ RowsKeep
  BY <1>8 DEF EraseRow
<1>9. ASSUME NEW U \in SUBSET UploadIds, \A u \in U : Bindable(u), uploads' = Bound(U),
             UNCHANGED <<objects, uploadLock, puts>>
      PROVE  UploadsInv' /\ RowsKeep
  <2>1. uploads' \in [UploadIds -> UploadRow]
    <3> HIDE DEF UploadRow
    <3>1. ASSUME NEW v \in UploadIds
          PROVE  [uploads[v] EXCEPT !.bound = @ \/ v \in U] \in UploadRow
      <4>1. (uploads[v].bound \/ v \in U) \in BOOLEAN /\ uploads[v] \in UploadRow
        OBVIOUS
      <4> QED
        BY <4>1, RowFlags, Zenon
    <3> QED
      BY <1>9, <3>1 DEF Bound
  <2>2. \A v \in UploadIds : /\ uploads'[v].bound = (uploads[v].bound \/ v \in U)
                             /\ uploads'[v].status = uploads[v].status
    BY <1>9 DEF Bound
  <2> QED
    BY <1>9, <2>1, <2>2 DEF Bindable
<1>10. ASSUME NEW a \in Erasers, uploadLock' = UnlockedBy(a), UNCHANGED <<uploads, objects, puts>>
       PROVE  UploadsInv' /\ RowsKeep
  BY <1>10 DEF UnlockedBy
<1>11. CASE UNCHANGED uploadVars
  BY <1>11 DEF uploadVars
<1> QED
  BY <1>1, <1>2, <1>3, <1>4, <1>5, <1>6, <1>7, <1>8, <1>9, <1>10, <1>11 DEF UploadsNext

LEMMA FaceStepUploads == FaceNext => [UploadsNext]_uploadVars
<1> SUFFICES ASSUME FaceNext PROVE [UploadsNext]_uploadVars
  OBVIOUS
<1>1. CASE OwnerOrPurge
  <2>1. ASSUME NEW U \in SampleSets, Enroll(U) PROVE UploadsNext
    <3>1. U \in SUBSET UploadIds
      BY FaceAssumption, UploadsAssumption
    <3> QED
      BY <2>1, <3>1 DEF Enroll, UploadsNext
  <2> QED
    BY <1>1, <2>1 DEF OwnerOrPurge, Revoke, Revoked, RetryEnroll, ConsentExpires, PurgeReads, PurgeRevokes
<1>2. ASSUME NEW w \in Workers, FaceJobStep(w) \/ FaceStepFails(w) \/ FaceCrash(w)
      PROVE  [UploadsNext]_uploadVars
  <2>1. w \in Erasers
    BY FaceAssumption
  <2>2. ASSUME NEW u \in UploadIds, EraseUpload(w, u) PROVE [UploadsNext]_uploadVars
    BY <2>1, <2>2 DEF EraseUpload, UploadsNext
  <2>3. CASE FaceStepFails(w) \/ FaceCrash(w)
    BY <2>1, <2>3 DEF FaceStepFails, FaceCrash, UploadsNext
  <2>4. ASSUME NEW v \in Versions,
               \/ EnrollStart(w, v) \/ EnrollPerson(w, v) \/ Activate(w, v) \/ Discard(w, v)
               \/ DropPerson(w, v) \/ RevokeStart(w, v) \/ RevokeCommit(w, v)
               \/ CleanupStart(w, v) \/ RejectPerson(w, v) \/ RejectSamples(w, v)
        PROVE  UNCHANGED uploadVars
    BY <2>4 DEF EnrollStart, EnrollPerson, Activate, Discard, DropPerson, RevokeStart, RevokeCommit,
                CleanupStart, RejectPerson, RejectSamples
  <2>5. CASE CleanSamples(w) \/ ErasedAll(w) \/ FinishFaceJob(w)
    BY <2>5 DEF CleanSamples, ErasedAll, FinishFaceJob
  <2> QED
    BY <1>2, <2>2, <2>3, <2>4, <2>5 DEF FaceJobStep
<1>3. CASE UploadStep(SampleUploads, TRUE)
  BY <1>3, UploadsAssumption DEF UploadStep, UploadsNext, PurgeUpload
<1>4. CASE PurgeStops
  BY <1>4, UploadsAssumption DEF PurgeStops, UploadsNext
<1> QED
  BY <1>1, <1>2, <1>3, <1>4 DEF FaceNext

LEMMA PhotoStepUploads == PhotoNext => [UploadsNext]_uploadVars
<1> SUFFICES ASSUME PhotoNext PROVE [UploadsNext]_uploadVars
  OBVIOUS
<1>1. CASE PocketRequest \/ PhotoPurge
  <2>1. ASSUME NEW U \in SUBSET PhotoIds, AddPhotos(U) PROVE UploadsNext
    BY <2>1 DEF AddPhotos, UploadsNext, PhotoIds
  <2> QED
    BY <1>1, <2>1 DEF PocketRequest, PhotoPurge, StartRecognition, RetryRecognition, DeletePhoto,
                      RetentionExpires, LeaveDraft, PurgePhoto, PurgeMatch
<1>2. ASSUME NEW w \in Workers, PhotoJobStep(w) \/ PhotoStepFails(w) \/ PhotoCrash(w)
      PROVE  [UploadsNext]_uploadVars
  <2>1. w \in Erasers
    BY PhotoAssumption
  <2>2. ASSUME NEW p \in PhotoIds, DeletePhotoJob(w, p) PROVE [UploadsNext]_uploadVars
    BY <2>1, <2>2 DEF DeletePhotoJob, UploadsNext, PhotoIds
  <2>3. CASE PhotoStepFails(w) \/ PhotoCrash(w)
    BY <2>1, <2>3 DEF PhotoStepFails, PhotoCrash, UploadsNext
  <2>4. ASSUME NEW n \in Recognitions,
               \/ RecognizeStart(w, n) \/ RecognizeEnd(w, n)
               \/ \E p \in PhotoIds : \/ RecognizeNext(w, n, p) \/ RecognizeFails(w, n, p)
                                      \/ RecognizeSave(w, n, p)
        PROVE  UNCHANGED uploadVars
    BY <2>4 DEF RecognizeStart, RecognizeEnd, RecognizeNext, RecognizeFails, RecognizeSave
  <2> QED
    BY <1>2, <2>2, <2>3, <2>4 DEF PhotoJobStep
<1>3. CASE UploadStep(PhotoIds, draft)
  BY <1>3, UploadsAssumption DEF UploadStep, UploadsNext, PurgeUpload, RequestUpload, PhotoIds
<1>4. CASE PurgeStops
  BY <1>4, UploadsAssumption DEF PurgeStops, UploadsNext
<1> QED
  BY <1>1, <1>2, <1>3, <1>4 DEF PhotoNext

LEMMA StepUploads == [AssetsNext]_assetVars => [UploadsNext]_uploadVars
BY FaceStepUploads, PhotoStepUploads DEF AssetsNext, assetVars, uploadVars

\* Whatever the profile, the photos and their jobs do, what they do to the uploads
\* is what Uploads allows.
THEOREM AssetsRefinesUploads == AssetsSpec => UploadsSpec
<1>1. AssetsInit => UploadsInit
  BY DEF AssetsInit, FaceInit
<1> QED
  BY <1>1, StepUploads, PTL DEF AssetsSpec, UploadsSpec

\* A photograph whose row says it was deleted is not in the bucket, and never comes
\* back, in every interleaving of repeated uploads, jobs, Purge and failures.
THEOREM DeletedUploadsGone == AssetsSpec => []DeletedIsGone
<1>1. UploadsInv => DeletedIsGone
  BY DEF UploadsInv
<1> QED
  BY <1>1, AssetsRefinesUploads, UploadsInitInv, UploadsStepInv, PTL DEF UploadsSpec

-----------------------------------------------------------------------------
(* The face profile.                                                       *)

\* What Purge has read of a profile that has not changed since still holds.
ProfileInv ==
  /\ profile \in ProfileRow
  /\ expiring \in Nat /\ expiring <= profile.revision
  /\ expiring # 0 /\ expiring = profile.revision
       => profile.consentExpired /\ profile.version < MaxVersion
  /\ abandoned \subseteq Versions

\* What a step may do to the profile.
Holds == profile.status \in {"revoking", "revoked"} => profile'.status # "active"

Survives ==
  expiring # 0 /\ expiring' = 0 /\ profile'.status # profile.status => profile.consentExpired

LEMMA FaceInitProfile == FaceInit => ProfileInv
BY FaceAssumption DEF FaceInit, ProfileInv, ProfileRow

\* A write that moves the revision on outdates whatever Purge has read.
LEMMA LaterRevision ==
  ASSUME ProfileInv, profile' \in ProfileRow, profile'.revision = profile.revision + 1,
         expiring' \in {0, expiring}, UNCHANGED abandoned
  PROVE  ProfileInv'
BY DEF ProfileInv, ProfileRow

\* What Revoke and Purge write.
LEMMA RevokedProfile ==
  ASSUME ProfileInv, Revoked, profile.version < MaxVersion
  PROVE  /\ profile' \in ProfileRow /\ profile'.revision = profile.revision + 1
         /\ profile'.status = "revoking"
<1>1. profile' = [profile EXCEPT !.status = "revoking", !.revision = @ + 1, !.version = @ + 1]
  BY DEF Revoked
<1>2. profile.version + 1 \in 0..MaxVersion /\ profile.revision + 1 \in Nat
  BY FaceAssumption DEF ProfileInv, ProfileRow
<1> QED
  BY <1>1, <1>2 DEF ProfileInv, ProfileRow

LEMMA OwnerOrPurgeProfile ==
  ASSUME ProfileInv, OwnerOrPurge PROVE ProfileInv' /\ Holds /\ Survives
<1> USE FaceAssumption DEF ProfileInv, ProfileRow, Holds, Survives, Versions
<1>1. ASSUME NEW U \in SampleSets, Enroll(U) PROVE ProfileInv' /\ Holds /\ Survives
  <2>1. profile.version + 1 \in 0..MaxVersion /\ profile.revision + 1 \in Nat
    BY <1>1 DEF Enroll
  <2>2. /\ profile' \in ProfileRow /\ profile'.revision = profile.revision + 1
        /\ profile.status \in {"revoking", "revoked"} => profile'.status # "active"
    BY <1>1, <2>1 DEF Enroll
  <2>3. expiring' = expiring /\ abandoned' = abandoned
    BY <1>1 DEF Enroll
  <2> QED
    BY <2>2, <2>3, LaterRevision
<1>2. CASE Revoke
  <2>1. ProfileInv /\ profile.version < MaxVersion /\ Revoked /\ expiring' = expiring /\ abandoned' = abandoned
    BY <1>2 DEF Revoke
  <2> QED
    BY <2>1, RevokedProfile, LaterRevision
<1>3. CASE ConsentExpires
  BY <1>3 DEF ConsentExpires
<1>4. CASE PurgeReads
  BY <1>4 DEF PurgeReads
<1>5. CASE PurgeRevokes
  <2>1. CASE profile.revision = expiring
    <3>1. /\ ProfileInv /\ profile.version < MaxVersion /\ Revoked /\ expiring' = 0
          /\ profile.consentExpired /\ abandoned' = abandoned
      BY <1>5, <2>1 DEF PurgeRevokes
    <3> QED
      BY <3>1, RevokedProfile, LaterRevision
  <2>2. CASE profile.revision # expiring
    BY <1>5, <2>2 DEF PurgeRevokes
  <2> QED
    BY <2>1, <2>2
<1>6. ASSUME NEW v \in Versions, RetryEnroll(v) PROVE ProfileInv' /\ Holds /\ Survives
  BY <1>6 DEF RetryEnroll, faceVars
<1> QED
  BY <1>1, <1>2, <1>3, <1>4, <1>5, <1>6 DEF OwnerOrPurge

LEMMA FaceJobProfile ==
  ASSUME ProfileInv, NEW w \in Workers, FaceJobStep(w) PROVE ProfileInv' /\ Holds /\ Survives
<1> USE FaceAssumption DEF ProfileInv, ProfileRow, Holds, Survives
<1>1. ASSUME NEW v \in Versions, Activate(w, v) PROVE ProfileInv' /\ Holds /\ Survives
  <2>1. CASE UNCHANGED <<profile, expiring, abandoned>>
    BY <2>1
  <2>2. CASE profile' = Activated(v) /\ ~Superseded(v)
    <3>1. profile' \in ProfileRow /\ profile'.revision = profile.revision + 1
      BY <2>2 DEF Activated, Versions
    <3>2. profile.status \notin {"revoking", "revoked"} /\ expiring' = expiring /\ abandoned' = abandoned
      BY <1>1, <2>2 DEF Superseded, Activate
    <3>3. expiring' = 0 => expiring = 0
      BY <3>2
    <3> QED
      BY <3>1, <3>2, <3>3, LaterRevision
  <2> QED
    BY <1>1, <2>1, <2>2 DEF Activate
<1>2. ASSUME NEW v \in Versions, RevokeCommit(w, v) PROVE ProfileInv' /\ Holds /\ Survives
  <2>1. CASE UNCHANGED <<profile, expiring, abandoned>>
    BY <2>1
  <2>2. CASE profile' = [profile EXCEPT !.status = "revoked", !.person = 0, !.revision = @ + 1]
    <3>1. profile.revision + 1 \in Nat /\ 0 \in 0..MaxVersion
      OBVIOUS
    <3>2. /\ profile' \in ProfileRow /\ profile'.revision = profile.revision + 1
          /\ profile'.status = "revoked"
      BY <2>2, <3>1
    <3>3. expiring' = expiring /\ abandoned' = abandoned
      BY <1>2 DEF RevokeCommit
    <3> QED
      BY <3>2, <3>3, LaterRevision
  <2> QED
    BY <1>2, <2>1, <2>2 DEF RevokeCommit
<1>3. CASE FinishFaceJob(w)
  <2>1. work[w].job[2] \in Versions
    BY <1>3 DEF FinishFaceJob, FaceJobs
  <2> QED
    BY <1>3, <2>1 DEF FinishFaceJob
<1>4. CASE UNCHANGED <<profile, expiring, abandoned>>
  BY <1>4
<1>5. ASSUME NEW v \in Versions,
             \/ EnrollStart(w, v) \/ EnrollPerson(w, v) \/ Discard(w, v) \/ DropPerson(w, v)
             \/ RevokeStart(w, v) \/ CleanupStart(w, v) \/ RejectPerson(w, v) \/ RejectSamples(w, v)
      PROVE  UNCHANGED <<profile, expiring, abandoned>>
  BY <1>5 DEF EnrollStart, EnrollPerson, Discard, DropPerson, RevokeStart,
              CleanupStart, RejectPerson, RejectSamples, faceVars
<1>6. CASE (\E u \in UploadIds : EraseUpload(w, u)) \/ CleanSamples(w) \/ ErasedAll(w)
  BY <1>4, <1>6 DEF EraseUpload, CleanSamples, ErasedAll, faceVars
<1> QED
  BY <1>1, <1>2, <1>3, <1>4, <1>5, <1>6 DEF FaceJobStep

LEMMA ProfileStep ==
  ASSUME ProfileInv, [AssetsNext]_assetVars PROVE ProfileInv' /\ Holds /\ Survives
<1>1. ASSUME NEW w \in Workers, FaceStepFails(w) \/ FaceCrash(w) PROVE UNCHANGED faceVars
  BY <1>1 DEF FaceStepFails, FaceCrash
<1>2. CASE UNCHANGED faceVars
  BY <1>2 DEF faceVars, ProfileInv, Holds, Survives
<1> QED
  BY <1>1, <1>2, OwnerOrPurgeProfile, FaceJobProfile DEF AssetsNext, assetVars, FaceNext

LEMMA ProfileAlways == AssetsSpec => []ProfileInv
<1>1. AssetsInit => ProfileInv
  BY FaceInitProfile DEF AssetsInit
<1> QED
  BY <1>1, ProfileStep, PTL DEF AssetsSpec

\* No enrolment that was under way makes a profile active again that its owner, or
\* Purge, has revoked.
THEOREM RevocationIsFinal == AssetsSpec => RevocationHolds
<1>1. ProfileInv /\ [AssetsNext]_assetVars
        => [profile.status \in {"revoking", "revoked"} => profile'.status # "active"]_fpVars
  BY ProfileStep DEF Holds
<1> QED
  BY <1>1, ProfileAlways, PTL DEF AssetsSpec, RevocationHolds

\* Purge revokes no profile whose owner has renewed the consent since it was read.
THEOREM RenewalSurvivesPurge == AssetsSpec => RenewedConsentSurvives
<1>1. ProfileInv /\ [AssetsNext]_assetVars
        => [expiring # 0 /\ expiring' = 0 /\ profile'.status # profile.status
              => profile.consentExpired]_fpVars
  BY ProfileStep DEF Survives
<1> QED
  BY <1>1, ProfileAlways, PTL DEF AssetsSpec, RenewedConsentSurvives

-----------------------------------------------------------------------------
(* The job queue.  As for the uploads, what a step means for the table and *)
(* its workers is a step of JobsNext; Q holds the jobs it may add, S the   *)
(* steps of a handler it may go to.                                        *)

Pcs == {"idle", "claimed", "start", "finish", "enroll", "activate", "discard", "clean", "erase",
        "revoke", "reject", "rejected", "recognize", "erased"}

Busy == Pcs \ {"idle", "claimed"}

Todo == ({"person"} \X Nat) \cup ({"upload"} \X UploadIds) \cup ({"photo", "look"} \X PhotoIds)

Row == [status : JobStatuses, attempt : Int, lease_owner : Workers \cup {NoWorker},
        expired : BOOLEAN]

Place == [pc : Pcs, job : JobIds \cup {IdleWorker.job}, left : SUBSET Todo, verdict : Verdicts]

\* A worker at a job has its row.
WorkInv ==
  /\ jobs \in [JobIds -> Row]
  /\ work \in [Workers -> Place]
  /\ \A w \in Workers : work[w].pc # "idle" =>
       work[w].job \in JobIds /\ jobs[work[w].job].status # "none"

\* The handler of worker w takes a step, to one of S.
Handling(w, S) ==
  /\ Running(w)
  /\ UNCHANGED <<jobs, jobLock>>
  /\ work' \in [Workers -> Place]
  /\ work'[w].job = work[w].job /\ work'[w].pc \in S
  /\ \A x \in Workers \ {w} : work'[x] = work[x]

\* Worker w is idle again, without its lock, the rows are as finishJob leaves them.
Finishing(w) ==
  /\ work[w].pc = "finish"
  /\ work' = [work EXCEPT ![w] = IdleWorker]
  /\ jobLock' = ReleasedBy(w)

JobsNext(Q, S) ==
  \/ \E j \in Q : jobs' = Queued(jobs, j) /\ UNCHANGED <<work, jobLock>>
  \/ \E j \in JobIds : jobs[j].status = "failed" /\ jobs' = Retried(j) /\ UNCHANGED <<work, jobLock>>
  \/ \E w \in Workers, j \in JobIds : ClaimJob(w, j)
  \/ \E w \in Workers : TryLock(w) \/ CrashWorker(w) \/ Handling(w, S)
  \/ \E w \in Workers : Finishing(w) /\ jobs' = FinishedRows(w)
  \/ \E w \in Workers, j \in Q : Finishing(w) /\ jobs' = Queued(FinishedRows(w), j)
  \/ \E j \in JobIds : LeaseExpires(j)

\* Nothing happens, except that a session may be lost.
Quiet == UNCHANGED <<jobs, work>> /\ (Stalls \/ UNCHANGED jobLock)

\* What JobsNext does to the rows: none disappears, none outside Q is added.
RowsGrow(Q) ==
  \A j \in JobIds : /\ jobs[j].status # "none" => jobs'[j].status # "none"
                    /\ j \notin Q /\ jobs[j].status = "none" => jobs'[j].status = "none"

\* Nobody gets to the step "erased" who was not there.
NoneErased ==
  \A w \in Workers : work'[w].pc = "erased" => work[w].pc = "erased" /\ work'[w].job = work[w].job

Calm == Busy \ {"erased"}

LEMMA IdlePlace == IdleWorker \in Place /\ IdleWorker.pc = "idle"
BY DEF IdleWorker, Place, Pcs, Verdicts

LEMMA InitWork == JobsInit => WorkInv
<1> SUFFICES ASSUME JobsInit PROVE WorkInv
  OBVIOUS
<1>1. NoJob \in Row
  BY DEF NoJob, Row, JobStatuses
<1> QED
  BY <1>1, IdlePlace DEF JobsInit, WorkInv

LEMMA RowUpdates ==
  ASSUME NEW r \in Row, NEW s \in JobStatuses, NEW n \in Int, NEW b \in BOOLEAN,
         NEW o \in Workers \cup {NoWorker}
  PROVE  /\ [status |-> s, attempt |-> n, lease_owner |-> o, expired |-> b] \in Row
         /\ [r EXCEPT !.status = s] \in Row /\ [r EXCEPT !.expired = b] \in Row
         /\ [r EXCEPT !.status = s, !.expired = b] \in Row
         /\ [r EXCEPT !.status = s, !.attempt = n, !.expired = b] \in Row
BY DEF Row

LEMMA QueuedRows ==
  ASSUME NEW rows \in [JobIds -> Row], NEW j \in JobIds
  PROVE  /\ Queued(rows, j) \in [JobIds -> Row]
         /\ \A i \in JobIds : /\ rows[i].status # "none" => Queued(rows, j)[i].status # "none"
                              /\ i # j => Queued(rows, j)[i] = rows[i]
<1>1. NoJob \in Row
  BY DEF NoJob, Row, JobStatuses
<1>2. /\ "queued" \in JobStatuses /\ 0 \in Int /\ FALSE \in BOOLEAN
      /\ NoWorker \in Workers \cup {NoWorker}
  BY DEF JobStatuses
<1>3. NewJob \in Row
  BY <1>1, <1>2, RowUpdates DEF NewJob
<1>4. NewJob.status = "queued"
  BY <1>1 DEF NewJob, Row
<1> QED
  BY <1>3, <1>4 DEF Queued

LEMMA FinishedRowsOK ==
  ASSUME WorkInv, NEW w \in Workers, work[w].pc = "finish"
  PROVE  /\ FinishedRows(w) \in [JobIds -> Row]
         /\ \A i \in JobIds : FinishedRows(w)[i].status = "none" <=> jobs[i].status = "none"
<1>1. work[w].job \in JobIds /\ jobs[work[w].job].status # "none"
  BY DEF WorkInv
<1>2. JobOutcome(w) \in {"succeeded", "failed", "queued"}
  BY DEF JobOutcome, FinalStatus
<1>3. [jobs[work[w].job] EXCEPT !.status = JobOutcome(w), !.expired = FALSE] \in Row
  <2>1. jobs[work[w].job] \in Row /\ JobOutcome(w) \in JobStatuses /\ FALSE \in BOOLEAN
    BY <1>1, <1>2 DEF WorkInv, JobStatuses
  <2>2. 0 \in Int /\ NoWorker \in Workers \cup {NoWorker}
    OBVIOUS
  <2> QED
    BY <2>1, <2>2, RowUpdates
<1>4. [jobs[work[w].job] EXCEPT !.status = JobOutcome(w), !.expired = FALSE].status = JobOutcome(w)
  BY <1>1 DEF WorkInv, Row
<1> QED
  BY <1>1, <1>2, <1>3, <1>4 DEF FinishedRows, WorkInv

LEMMA StepWork ==
  ASSUME NEW Q \in SUBSET JobIds, NEW S \in SUBSET Busy, WorkInv,
         JobsNext(Q, S) \/ UNCHANGED <<jobs, work>>
  PROVE  /\ WorkInv' /\ RowsGrow(Q)
         /\ "erased" \notin S => NoneErased
<1> USE DEF WorkInv, RowsGrow, NoneErased
<1>1. ASSUME NEW j \in Q, jobs' = Queued(jobs, j), UNCHANGED work
      PROVE  WorkInv' /\ RowsGrow(Q) /\ NoneErased
  BY <1>1, QueuedRows
<1>2. ASSUME NEW j \in JobIds, jobs[j].status = "failed", jobs' = Retried(j), UNCHANGED work
      PROVE  WorkInv' /\ RowsGrow(Q) /\ NoneErased
  <2>1. Retried(j)[j] \in Row /\ Retried(j)[j].status = "queued"
    <3>1. Retried(j)[j] = [jobs[j] EXCEPT !.status = "queued", !.attempt = 0, !.expired = FALSE]
      BY DEF Retried
    <3>2. /\ jobs[j] \in Row /\ "queued" \in JobStatuses /\ 0 \in Int /\ FALSE \in BOOLEAN
          /\ NoWorker \in Workers \cup {NoWorker}
      BY DEF JobStatuses
    <3>3. [jobs[j] EXCEPT !.status = "queued", !.attempt = 0, !.expired = FALSE] \in Row
      BY <3>2, RowUpdates
    <3> QED
      BY <3>1, <3>2, <3>3 DEF Row
  <2>2. \A i \in JobIds : i # j => Retried(j)[i] = jobs[i]
    BY DEF Retried
  <2>3. Retried(j) \in [JobIds -> Row]
    BY <2>1, <2>2 DEF Retried
  <2> QED
    BY <1>2, <2>1, <2>2, <2>3
<1>3. ASSUME NEW w \in Workers, NEW j \in JobIds, ClaimJob(w, j)
      PROVE  WorkInv' /\ RowsGrow(Q) /\ NoneErased
  <2> DEFINE row == [status |-> "running", attempt |-> NextAttempt(jobs[j].attempt),
                     lease_owner |-> w, expired |-> FALSE]
  <2>1. /\ jobs[j].status # "none" /\ jobs' = [jobs EXCEPT ![j] = row]
        /\ work' = [work EXCEPT ![w].pc = "claimed", ![w].job = j]
    BY <1>3 DEF ClaimJob, Claimable
  <2>2. NextAttempt(jobs[j].attempt) \in Int
    BY DEF NextAttempt, Row
  <2>3. row \in Row /\ row.status = "running"
    BY <2>2 DEF Row, JobStatuses
  <2> HIDE DEF row
  <2>4. jobs' \in [JobIds -> Row] /\ \A i \in JobIds : jobs'[i].status = "none" <=> jobs[i].status = "none"
    BY <2>1, <2>3
  <2>5. /\ work' \in [Workers -> Place] /\ work'[w].job = j /\ work'[w].pc = "claimed"
        /\ \A x \in Workers : x # w => work'[x] = work[x]
    <3> DEFINE place == [work[w] EXCEPT !.pc = "claimed", !.job = j]
    <3>1. place \in Place /\ place.pc = "claimed" /\ place.job = j
      BY DEF Place, Pcs
    <3>2. work' = [work EXCEPT ![w] = place]
      BY <2>1
    <3> HIDE DEF place
    <3> QED
      BY <3>1, <3>2
  <2> QED
    BY <2>1, <2>4, <2>5
<1>4. ASSUME NEW w \in Workers, TryLock(w)
      PROVE  WorkInv' /\ RowsGrow(Q) /\ NoneErased
  <2> DEFINE j == work[w].job
  <2>1. j \in JobIds /\ jobs[j].status # "none"
    BY <1>4 DEF TryLock
  <2>2. CASE work' = [work EXCEPT ![w].pc = "start"] /\ UNCHANGED jobs
    BY <2>1, <2>2 DEF Place, Pcs
  <2>3. ASSUME \/ UNCHANGED jobs
               \/ jobs' = [jobs EXCEPT ![j].status = "queued", ![j].attempt = @ - 1,
                                       ![j].expired = FALSE]
        PROVE  jobs' \in [JobIds -> Row] /\ \A i \in JobIds : jobs'[i].status = "none" <=> jobs[i].status = "none"
    <3> DEFINE row == [jobs[j] EXCEPT !.status = "queued", !.attempt = @ - 1, !.expired = FALSE]
    <3>1. /\ jobs[j] \in Row /\ "queued" \in JobStatuses /\ jobs[j].attempt - 1 \in Int
          /\ FALSE \in BOOLEAN /\ NoWorker \in Workers \cup {NoWorker}
      BY <2>1 DEF JobStatuses, Row
    <3>2. row \in Row
      BY <3>1, RowUpdates
    <3>3. row.status = "queued"
      BY <3>1 DEF Row
    <3>4. UNCHANGED jobs \/ jobs' = [jobs EXCEPT ![j] = row]
      BY <2>3
    <3> HIDE DEF row
    <3> QED
      BY <2>1, <3>2, <3>3, <3>4
  <2>4. CASE work' = [work EXCEPT ![w] = IdleWorker]
    BY <1>4, <2>1, <2>3, <2>4, IdlePlace DEF TryLock
  <2> QED
    BY <1>4, <2>2, <2>4 DEF TryLock, Goto
<1>5. ASSUME NEW w \in Workers, CrashWorker(w)
      PROVE  WorkInv' /\ RowsGrow(Q) /\ NoneErased
  BY <1>5, IdlePlace DEF CrashWorker
<1>6. ASSUME NEW w \in Workers, Handling(w, S)
      PROVE  WorkInv' /\ RowsGrow(Q) /\ ("erased" \notin S => NoneErased)
  BY <1>6 DEF Handling, Running, Place
<1>7. ASSUME NEW w \in Workers, Finishing(w), jobs' = FinishedRows(w)
      PROVE  WorkInv' /\ RowsGrow(Q) /\ NoneErased
  BY <1>7, IdlePlace, FinishedRowsOK DEF Finishing
<1>8. ASSUME NEW w \in Workers, NEW j \in Q, Finishing(w), jobs' = Queued(FinishedRows(w), j)
      PROVE  WorkInv' /\ RowsGrow(Q) /\ NoneErased
  <2>1. /\ FinishedRows(w) \in [JobIds -> Row]
        /\ \A i \in JobIds : FinishedRows(w)[i].status = "none" <=> jobs[i].status = "none"
    BY <1>8, FinishedRowsOK DEF Finishing
  <2>2. /\ jobs' \in [JobIds -> Row]
        /\ \A i \in JobIds : /\ FinishedRows(w)[i].status # "none" => jobs'[i].status # "none"
                             /\ i # j => jobs'[i] = FinishedRows(w)[i]
    BY <1>8, <2>1, QueuedRows
  <2> QED
    BY <1>8, <2>1, <2>2, IdlePlace DEF Finishing
<1>9. ASSUME NEW j \in JobIds, LeaseExpires(j)
      PROVE  WorkInv' /\ RowsGrow(Q) /\ NoneErased
  BY <1>9 DEF LeaseExpires, Row
<1> QED
  BY <1>1, <1>2, <1>3, <1>4, <1>5, <1>6, <1>7, <1>8, <1>9 DEF JobsNext

LEMMA HandlingPlace ==
  ASSUME WorkInv, NEW w \in Workers, Running(w), UNCHANGED <<jobs, jobLock>>, NEW S, NEW p \in Place,
         work' = [work EXCEPT ![w] = p], p.job = work[w].job, p.pc \in S
  PROVE  Handling(w, S)
BY DEF Handling, WorkInv

LEMMA HandlingGoto ==
  ASSUME WorkInv, NEW w \in Workers, Running(w), UNCHANGED <<jobs, jobLock>>, NEW pc \in Pcs, Goto(w, pc)
  PROVE  Handling(w, {pc})
<1>1. work[w] \in Place /\ {} \in SUBSET Todo /\ "ok" \in Verdicts
  BY DEF WorkInv, Verdicts
<1>2. /\ [work[w] EXCEPT !.pc = pc] \in Place
      /\ [work[w] EXCEPT !.pc = pc].pc = pc /\ [work[w] EXCEPT !.pc = pc].job = work[w].job
  BY <1>1 DEF Place
<1>3. work' = [work EXCEPT ![w] = [work[w] EXCEPT !.pc = pc]]
  BY DEF Goto
<1> QED
  BY <1>2, <1>3, HandlingPlace

LEMMA HandlingReturn ==
  ASSUME WorkInv, NEW w \in Workers, Running(w), UNCHANGED <<jobs, jobLock>>, NEW v \in Verdicts, Return(w, v)
  PROVE  Handling(w, {"finish"})
<1>1. work[w] \in Place /\ {} \in SUBSET Todo /\ "finish" \in Pcs
  BY DEF WorkInv, Pcs
<1>2. /\ [work[w] EXCEPT !.pc = "finish", !.verdict = v] \in Place
      /\ [work[w] EXCEPT !.pc = "finish", !.verdict = v].pc = "finish"
      /\ [work[w] EXCEPT !.pc = "finish", !.verdict = v].job = work[w].job
  BY <1>1 DEF Place
<1>3. work' = [work EXCEPT ![w] = [work[w] EXCEPT !.pc = "finish", !.verdict = v]]
  BY DEF Return
<1> QED
  BY <1>2, <1>3, HandlingPlace

LEMMA HandlingGotoWith ==
  ASSUME WorkInv, NEW w \in Workers, Running(w), UNCHANGED <<jobs, jobLock>>, NEW pc \in Pcs,
         NEW L \in SUBSET Todo, GotoWith(w, pc, L)
  PROVE  Handling(w, {pc})
<1>1. work[w] \in Place /\ "ok" \in Verdicts
  BY DEF WorkInv, Verdicts
<1>2. /\ [work[w] EXCEPT !.pc = pc, !.left = L] \in Place
      /\ [work[w] EXCEPT !.pc = pc, !.left = L].pc = pc
      /\ [work[w] EXCEPT !.pc = pc, !.left = L].job = work[w].job
  BY <1>1 DEF Place
<1>3. work' = [work EXCEPT ![w] = [work[w] EXCEPT !.pc = pc, !.left = L]]
  BY DEF GotoWith
<1> QED
  BY <1>2, <1>3, HandlingPlace

LEMMA HandlingLeft ==
  ASSUME WorkInv, NEW w \in Workers, Running(w), UNCHANGED <<jobs, jobLock>>, NEW L \in SUBSET Todo,
         work' = [work EXCEPT ![w].left = L]
  PROVE  Handling(w, {work[w].pc})
<1>1. work[w] \in Place /\ "ok" \in Verdicts /\ "start" \in Pcs
  BY DEF WorkInv, Verdicts, Pcs
<1>2. /\ [work[w] EXCEPT !.left = L] \in Place
      /\ [work[w] EXCEPT !.left = L].pc = work[w].pc
      /\ [work[w] EXCEPT !.left = L].job = work[w].job
  BY <1>1 DEF Place
<1>3. work' = [work EXCEPT ![w] = [work[w] EXCEPT !.left = L]]
  OBVIOUS
<1> QED
  BY <1>2, <1>3, HandlingPlace

LEMMA FaceHandlers ==
  ASSUME WorkInv, NEW w \in Workers, FaceJobStep(w)
  PROVE  JobsNext(FaceJobs, Calm) \/ Quiet
<1> USE DEF AtStep, Running, Verdicts, Pcs
<1> DEFINE Moves == \E S \in SUBSET Calm : Handling(w, S)
<1>1. Moves => JobsNext(FaceJobs, Calm)
  BY DEF JobsNext, Handling
<1>2. ASSUME NEW pc \in Calm, NEW L \in SUBSET Todo,
             \/ Goto(w, pc) \/ Return(w, "ok") \/ Return(w, "retry") \/ GotoWith(w, pc, L)
             \/ work[w].pc \in Calm /\ work' = [work EXCEPT ![w].left = L],
             UNCHANGED <<jobs, jobLock>>, Running(w)
      PROVE  Moves
  <2>1. pc \in Pcs /\ {pc} \in SUBSET Calm /\ {"finish"} \in SUBSET Calm
    BY DEF Calm, Busy
  <2> QED
    BY <1>2, <2>1, HandlingGoto, HandlingReturn, HandlingGotoWith, HandlingLeft
<1>3. ASSUME NEW v \in Versions, NEW T, StartCleanup(w, v, T), UNCHANGED <<jobs, jobLock>>, Running(w)
      PROVE  Moves
  <2> DEFINE L == {<<"person", T[u].version>> :
                     u \in {t \in SampleUploads : /\ T[t].version \in 1..(v - 1)
                                                  /\ T[t].status # "deleted"}}
  <2>1. L \in SUBSET Todo
    BY DEF Todo, Versions
  <2>2. GotoWith(w, "clean", L) /\ "clean" \in Calm
    BY <1>3 DEF StartCleanup, Calm, Busy
  <2> HIDE DEF L
  <2> QED
    BY <1>2, <1>3, <2>1, <2>2
<1>4. {} \in SUBSET Todo /\ \A L \in SUBSET Todo : \A x : L \ {x} \in SUBSET Todo
  OBVIOUS
<1>5. work[w].left \in SUBSET Todo
  BY DEF WorkInv, Place
<1>6. ASSUME NEW v \in Versions,
             \/ EnrollStart(w, v) \/ EnrollPerson(w, v) \/ Activate(w, v)
             \/ Discard(w, v) \/ CleanupStart(w, v) \/ RejectPerson(w, v) \/ RejectSamples(w, v)
      PROVE  Moves
  BY <1>2, <1>3, <1>4, <1>6 DEF EnrollStart, EnrollPerson, Activate, Discard, CleanupStart, RejectPerson,
     RejectSamples, Calm, Busy
<1>7. ASSUME NEW v \in Versions, DropPerson(w, v) PROVE Moves
  <2>1. work[w].left \ {<<"person", v>>} \in SUBSET Todo
    BY <1>5
  <2> QED
    BY <1>2, <1>7, <2>1 DEF DropPerson, Calm, Busy
<1>8. ASSUME NEW v \in Versions, RevokeStart(w, v) PROVE Moves
  <2> DEFINE U == {u \in SampleUploads : samples[u].version \in 1..v}
             L == {<<"person", samples[u].version>> : u \in U} \cup {<<"upload", u>> : u \in U}
  <2>1. L \in SUBSET Todo
    BY UploadsAssumption DEF Todo, Versions
  <2>2. Return(w, "ok") \/ GotoWith(w, "revoke", L)
    BY <1>8 DEF RevokeStart
  <2> HIDE DEF L
  <2> QED
    BY <1>2, <1>8, <2>1, <2>2 DEF RevokeStart, Calm, Busy
<1>9. ASSUME NEW v \in Versions, RevokeCommit(w, v) PROVE Moves
  BY <1>2, <1>4, <1>9 DEF RevokeCommit, Calm, Busy
<1>10. CASE CleanSamples(w)
  <2> DEFINE L == {<<"upload", u>> : u \in SamplesOf(work[w].job[2])}
  <2>1. L \in SUBSET Todo
    BY UploadsAssumption DEF Todo, SamplesOf
  <2>2. GotoWith(w, "erase", L)
    BY <1>10 DEF CleanSamples
  <2> HIDE DEF L
  <2>3. Moves
    BY <1>2, <1>10, <2>1, <2>2 DEF CleanSamples, Calm, Busy
  <2> QED
    BY <1>1, <2>3
<1>11. CASE ErasedAll(w)
  BY <1>1, <1>2, <1>4, <1>11 DEF ErasedAll, Calm, Busy
<1>12. ASSUME NEW u \in UploadIds, EraseUpload(w, u)
       PROVE  Moves \/ Quiet
  <2>1. work[w].left \ {<<"upload", u>>} \in SUBSET Todo
    BY <1>5
  <2> QED
    BY <1>2, <1>12, <2>1 DEF EraseUpload, Calm, Busy, Quiet
<1>13. CASE FinishFaceJob(w)
  <2>1. work[w].job \in FaceJobs => <<"cleanup", work[w].job[2]>> \in FaceJobs
    BY DEF FaceJobs
  <2> QED
    BY <1>13, <2>1 DEF FinishFaceJob, JobsNext, Finishing
<1> HIDE DEF Moves
<1> QED
  BY <1>1, <1>6, <1>7, <1>8, <1>9, <1>10, <1>11, <1>12, <1>13 DEF FaceJobStep

LEMMA FaceStepJobs ==
  ASSUME WorkInv, ProfileInv, FaceNext
  PROVE  JobsNext(FaceJobs, Calm) \/ Quiet
<1>1. CASE OwnerOrPurge
  <2> DEFINE v == profile.version + 1
  <2>1. profile.version < MaxVersion => /\ <<"enroll", v>> \in FaceJobs /\ <<"revoke", v>> \in FaceJobs
    BY FaceAssumption DEF ProfileInv, ProfileRow, FaceJobs, Versions
  <2>2. ASSUME NEW U \in SampleSets, Enroll(U) PROVE JobsNext(FaceJobs, Calm)
    BY <2>1, <2>2 DEF Enroll, JobsNext, Queue
  <2>3. ASSUME Revoked, profile.version < MaxVersion, UNCHANGED <<work, jobLock>> PROVE JobsNext(FaceJobs, Calm)
    BY <2>1, <2>3 DEF Revoked, JobsNext, Queue
  <2>4. CASE Revoke
    BY <2>3, <2>4 DEF Revoke
  <2>5. CASE PurgeRevokes
    BY <2>3, <2>5 DEF PurgeRevokes, ProfileInv, Quiet
  <2>6. ASSUME NEW n \in Versions, RetryEnroll(n) PROVE JobsNext(FaceJobs, Calm)
    <3>1. <<"enroll", n>> \in JobIds
      BY FaceAssumption DEF FaceJobs
    <3> QED
      BY <2>6, <3>1 DEF RetryEnroll, JobsNext
  <2>7. CASE ConsentExpires \/ PurgeReads
    BY <2>7 DEF ConsentExpires, PurgeReads, jobVars, Quiet
  <2> QED
    BY <1>1, <2>2, <2>4, <2>5, <2>6, <2>7 DEF OwnerOrPurge
<1>2. ASSUME NEW w \in Workers, FaceStepFails(w) \/ FaceCrash(w)
      PROVE  JobsNext(FaceJobs, Calm)
  <2>1. CASE FaceStepFails(w)
    <3>1. Handling(w, {"finish"})
      BY <2>1, HandlingReturn DEF FaceStepFails, Verdicts
    <3> QED
      BY <3>1 DEF JobsNext, Handling, Calm, Busy, Pcs
  <2> QED
    BY <1>2, <2>1 DEF FaceCrash, JobsNext
<1>3. ASSUME NEW w \in Workers, (\E j \in FaceJobs : ClaimJob(w, j)) \/ TryLock(w)
      PROVE  JobsNext(FaceJobs, Calm)
  BY <1>3, FaceAssumption DEF JobsNext
<1>4. CASE UploadStep(SampleUploads, TRUE) /\ UNCHANGED <<jobVars, faceVars>>
  BY <1>4 DEF jobVars, Quiet
<1>5. CASE PurgeStops /\ Fault /\ UNCHANGED <<jobs, work, jobLock, faceVars>>
  BY <1>5 DEF Quiet
<1>6. CASE (\E j \in FaceJobs : LeaseExpires(j)) \/ SessionLost
  BY <1>6, FaceAssumption DEF JobsNext, SessionLost, Quiet
<1> QED
  BY <1>1, <1>2, <1>3, <1>4, <1>5, <1>6, FaceHandlers DEF FaceNext

-----------------------------------------------------------------------------
(* The photos.                                                             *)

\* A photo has its upload; one with a deletion under way is not opened again, and
\* the deletion ends after the upload's.
PhotosInv ==
  /\ PhotosTypeOK
  /\ \A p \in PhotoIds :
       /\ photos[p].status # "none" => uploads[p].bound
       /\ jobs[<<"delete", p>>].status # "none" => photos[p].status \in {"deleting", "deleted"}
       /\ photos[p].status \in Gone => matches[p] = {}
       /\ photos[p].status = "deleted" => uploads[p].status = "deleted"
       /\ \A w \in Workers : work[w].pc = "erased" /\ work[w].job = <<"delete", p>>
                               => uploads[p].status = "deleted"

\* What a step may do to the photos.
LateIgnored ==
  \A p \in PhotoIds :
    /\ photos[p].status \in {"deleting", "deleted"} => photos'[p].status \in {"deleting", "deleted"}
    /\ photos[p].status # "ready" /\ photos'[p].status = "ready" => photos'[p].job \in matches'[p]

LEMMA PhotoInitInv == AssetsInit => PhotosInv
<1> SUFFICES ASSUME AssetsInit PROVE PhotosInv
  OBVIOUS
<1>1. PhotosTypeOK
  BY PhotoAssumption DEF AssetsInit, PhotoInit, PhotosTypeOK, PhotoRow
<1>2. \A p \in PhotoIds : jobs[<<"delete", p>>].status = "none"
  BY PhotoAssumption DEF AssetsInit, FaceInit, JobsInit, NoJob, PhotoJobs
<1>3. \A w \in Workers : work[w].pc = "idle"
  BY DEF AssetsInit, FaceInit, JobsInit, IdleWorker
<1> QED
  BY <1>1, <1>2, <1>3 DEF PhotosInv, AssetsInit, PhotoInit, Gone

\* Steps that leave the photos alone.
LEMMA PhotosKept ==
  ASSUME PhotosInv, UNCHANGED <<photos, matches, requested>>, draft' \in BOOLEAN, RowsKeep, NEW Q,
         RowsGrow(Q), NoneErased, \A p \in PhotoIds : <<"delete", p>> \notin Q
  PROVE  PhotosInv' /\ LateIgnored
<1>1. PhotosTypeOK'
  BY DEF PhotosInv, PhotosTypeOK
<1>2. \A p \in PhotoIds : p \in UploadIds /\ <<"delete", p>> \in JobIds
  BY PhotoAssumption DEF PhotoIds, PhotoJobs
<1> QED
  BY <1>1, <1>2 DEF PhotosInv, LateIgnored, RowsKeep, RowsGrow, NoneErased

LEMMA FaceStepPhotos ==
  ASSUME PhotosInv, WorkInv, ProfileInv, RowsKeep, FaceNext, UNCHANGED photoVars
  PROVE  PhotosInv' /\ LateIgnored
<1>1. FaceJobs \in SUBSET JobIds /\ Calm \in SUBSET Busy /\ "erased" \notin Calm
  BY FaceAssumption DEF Calm
<1>2. RowsGrow(FaceJobs) /\ NoneErased
  BY <1>1, FaceStepJobs, StepWork DEF Quiet
<1>3. \A p \in PhotoIds : <<"delete", p>> \notin FaceJobs
  BY DEF FaceJobs
<1> QED
  BY <1>2, <1>3, PhotosKept DEF photoVars, PhotosInv, PhotosTypeOK

\* A recognition takes a step.
LEMMA RecognitionJobs ==
  ASSUME WorkInv, PhotosInv, NEW w \in Workers, NEW n \in Recognitions,
         \/ RecognizeStart(w, n) \/ RecognizeEnd(w, n)
         \/ \E p \in PhotoIds : \/ RecognizeNext(w, n, p) \/ RecognizeFails(w, n, p)
                                \/ RecognizeSave(w, n, p)
  PROVE  JobsNext({}, Calm)
<1> USE DEF Recognizing, Running, Verdicts, Pcs
<1> DEFINE Moves == \E S \in SUBSET Calm : Handling(w, S)
<1>1. Moves => JobsNext({}, Calm)
  BY DEF JobsNext, Handling
<1>2. UNCHANGED <<jobs, jobLock>> /\ Running(w) /\ work[w] \in Place
  BY DEF RecognizeStart, RecognizeEnd, RecognizeNext, RecognizeFails, RecognizeSave, Looking, WorkInv
<1>3. ASSUME NEW L \in SUBSET Todo, NEW v \in Verdicts,
             \/ work' = [work EXCEPT ![w] = [@ EXCEPT !.pc = "recognize", !.verdict = v, !.left = L]]
             \/ /\ work[w].pc = "recognize"
                /\ \/ work' = [work EXCEPT ![w].left = L, ![w].verdict = v]
                   \/ work' = [work EXCEPT ![w].left = L]
             \/ Goto(w, "finish") \/ Return(w, v)
      PROVE  Moves
  <2>1. {"recognize"} \in SUBSET Calm /\ {"finish"} \in SUBSET Calm
    BY DEF Calm, Busy
  <2>2. CASE work' = [work EXCEPT ![w] = [@ EXCEPT !.pc = "recognize", !.verdict = v, !.left = L]]
    <3> DEFINE r == [work[w] EXCEPT !.pc = "recognize", !.verdict = v, !.left = L]
    <3>1. r \in Place /\ r.job = work[w].job /\ r.pc = "recognize"
      BY <1>2 DEF Place
    <3>2. work' = [work EXCEPT ![w] = r]
      BY <2>2
    <3> HIDE DEF r
    <3> QED
      BY <1>2, <2>1, <3>1, <3>2, HandlingPlace
  <2>3. CASE work[w].pc = "recognize" /\ work' = [work EXCEPT ![w].left = L, ![w].verdict = v]
    <3> DEFINE r == [work[w] EXCEPT !.left = L, !.verdict = v]
    <3>1. r \in Place /\ r.job = work[w].job /\ r.pc = "recognize"
      BY <1>2, <2>3 DEF Place
    <3>2. work' = [work EXCEPT ![w] = r]
      BY <2>3
    <3> HIDE DEF r
    <3> QED
      BY <1>2, <2>1, <3>1, <3>2, HandlingPlace
  <2> QED
    BY <1>2, <1>3, <2>1, <2>2, <2>3, HandlingLeft, HandlingGoto, HandlingReturn
<1>4. work[w].left \in SUBSET Todo
  BY <1>2 DEF Place
<1>5. CASE RecognizeStart(w, n)
  <2> DEFINE L == {<<"photo", p>> : p \in requested[n]}
  <2>1. L \in SUBSET Todo
    BY DEF Todo, PhotosInv, PhotosTypeOK
  <2>2. work' = [work EXCEPT ![w] = [@ EXCEPT !.pc = "recognize", !.verdict = "ok", !.left = L]]
    BY <1>5 DEF RecognizeStart
  <2> HIDE DEF L
  <2>3. Moves
    BY <1>3, <2>1, <2>2
  <2> QED
    BY <1>1, <2>3
<1>6. CASE RecognizeEnd(w, n)
  BY <1>1, <1>3, <1>4, <1>6 DEF RecognizeEnd
<1>7. ASSUME NEW p \in PhotoIds,
             RecognizeNext(w, n, p) \/ RecognizeFails(w, n, p) \/ RecognizeSave(w, n, p)
      PROVE  Moves
  <2>1. /\ work[w].left \ {<<"photo", p>>} \in SUBSET Todo
        /\ (work[w].left \ {<<"photo", p>>}) \cup {<<"look", p>>} \in SUBSET Todo
        /\ work[w].left \ {<<"look", p>>} \in SUBSET Todo
    BY <1>4 DEF Todo
  <2>2. CASE RecognizeNext(w, n, p)
    BY <1>3, <2>1, <2>2 DEF RecognizeNext
  <2>3. CASE RecognizeFails(w, n, p)
    <3> DEFINE L == work[w].left \ {<<"look", p>>}
    <3>1. L \in SUBSET Todo /\ "retry" \in Verdicts /\ work[w].pc = "recognize"
      BY <2>1, <2>3 DEF RecognizeFails, Looking
    <3>2. work' = [work EXCEPT ![w].left = L, ![w].verdict = "retry"]
      BY <2>3 DEF RecognizeFails
    <3> HIDE DEF L
    <3> QED
      BY <1>3, <3>1, <3>2
  <2>4. CASE RecognizeSave(w, n, p)
    BY <1>3, <2>1, <2>4 DEF RecognizeSave, Looking
  <2> QED
    BY <1>7, <2>2, <2>3, <2>4
<1> HIDE DEF Moves
<1> QED
  BY <1>1, <1>5, <1>6, <1>7

LEMMA DeletionJobs ==
  ASSUME WorkInv, NEW w \in Workers, NEW p \in PhotoIds, DeletePhotoJob(w, p)
  PROVE  JobsNext({}, Busy) \/ Quiet
<1> USE DEF Running, Verdicts, Pcs
<1> DEFINE Moves == \E S \in SUBSET Busy : Handling(w, S)
<1>1. Moves => JobsNext({}, Busy)
  BY DEF JobsNext, Handling
<1>2. UNCHANGED <<jobs, jobLock>> /\ Running(w) /\ {"erased"} \in SUBSET Busy /\ {"finish"} \in SUBSET Busy
  BY DEF DeletePhotoJob, Busy
<1>3. (Goto(w, "erased") \/ Return(w, "ok")) => Moves
  BY <1>2, HandlingGoto, HandlingReturn
<1> HIDE DEF Moves
<1> QED
  BY <1>1, <1>2, <1>3 DEF DeletePhotoJob, Quiet

\* Requests, Purge, claims, failures and what remains of the pocket's steps.
PhotoRest ==
  \/ \E n \in Recognitions : RetryRecognition(n)
  \/ \E w \in Workers : \/ work[w].job \in PhotoJobs /\ FinishJob(w)
                        \/ PhotoStepFails(w) \/ PhotoCrash(w) \/ TryLock(w)
                        \/ \E j \in PhotoJobs : ClaimJob(w, j)
  \/ \E j \in PhotoJobs : LeaseExpires(j)
  \/ Quiet

LEMMA RestJobs == WorkInv /\ PhotoRest => JobsNext({}, Calm) \/ Quiet
<1> SUFFICES ASSUME WorkInv, PhotoRest PROVE JobsNext({}, Calm) \/ Quiet
  OBVIOUS
<1>1. ASSUME NEW n \in Recognitions, RetryRecognition(n) PROVE JobsNext({}, Calm)
  <2>1. <<"recognize", n>> \in JobIds
    BY PhotoAssumption DEF PhotoJobs
  <2> QED
    BY <1>1, <2>1 DEF RetryRecognition, JobsNext
<1>2. ASSUME NEW w \in Workers, FinishJob(w) PROVE JobsNext({}, Calm)
  BY <1>2 DEF FinishJob, JobsNext, Finishing
<1>3. ASSUME NEW w \in Workers, PhotoStepFails(w) PROVE JobsNext({}, Calm)
  <2>1. Handling(w, {"finish"})
    BY <1>3, HandlingReturn DEF PhotoStepFails, Verdicts
  <2> QED
    BY <2>1 DEF JobsNext, Handling, Calm, Busy, Pcs
<1>4. ASSUME NEW w \in Workers, PhotoCrash(w) \/ TryLock(w) \/ \E j \in PhotoJobs : ClaimJob(w, j)
      PROVE  JobsNext({}, Calm)
  BY <1>4, PhotoAssumption DEF PhotoCrash, JobsNext
<1>5. ASSUME NEW j \in PhotoJobs, LeaseExpires(j) PROVE JobsNext({}, Calm)
  BY <1>5, PhotoAssumption DEF JobsNext
<1> QED
  BY <1>1, <1>2, <1>3, <1>4, <1>5 DEF PhotoRest

\* What may become of one photo in a step that adds the jobs Q.
PhotoMoves(p, Q) ==
  \/ /\ photos'[p].status = photos[p].status /\ matches'[p] \subseteq matches[p]
     /\ <<"delete", p>> \notin Q
  \/ /\ photos'[p].status \in {"uploaded", "processing", "ready", "failed"}
     /\ photos[p].status \notin {"deleting", "deleted"}
     /\ photos'[p].status = "ready" => photos'[p].job \in matches'[p]
     /\ uploads'[p].bound /\ <<"delete", p>> \notin Q
  \/ /\ photos'[p].status = "deleting" /\ photos[p].status \notin {"none", "deleted"}
     /\ matches'[p] = {}
  \/ /\ photos'[p].status = "deleted" /\ photos[p].status \in {"deleting", "deleted"}
     /\ matches'[p] = {} /\ uploads'[p].status = "deleted"

Erased ==
  \A p \in PhotoIds, w \in Workers :
    work[w].pc = "erased" /\ work[w].job = <<"delete", p>> => uploads[p].status = "deleted"

LEMMA StepErased ==
  ASSUME PhotosInv, RowsKeep, NoneErased PROVE Erased'
<1>1. \A p \in PhotoIds : p \in UploadIds
  BY DEF PhotoIds
<1> QED
  BY <1>1 DEF Erased, PhotosInv, RowsKeep, NoneErased

LEMMA PhotosStep ==
  ASSUME PhotosInv, RowsKeep, NEW Q, RowsGrow(Q), PhotosTypeOK', Erased',
         \A p \in PhotoIds : PhotoMoves(p, Q)
  PROVE  PhotosInv' /\ LateIgnored
<1> SUFFICES ASSUME NEW p \in PhotoIds
             PROVE  /\ photos'[p].status # "none" => uploads'[p].bound
                    /\ jobs'[<<"delete", p>>].status # "none"
                         => photos'[p].status \in {"deleting", "deleted"}
                    /\ photos'[p].status \in Gone => matches'[p] = {}
                    /\ photos'[p].status = "deleted" => uploads'[p].status = "deleted"
                    /\ photos[p].status \in {"deleting", "deleted"}
                         => photos'[p].status \in {"deleting", "deleted"}
                    /\ photos[p].status # "ready" /\ photos'[p].status = "ready"
                         => photos'[p].job \in matches'[p]
  BY DEF PhotosInv, LateIgnored, Erased
<1>1. p \in UploadIds /\ <<"delete", p>> \in JobIds
  BY PhotoAssumption DEF PhotoIds, PhotoJobs
<1>2. <<"delete", p>> \notin Q => (jobs'[<<"delete", p>>].status # "none"
                                   => photos[p].status \in {"deleting", "deleted"})
  BY <1>1 DEF RowsGrow, PhotosInv
<1>3. /\ uploads[p].status = "deleted" => uploads'[p].status = "deleted"
      /\ uploads[p].bound => uploads'[p].bound
  BY <1>1 DEF RowsKeep
<1>4. PhotoMoves(p, Q)
  OBVIOUS
<1> QED
  BY <1>2, <1>3, <1>4 DEF PhotoMoves, PhotosInv, Gone

LEMMA CalmStep ==
  ASSUME WorkInv, PhotosInv, RowsKeep, NEW Q \in SUBSET JobIds,
         JobsNext(Q, Calm) \/ UNCHANGED <<jobs, work>>
  PROVE  WorkInv' /\ RowsGrow(Q) /\ Erased'
<1>1. Calm \in SUBSET Busy /\ "erased" \notin Calm
  BY DEF Calm
<1> QED
  BY <1>1, StepWork, StepErased

\* The owner's requests and Purge.
LEMMA RequestPhotos ==
  ASSUME UploadsInv, PhotosInv, WorkInv, RowsKeep, PocketRequest \/ PhotoPurge
  PROVE  PhotosInv' /\ LateIgnored /\ WorkInv'
<1>1. PhotosTypeOK /\ \A p \in PhotoIds : photos[p] \in PhotoRow
  BY DEF PhotosInv, PhotosTypeOK
<1>2. {} \in SUBSET JobIds
  OBVIOUS
<1>3. ASSUME NEW U \in SUBSET PhotoIds, AddPhotos(U) PROVE PhotosInv' /\ LateIgnored /\ WorkInv'
  <2>1. UNCHANGED <<jobs, work, matches, requested, draft>>
    BY <1>3 DEF AddPhotos, jobVars
  <2>2. WorkInv' /\ RowsGrow({}) /\ Erased'
    BY <1>2, <2>1, CalmStep
  <2>3. \A p \in PhotoIds : [photos[p] EXCEPT !.status = "uploaded"] \in PhotoRow
    BY <1>1 DEF PhotoRow
  <2>4. PhotosTypeOK'
    BY <1>1, <1>3, <2>1, <2>3 DEF AddPhotos, PhotosTypeOK
  <2>5. ASSUME NEW p \in PhotoIds PROVE PhotoMoves(p, {})
    <3>1. CASE p \in U
      <4>1. p \in UploadIds /\ ~uploads[p].bound
        BY <1>3, <3>1 DEF AddPhotos, Bindable, PhotoIds
      <4>2. photos[p].status = "none"
        BY <4>1 DEF PhotosInv
      <4>3. uploads'[p].bound
        <5>1. uploads[p] \in UploadRow
          BY <4>1 DEF UploadsInv, UploadsTypeOK
        <5>2. uploads'[p] = [uploads[p] EXCEPT !.bound = uploads[p].bound \/ p \in U]
          BY <1>3, <4>1 DEF AddPhotos, Bound
        <5>3. uploads'[p].bound = (uploads[p].bound \/ p \in U)
          BY <5>1, <5>2 DEF UploadRow
        <5> QED
          BY <3>1, <5>3
      <4>4. photos'[p].status = "uploaded"
        BY <1>1, <1>3, <3>1 DEF AddPhotos, PhotoRow
      <4> QED
        BY <4>2, <4>3, <4>4 DEF PhotoMoves
    <3>2. CASE p \notin U
      BY <1>3, <2>1, <3>2 DEF AddPhotos, PhotoMoves
    <3> QED
      BY <3>1, <3>2
  <2> QED
    BY <2>2, <2>4, <2>5, PhotosStep
<1>4. ASSUME NEW n \in Recognitions, NEW P \in SUBSET PhotoIds, StartRecognition(n, P)
      PROVE  PhotosInv' /\ LateIgnored /\ WorkInv'
  <2> DEFINE Q == {<<"recognize", n>>}
  <2>1. Q \in SUBSET JobIds
    BY PhotoAssumption DEF PhotoJobs
  <2>2. JobsNext(Q, Calm)
    BY <1>4 DEF StartRecognition, Queue, JobsNext
  <2>3. WorkInv' /\ RowsGrow(Q) /\ Erased'
    BY <2>1, <2>2, CalmStep
  <2>4. n \in 0..MaxRecognitions
    BY PhotoAssumption DEF Recognitions
  <2>5. \A p \in PhotoIds : [photos[p] EXCEPT !.status = "processing", !.job = n] \in PhotoRow
    BY <1>1, <2>4 DEF PhotoRow
  <2>6. PhotosTypeOK'
    BY <1>1, <1>4, <2>5 DEF StartRecognition, PhotosTypeOK
  <2>7. ASSUME NEW p \in PhotoIds PROVE PhotoMoves(p, Q)
    <3>1. <<"delete", p>> \notin Q /\ p \in UploadIds /\ matches' = matches
      BY <1>4 DEF StartRecognition, PhotoIds
    <3>2. CASE p \in P
      <4>1. photos[p].status \notin Gone /\ photos'[p].status = "processing"
        BY <1>1, <1>4, <3>2 DEF StartRecognition, PhotoRow
      <4>2. uploads'[p].bound
        BY <3>1, <4>1 DEF PhotosInv, RowsKeep, Gone
      <4> QED
        BY <3>1, <4>1, <4>2 DEF PhotoMoves, Gone
    <3>3. CASE p \notin P
      BY <1>4, <3>1, <3>3 DEF StartRecognition, PhotoMoves
    <3> QED
      BY <3>2, <3>3
  <2> QED
    BY <2>3, <2>6, <2>7, PhotosStep
<1>5. ASSUME NEW p \in PhotoIds, DeletePhoto(p) PROVE PhotosInv' /\ LateIgnored /\ WorkInv'
  <2> DEFINE Q == {<<"delete", p>>}
  <2>1. Q \in SUBSET JobIds
    BY PhotoAssumption DEF PhotoJobs
  <2>2. JobsNext(Q, Calm)
    BY <1>5 DEF DeletePhoto, Queue, JobsNext
  <2>3. WorkInv' /\ RowsGrow(Q) /\ Erased'
    BY <2>1, <2>2, CalmStep
  <2> DEFINE row == [photos[p] EXCEPT !.status = "deleting", !.job = 0]
  <2>4. row \in PhotoRow /\ row.status = "deleting" /\ photos' = [photos EXCEPT ![p] = row]
    <3>1. 0 \in 0..MaxRecognitions /\ photos[p] \in PhotoRow
      BY <1>1, PhotoAssumption
    <3>2. row \in PhotoRow /\ row.status = "deleting"
      BY <3>1 DEF PhotoRow
    <3>3. photos' = [photos EXCEPT ![p] = row]
      BY <1>5 DEF DeletePhoto
    <3> QED
      BY <3>2, <3>3
  <2> HIDE DEF row
  <2>5. PhotosTypeOK'
    BY <1>1, <1>5, <2>4 DEF DeletePhoto, PhotosTypeOK
  <2>6. ASSUME NEW q \in PhotoIds PROVE PhotoMoves(q, Q)
    BY <1>1, <1>5, <2>4 DEF DeletePhoto, PhotosTypeOK, PhotoMoves
  <2> QED
    BY <2>3, <2>5, <2>6, PhotosStep
<1>6. ASSUME \A q \in PhotoIds : photos'[q].status = photos[q].status /\ matches'[q] \subseteq matches[q],
             PhotosTypeOK', JobsNext({}, Calm) \/ UNCHANGED <<jobs, work>>
      PROVE  PhotosInv' /\ LateIgnored /\ WorkInv'
  <2>1. WorkInv' /\ RowsGrow({}) /\ Erased'
    BY <1>2, <1>6, CalmStep
  <2>2. \A q \in PhotoIds : PhotoMoves(q, {})
    BY <1>6 DEF PhotoMoves
  <2> QED
    BY <1>6, <2>1, <2>2, PhotosStep
<1>7. CASE LeaveDraft \/ \E n \in Recognitions : RetryRecognition(n)
  <2>1. PhotoRest
    BY <1>7 DEF PhotoRest, LeaveDraft, jobVars, Quiet
  <2>2. PhotosTypeOK'
    BY <1>1, <1>7 DEF LeaveDraft, RetryRecognition, photoVars, PhotosTypeOK
  <2> QED
    BY <1>6, <1>7, <2>1, <2>2, RestJobs DEF Quiet, LeaveDraft, RetryRecognition, photoVars
<1>8. ASSUME NEW p \in PhotoIds, RetentionExpires(p) PROVE PhotosInv' /\ LateIgnored /\ WorkInv'
  <2>1. [photos[p] EXCEPT !.expired = TRUE] \in PhotoRow
    BY <1>1 DEF PhotoRow
  <2>2. PhotosTypeOK'
    BY <1>1, <1>8, <2>1 DEF RetentionExpires, PhotosTypeOK
  <2>3. \A q \in PhotoIds : photos'[q].status = photos[q].status /\ matches'[q] \subseteq matches[q]
    BY <1>1, <1>8 DEF RetentionExpires, PhotosTypeOK, PhotoRow
  <2> QED
    BY <1>6, <1>8, <2>2, <2>3 DEF RetentionExpires, jobVars
<1>9. ASSUME NEW p \in PhotoIds, NEW n \in Recognitions, PurgeMatch(p, n)
      PROVE  PhotosInv' /\ LateIgnored /\ WorkInv'
  <2>1. PhotosTypeOK'
    BY <1>1, <1>9 DEF PurgeMatch, PhotosTypeOK
  <2>2. \A q \in PhotoIds : photos'[q].status = photos[q].status /\ matches'[q] \subseteq matches[q]
    BY <1>1, <1>9 DEF PurgeMatch, PhotosTypeOK
  <2> QED
    BY <1>6, <1>9, <2>1, <2>2 DEF PurgeMatch, jobVars
<1> QED
  BY <1>3, <1>4, <1>5, <1>7, <1>8, <1>9 DEF PocketRequest, PhotoPurge, PurgePhoto

\* The jobs.
LEMMA RecognitionPhotos ==
  ASSUME UploadsInv, PhotosInv, WorkInv, RowsKeep, NEW w \in Workers, NEW n \in Recognitions,
         \/ RecognizeStart(w, n) \/ RecognizeEnd(w, n)
         \/ \E p \in PhotoIds : \/ RecognizeNext(w, n, p) \/ RecognizeFails(w, n, p)
                                \/ RecognizeSave(w, n, p)
  PROVE  PhotosInv' /\ LateIgnored /\ WorkInv'
<1>1. PhotosTypeOK /\ \A p \in PhotoIds : photos[p] \in PhotoRow
  BY DEF PhotosInv, PhotosTypeOK
<1>2. WorkInv' /\ RowsGrow({}) /\ Erased'
  BY RecognitionJobs, CalmStep
<1>3. CASE UNCHANGED photoVars
  BY <1>1, <1>2, <1>3, PhotosStep DEF photoVars, PhotosTypeOK, PhotoMoves
<1>4. ASSUME NEW p \in PhotoIds, NEW s \in {"failed", "ready"},
             photos[p].status \notin Gone, photos' = [photos EXCEPT ![p].status = s],
             \A q \in PhotoIds \ {p} : matches'[q] = matches[q],
             s = "ready" => photos[p].job \in matches'[p],
             matches' \in [PhotoIds -> SUBSET Recognitions], UNCHANGED <<requested, draft>>
      PROVE  PhotosInv' /\ LateIgnored
  <2> DEFINE row == [photos[p] EXCEPT !.status = s]
  <2>1. /\ row \in PhotoRow /\ row.status = s /\ row.job = photos[p].job
        /\ photos' = [photos EXCEPT ![p] = row]
    BY <1>1, <1>4 DEF PhotoRow
  <2> HIDE DEF row
  <2>2. PhotosTypeOK'
    BY <1>1, <1>4, <2>1 DEF PhotosTypeOK
  <2>3. uploads'[p].bound
    BY <1>4 DEF PhotosInv, RowsKeep, Gone, PhotoIds
  <2>4. photos'[p] = row /\ \A q \in PhotoIds : q # p => photos'[q] = photos[q]
    BY <1>1, <2>1 DEF PhotosTypeOK
  <2>5. PhotoMoves(p, {})
    BY <1>4, <2>1, <2>3, <2>4 DEF PhotoMoves, Gone
  <2>6. \A q \in PhotoIds : q # p => PhotoMoves(q, {})
    BY <1>4, <2>4 DEF PhotoMoves
  <2> QED
    BY <1>2, <2>2, <2>5, <2>6, PhotosStep
<1>5. ASSUME NEW p \in PhotoIds, RecognizeFails(w, n, p) PROVE PhotosInv' /\ LateIgnored
  <2>1. CASE UNCHANGED photos
    BY <1>3, <1>5, <2>1 DEF RecognizeFails, photoVars
  <2>2. CASE photos[p].status \notin Gone /\ photos' = [photos EXCEPT ![p].status = "failed"]
    BY <1>1, <1>4, <1>5, <2>2 DEF RecognizeFails, PhotosTypeOK
  <2> QED
    BY <1>5, <2>1, <2>2 DEF RecognizeFails
<1>6. ASSUME NEW p \in PhotoIds, RecognizeSave(w, n, p) PROVE PhotosInv' /\ LateIgnored
  <2>1. CASE Withdrawn(p, n)
    BY <1>3, <1>6, <2>1 DEF RecognizeSave, photoVars
  <2>2. CASE ~Withdrawn(p, n)
    <3>1. photos[p].status \notin Gone /\ photos[p].job = n
      BY <2>2 DEF Withdrawn
    <3>2. /\ photos' = [photos EXCEPT ![p].status = "ready"]
          /\ matches' = [matches EXCEPT ![p] = @ \cup {n}]
          /\ UNCHANGED <<requested, draft>>
      BY <1>6, <2>2 DEF RecognizeSave
    <3>3. /\ matches' \in [PhotoIds -> SUBSET Recognitions] /\ n \in matches'[p]
          /\ \A q \in PhotoIds \ {p} : matches'[q] = matches[q]
      BY <1>1, <3>2 DEF PhotosTypeOK
    <3> QED
      BY <1>4, <3>1, <3>2, <3>3
  <2> QED
    BY <2>1, <2>2
<1> QED
  BY <1>2, <1>3, <1>5, <1>6 DEF RecognizeStart, RecognizeEnd, RecognizeNext

LEMMA DeletionPhotos ==
  ASSUME UploadsInv, UploadsInv', PhotosInv, WorkInv, RowsKeep, NEW w \in Workers, NEW p \in PhotoIds,
         DeletePhotoJob(w, p)
  PROVE  PhotosInv' /\ LateIgnored /\ WorkInv'
<1>1. PhotosTypeOK /\ \A q \in PhotoIds : photos[q] \in PhotoRow
  BY DEF PhotosInv, PhotosTypeOK
<1>2. WorkInv' /\ RowsGrow({})
  <2>1. Busy \in SUBSET Busy /\ {} \in SUBSET JobIds
    OBVIOUS
  <2> QED
    BY <2>1, DeletionJobs, StepWork DEF Quiet
<1>3. photos[p].status \in {"deleting", "deleted"} /\ uploads[p].bound /\ p \in UploadIds
  BY DEF DeletePhotoJob, WorkInv, PhotosInv, PhotoIds
<1>4. uploads[p] \in UploadRow /\ uploads[p].status # "none"
  BY <1>3 DEF UploadsInv, UploadsTypeOK, LockInv
<1>5. UNCHANGED <<matches, requested, draft>> /\ work[w].job = <<"delete", p>>
  BY DEF DeletePhotoJob
<1>6. CASE work[w].pc = "start"
  <2>1. UNCHANGED photos
    BY <1>6 DEF DeletePhotoJob
  <2>2. \/ UNCHANGED work
        \/ Goto(w, "erased") /\ uploads'[p].status = "deleted"
    <3>1. CASE EraseRow(w, p)
      BY <1>3, <1>4, <1>6, <3>1 DEF DeletePhotoJob, EraseRow, UploadsInv, UploadsTypeOK, UploadRow
    <3>2. CASE ~Stored(p) /\ UNCHANGED uploadVars
      BY <1>4, <1>6, <3>2 DEF DeletePhotoJob, Stored, UploadRow, uploadVars
    <3> QED
      BY <1>6, <3>1, <3>2 DEF DeletePhotoJob
  <2>3. Erased'
    <3>1. work' = work => NoneErased
      BY DEF NoneErased
    <3>2. CASE work' = work
      BY <3>1, <3>2, StepErased
    <3>3. CASE Goto(w, "erased") /\ uploads'[p].status = "deleted"
      <4>1. work'[w].job = <<"delete", p>> /\ \A x \in Workers : x # w => work'[x] = work[x]
        BY <1>5, <3>3 DEF Goto, WorkInv, Place
      <4>2. \A q \in PhotoIds : uploads[q].status = "deleted" => uploads'[q].status = "deleted"
        BY DEF PhotoIds, RowsKeep
      <4>3. SUFFICES ASSUME NEW q \in PhotoIds, NEW x \in Workers,
                            work'[x].pc = "erased", work'[x].job = <<"delete", q>>
                     PROVE  uploads'[q].status = "deleted"
        BY DEF Erased
      <4>4. CASE x = w
        <5>1. q = p
          BY <4>1, <4>3, <4>4
        <5> QED
          BY <3>3, <5>1
      <4>5. CASE x # w
        <5>1. work[x].pc = "erased" /\ work[x].job = <<"delete", q>>
          BY <4>1, <4>3, <4>5
        <5>2. uploads[q].status = "deleted"
          BY <5>1 DEF PhotosInv
        <5> QED
          BY <4>2, <5>2
      <4> QED
        BY <4>4, <4>5
    <3> QED
      BY <2>2, <3>2, <3>3
  <2>4. PhotosTypeOK' /\ \A q \in PhotoIds : PhotoMoves(q, {})
    BY <1>1, <1>5, <2>1 DEF PhotosTypeOK, PhotoMoves
  <2> QED
    BY <1>2, <2>3, <2>4, PhotosStep
<1>7. CASE work[w].pc = "erased"
  <2> DEFINE row == [photos[p] EXCEPT !.status = "deleted", !.job = 0]
  <2>1. row \in PhotoRow /\ row.status = "deleted" /\ photos' = [photos EXCEPT ![p] = row]
    <3>1. 0 \in 0..MaxRecognitions /\ photos[p] \in PhotoRow
      BY <1>1, PhotoAssumption
    <3>2. row \in PhotoRow /\ row.status = "deleted"
      BY <3>1 DEF PhotoRow
    <3>3. photos' = [photos EXCEPT ![p] = row]
      BY <1>7 DEF DeletePhotoJob
    <3> QED
      BY <3>2, <3>3
  <2> HIDE DEF row
  <2>2. PhotosTypeOK'
    BY <1>1, <1>5, <2>1 DEF PhotosTypeOK
  <2>3. photos'[p] = row /\ \A q \in PhotoIds : q # p => photos'[q] = photos[q]
    BY <1>1, <2>1 DEF PhotosTypeOK
  <2>4. uploads'[p].status = "deleted" /\ matches[p] = {}
    BY <1>3, <1>5, <1>7 DEF PhotosInv, RowsKeep, Gone
  <2>5. \A q \in PhotoIds : PhotoMoves(q, {})
    BY <1>3, <1>5, <2>1, <2>3, <2>4 DEF PhotoMoves
  <2>6. NoneErased
    <3>1. Return(w, "ok")
      BY <1>7 DEF DeletePhotoJob
    <3> QED
      BY <3>1 DEF Return, NoneErased, WorkInv, Place
  <2> QED
    BY <1>2, <2>2, <2>5, <2>6, StepErased, PhotosStep
<1> QED
  BY <1>6, <1>7 DEF DeletePhotoJob

LEMMA PhotoStepPhotos ==
  ASSUME UploadsInv, UploadsInv', PhotosInv, WorkInv, RowsKeep, PhotoNext
  PROVE  PhotosInv' /\ LateIgnored /\ WorkInv'
<1>1. ASSUME PhotoRest, UNCHANGED photoVars PROVE PhotosInv' /\ LateIgnored /\ WorkInv'
  <2>1. WorkInv' /\ RowsGrow({}) /\ Erased'
    BY <1>1, RestJobs, CalmStep DEF Quiet
  <2>2. PhotosTypeOK' /\ \A q \in PhotoIds : PhotoMoves(q, {})
    BY <1>1 DEF photoVars, PhotoMoves, PhotosInv, PhotosTypeOK
  <2> QED
    BY <2>1, <2>2, PhotosStep
<1>2. ASSUME NEW w \in Workers, work[w].job \in PhotoJobs, FinishJob(w), UNCHANGED photoVars
      PROVE  PhotosInv' /\ LateIgnored /\ WorkInv'
  BY <1>1, <1>2 DEF PhotoRest
<1>3. ASSUME NEW w \in Workers, \/ PhotoStepFails(w) \/ PhotoCrash(w)
                                \/ /\ (\E j \in PhotoJobs : ClaimJob(w, j)) \/ TryLock(w)
                                   /\ UNCHANGED photoVars
      PROVE  PhotosInv' /\ LateIgnored /\ WorkInv'
  <2>1. UNCHANGED photoVars
    BY <1>3 DEF PhotoStepFails, PhotoCrash
  <2> QED
    BY <1>1, <1>3, <2>1 DEF PhotoRest
<1>4. ASSUME NEW j \in PhotoJobs, LeaseExpires(j), UNCHANGED photoVars
      PROVE  PhotosInv' /\ LateIgnored /\ WorkInv'
  BY <1>1, <1>4 DEF PhotoRest
<1>5. ASSUME Quiet, UNCHANGED photoVars PROVE PhotosInv' /\ LateIgnored /\ WorkInv'
  BY <1>1, <1>5 DEF PhotoRest
<1>6. ASSUME NEW w \in Workers, PhotoJobStep(w) PROVE PhotosInv' /\ LateIgnored /\ WorkInv'
  BY <1>2, <1>6, RecognitionPhotos, DeletionPhotos DEF PhotoJobStep
<1> QED
  BY <1>3, <1>4, <1>5, <1>6, RequestPhotos DEF PhotoNext, SessionLost, jobVars, Quiet

\* All of it together.
AssetsInv == UploadsInv /\ ProfileInv /\ WorkInv /\ PhotosInv

LEMMA AssetsInitInv == AssetsInit => AssetsInv
BY UploadsInitInv, FaceInitProfile, InitWork, PhotoInitInv DEF AssetsInit, FaceInit, AssetsInv

LEMMA AssetsStepInv == ASSUME AssetsInv, [AssetsNext]_assetVars PROVE AssetsInv' /\ LateIgnored
<1> USE DEF AssetsInv
<1>1. UploadsInv' /\ RowsKeep
  BY StepUploads, UploadsStepInv
<1>2. ProfileInv'
  BY ProfileStep
<1>3. CASE FaceNext /\ UNCHANGED photoVars
  <2>1. FaceJobs \in SUBSET JobIds
    BY FaceAssumption
  <2>2. WorkInv'
    BY <1>1, <1>3, <2>1, FaceStepJobs, CalmStep DEF Quiet
  <2> QED
    BY <1>1, <1>2, <1>3, <2>2, FaceStepPhotos
<1>4. CASE PhotoNext
  BY <1>1, <1>2, <1>4, PhotoStepPhotos
<1>5. CASE UNCHANGED assetVars
  <2>1. UNCHANGED <<jobs, work, photoVars>>
    BY <1>5 DEF assetVars, jobVars
  <2>2. WorkInv' /\ RowsGrow({}) /\ Erased'
    BY <1>1, <2>1, CalmStep
  <2>3. PhotosTypeOK' /\ \A q \in PhotoIds : PhotoMoves(q, {})
    BY <2>1 DEF photoVars, PhotoMoves, PhotosInv, PhotosTypeOK
  <2> QED
    BY <1>1, <1>2, <2>2, <2>3, PhotosStep
<1> QED
  BY <1>3, <1>4, <1>5 DEF AssetsNext

LEMMA AssetsAlways == AssetsSpec => []AssetsInv
<1>1. AssetsInv /\ [AssetsNext]_assetVars => AssetsInv'
  BY AssetsStepInv
<1> QED
  BY <1>1, AssetsInitInv, PTL DEF AssetsSpec

\* No face match outlives the request to delete its photo, and a photo that is
\* reported as deleted is not in the bucket.
THEOREM DeletedPhotosGone == AssetsSpec => []DeletedPhotoGone
<1>1. AssetsInv => DeletedPhotoGone
  BY DEF AssetsInv, PhotosInv, UploadsInv, DeletedIsGone, DeletedPhotoGone, PhotoIds
<1> QED
  BY <1>1, AssetsAlways, PTL

\* A recognition that ends after its photo was deleted, or requested again, changes
\* nothing.
THEOREM LateRecognitions == AssetsSpec => LateRecognitionIgnored
<1>1. AssetsInv /\ [AssetsNext]_assetVars
        => [\A p \in PhotoIds :
              /\ photos[p].status \in {"deleting", "deleted"}
                   => photos'[p].status \in {"deleting", "deleted"}
              /\ photos[p].status # "ready" /\ photos'[p].status = "ready"
                   => photos'[p].job \in matches'[p]]_phVars
  BY AssetsStepInv DEF LateIgnored
<1> QED
  BY <1>1, AssetsAlways, PTL DEF AssetsSpec, LateRecognitionIgnored

-----------------------------------------------------------------------------
(* The jobs of the profile, while no worker outlives its lease or its      *)
(* lock.                                                                   *)

\* A worker at a job is the one that has claimed it; one at work has its lock.
LeaseInv ==
  /\ jobLock \in [Locks -> Workers \cup {NoWorker}]
  /\ \A w \in Workers :
       /\ work[w].pc # "idle" => /\ jobs[work[w].job].status = "running"
                                 /\ jobs[work[w].job].lease_owner = w
                                 /\ ~jobs[work[w].job].expired
       /\ Running(w) => jobLock[LockOf[work[w].job]] = w

LEMMA LockOfJob == \A j \in JobIds : LockOf[j] \in Locks
BY DEF Locks

\* Only one worker moves, and the rows and locks of the others stay.
LEMMA LeaseKept ==
  ASSUME WorkInv, LeaseInv, NEW w \in Workers,
         jobLock' \in [Locks -> Workers \cup {NoWorker}],
         \A x \in Workers : x # w =>
           /\ work'[x] = work[x]
           /\ work[x].pc # "idle" => jobs'[work[x].job] = jobs[work[x].job]
           /\ Running(x) => jobLock'[LockOf[work[x].job]] = x,
         work'[w].pc # "idle" => /\ jobs'[work'[w].job].status = "running"
                                 /\ jobs'[work'[w].job].lease_owner = w
                                 /\ ~jobs'[work'[w].job].expired,
         work'[w].pc \notin {"idle", "claimed"} => jobLock'[LockOf[work'[w].job]] = w
  PROVE  LeaseInv'
BY DEF LeaseInv, Running

\* A row that no worker is at may be written.
LEMMA LeaseRow ==
  ASSUME WorkInv, LeaseInv, UNCHANGED <<work, jobLock>>, NEW j \in JobIds,
         \A i \in JobIds : i # j => jobs'[i] = jobs[i],
         \A w \in Workers : work[w].pc # "idle" => work[w].job # j
  PROVE  LeaseInv'
BY DEF LeaseInv, Running, WorkInv

\* The locks that worker w leaves.
LEMMA Released ==
  ASSUME LeaseInv, NEW w \in Workers
  PROVE  /\ ReleasedBy(w) \in [Locks -> Workers \cup {NoWorker}]
         /\ \A l \in Locks : jobLock[l] # w => ReleasedBy(w)[l] = jobLock[l]
BY DEF LeaseInv, ReleasedBy

LEMMA StepLease ==
  ASSUME NEW Q \in SUBSET JobIds, NEW S \in SUBSET Busy, WorkInv, LeaseInv, ~Stalls,
         JobsNext(Q, S) \/ Quiet
  PROVE  LeaseInv'
<1>1. \A w \in Workers : work[w].pc # "idle" => work[w].job \in JobIds /\ LockOf[work[w].job] \in Locks
  BY LockOfJob DEF WorkInv
<1>2. \A w \in Workers : Running(w) => work[w].pc # "idle"
  BY DEF Running
<1>3. \A w, x \in Workers : w # x /\ work[w].pc # "idle" /\ work[x].pc # "idle" => work[w].job # work[x].job
  BY DEF LeaseInv
<1>4. NoWorker \notin Workers
  BY AsyncJobsAssumption
<1>5. ASSUME NEW j \in Q, jobs' = Queued(jobs, j), UNCHANGED <<work, jobLock>> PROVE LeaseInv'
  <2>1. CASE jobs[j].status = "none"
    <3>1. \A i \in JobIds : i # j => jobs'[i] = jobs[i]
      BY <1>5, QueuedRows DEF WorkInv
    <3>2. \A w \in Workers : work[w].pc # "idle" => work[w].job # j
      BY <2>1 DEF WorkInv
    <3> QED
      BY <1>5, <3>1, <3>2, LeaseRow
  <2>2. CASE jobs[j].status # "none"
    <3>1. jobs' = jobs
      BY <1>5, <2>2 DEF Queued, WorkInv
    <3> QED
      BY <1>5, <3>1 DEF LeaseInv, Running
  <2> QED
    BY <2>1, <2>2
<1>6. ASSUME NEW j \in JobIds, jobs[j].status = "failed", jobs' = Retried(j), UNCHANGED <<work, jobLock>>
      PROVE  LeaseInv'
  <2>1. \A i \in JobIds : i # j => jobs'[i] = jobs[i]
    BY <1>6 DEF Retried, WorkInv
  <2>2. \A w \in Workers : work[w].pc # "idle" => work[w].job # j
    BY <1>6 DEF LeaseInv
  <2> QED
    BY <1>6, <2>1, <2>2, LeaseRow
<1>7. ASSUME NEW w \in Workers, NEW j \in JobIds, ClaimJob(w, j) PROVE LeaseInv'
  <2>1. \A x \in Workers : work[x].pc # "idle" => work[x].job # j
    BY <1>7 DEF ClaimJob, Claimable, LeaseInv
  <2>2. /\ work'[w].pc = "claimed" /\ work'[w].job = j
        /\ \A x \in Workers : x # w => work'[x] = work[x]
    BY <1>7 DEF ClaimJob, WorkInv, Place
  <2>3. /\ jobs'[j].status = "running" /\ jobs'[j].lease_owner = w /\ ~jobs'[j].expired
        /\ \A i \in JobIds : i # j => jobs'[i] = jobs[i]
    BY <1>7 DEF ClaimJob, WorkInv
  <2>4. jobLock' = jobLock
    BY <1>7 DEF ClaimJob
  <2> QED
    BY <1>1, <1>2, <2>1, <2>2, <2>3, <2>4, LeaseKept DEF LeaseInv
<1>8. ASSUME NEW w \in Workers, TryLock(w) PROVE LeaseInv'
  <2>1. work[w].job \in JobIds /\ LockOf[work[w].job] \in Locks /\ work[w].pc = "claimed"
    BY <1>1, <1>8 DEF TryLock
  <2>2. CASE /\ jobLock[LockOf[work[w].job]] = NoWorker
             /\ jobLock' = [jobLock EXCEPT ![LockOf[work[w].job]] = w]
             /\ Goto(w, "start") /\ UNCHANGED jobs
    <3>1. work'[w].job = work[w].job /\ \A x \in Workers : x # w => work'[x] = work[x]
      BY <2>2 DEF Goto, WorkInv, Place
    <3>2. /\ jobLock' \in [Locks -> Workers \cup {NoWorker}] /\ jobLock'[LockOf[work[w].job]] = w
          /\ \A x \in Workers : Running(x) => jobLock'[LockOf[work[x].job]] = jobLock[LockOf[work[x].job]]
      BY <1>1, <1>2, <1>4, <2>1, <2>2 DEF LeaseInv
    <3> QED
      BY <2>1, <2>2, <3>1, <3>2, LeaseKept DEF LeaseInv
  <2>3. CASE /\ UNCHANGED jobLock /\ work' = [work EXCEPT ![w] = IdleWorker]
             /\ \A i \in JobIds : i # work[w].job => jobs'[i] = jobs[i]
    <3>1. work'[w].pc = "idle" /\ \A x \in Workers : x # w => work'[x] = work[x]
      BY <2>3, IdlePlace DEF WorkInv
    <3> QED
      BY <1>1, <1>3, <2>1, <2>3, <3>1, LeaseKept DEF LeaseInv
  <2>4. \/ UNCHANGED jobs
        \/ jobs' = [jobs EXCEPT ![work[w].job].status = "queued", ![work[w].job].attempt = @ - 1,
                                ![work[w].job].expired = FALSE]
        => \A i \in JobIds : i # work[w].job => jobs'[i] = jobs[i]
    BY DEF WorkInv
  <2> QED
    BY <1>8, <2>2, <2>3, <2>4 DEF TryLock
<1>9. ASSUME NEW w \in Workers, jobLock' = ReleasedBy(w), work' = [work EXCEPT ![w] = IdleWorker],
             \A i \in JobIds : (\E x \in Workers : x # w /\ work[x].pc # "idle" /\ work[x].job = i)
                                 => jobs'[i] = jobs[i]
      PROVE  LeaseInv'
  <2>1. work'[w].pc = "idle" /\ \A x \in Workers : x # w => work'[x] = work[x]
    BY <1>9, IdlePlace DEF WorkInv
  <2>2. /\ jobLock' \in [Locks -> Workers \cup {NoWorker}]
        /\ \A x \in Workers : x # w /\ Running(x) => jobLock'[LockOf[work[x].job]] = x
    BY <1>1, <1>2, <1>9, Released DEF LeaseInv
  <2> QED
    BY <1>1, <1>9, <2>1, <2>2, LeaseKept
<1>10. ASSUME NEW w \in Workers, CrashWorker(w) PROVE LeaseInv'
  BY <1>9, <1>10 DEF CrashWorker
<1>11. ASSUME NEW w \in Workers, Handling(w, S) PROVE LeaseInv'
  BY <1>11, LeaseKept DEF Handling, Running, LeaseInv
<1>12. ASSUME NEW w \in Workers, Finishing(w), NEW j \in Q,
              jobs' = FinishedRows(w) \/ jobs' = Queued(FinishedRows(w), j)
       PROVE  LeaseInv'
  <2>1. /\ FinishedRows(w) \in [JobIds -> Row]
        /\ \A i \in JobIds : FinishedRows(w)[i].status = "none" <=> jobs[i].status = "none"
    BY <1>12, FinishedRowsOK DEF Finishing
  <2>2. \A i \in JobIds : i # work[w].job => FinishedRows(w)[i] = jobs[i]
    BY DEF FinishedRows, WorkInv
  <2>3. ASSUME NEW i \in JobIds, NEW x \in Workers, x # w, work[x].pc # "idle", work[x].job = i
        PROVE  jobs'[i] = jobs[i]
    <3>1. i # work[w].job /\ FinishedRows(w)[i].status # "none"
      BY <1>3, <1>12, <2>1, <2>3 DEF Finishing, WorkInv
    <3>2. i = j => Queued(FinishedRows(w), j)[i] = FinishedRows(w)[i]
      BY <2>1, <3>1 DEF Queued
    <3>3. i # j => Queued(FinishedRows(w), j)[i] = FinishedRows(w)[i]
      BY <2>1, QueuedRows
    <3> QED
      BY <1>12, <2>2, <3>1, <3>2, <3>3
  <2> QED
    BY <1>9, <1>12, <2>3 DEF Finishing
<1>13. ASSUME NEW w \in Workers, Finishing(w), jobs' = FinishedRows(w) PROVE LeaseInv'
  <2>1. \A i \in JobIds : i # work[w].job => FinishedRows(w)[i] = jobs[i]
    BY DEF FinishedRows, WorkInv
  <2>2. \A x \in Workers : x # w /\ work[x].pc # "idle" => work[x].job # work[w].job
    BY <1>3, <1>13 DEF Finishing
  <2> QED
    BY <1>9, <1>13, <2>1, <2>2 DEF Finishing
<1>14. ASSUME NEW j \in JobIds, LeaseExpires(j) PROVE LeaseInv'
  <2>1. \A w \in Workers : work[w].pc # "idle" => work[w].job # j
    BY <1>14 DEF LeaseExpires, HeldBy, LeaseInv
  <2>2. UNCHANGED <<work, jobLock>> /\ \A i \in JobIds : i # j => jobs'[i] = jobs[i]
    BY <1>14 DEF LeaseExpires, WorkInv
  <2> QED
    BY <2>1, <2>2, LeaseRow
<1>15. CASE Quiet
  BY <1>15 DEF Quiet, LeaseInv, Running
<1> QED
  BY <1>5, <1>6, <1>7, <1>8, <1>10, <1>11, <1>12, <1>13, <1>14, <1>15 DEF JobsNext

\* Two workers are never at work for the profile at once.
LEMMA OneAtWork ==
  ASSUME WorkInv, LeaseInv, NEW w \in Workers, NEW x \in Workers, Running(w), Running(x),
         work[w].job \in FaceJobs, work[x].job \in FaceJobs
  PROVE  w = x
BY FaceAssumption DEF LeaseInv

JobsAbout(v) == {<<"enroll", v>>, <<"revoke", v>>, <<"cleanup", v>>}

LEMMA AboutFace ==
  /\ \A v \in Versions : JobsAbout(v) \subseteq FaceJobs /\ JobsAbout(v) \subseteq JobIds
  /\ \A j \in FaceJobs : \E v \in Versions : j \in JobsAbout(v)
  /\ \A v, x \in Versions : v # x => JobsAbout(v) \cap JobsAbout(x) = {}
BY FaceAssumption DEF JobsAbout, FaceJobs

\* Whose samples these are.  Every person has one that is not deleted, so that the
\* jobs, which look for persons by their samples, miss none.
SamplesInv ==
  /\ samples \in [SampleUploads -> SampleRow]
  /\ persons \subseteq Versions
  /\ \A u \in SampleUploads :
       /\ samples[u].version <= profile.version
       /\ samples[u].version # 0 => uploads[u].bound
       /\ samples[u].version # 0 /\ samples[u].version = profile.version =>
            profile.status \notin {"revoking", "revoked"} /\ samples[u].status # "deleted"
  /\ \A v \in persons : \E u \in SamplesOf(v) : samples[u].status # "deleted"
  /\ profile.person <= profile.version
  /\ profile.person # 0 => profile.status \in {"active", "revoking"}

\* A job of the profile is about a version it has had; a cleanup does not give up.
FaceRowsInv ==
  \A v \in Versions :
    /\ v > profile.version => \A j \in JobsAbout(v) : jobs[j].status = "none"
    /\ jobs[<<"enroll", v>>].status # "none" => SamplesOf(v) # {}
    /\ jobs[<<"cleanup", v>>].status # "failed"

\* The jobs that have this step.
AtHome(w) ==
  /\ work[w].pc \in {"enroll", "activate", "discard"} => work[w].job \in {"enroll"} \X Versions
  /\ work[w].pc \in {"clean", "erase"} => work[w].job \in {"enroll", "cleanup"} \X Versions
  /\ work[w].pc \in {"reject", "rejected"} => work[w].job \in {"cleanup"} \X Versions
  /\ work[w].pc = "revoke" => work[w].job \in {"revoke"} \X Versions

NoneBefore(v) == \A x \in persons : x >= v

\* What the handler of a job for version v, at worker w, may rely on.
Knows(w, v) ==
  /\ work[w].pc \in {"enroll", "activate", "discard", "reject", "rejected"} => profile.person # v
  /\ work[w].pc = "enroll" => /\ profile.status # "revoked"
                              /\ \E u \in SamplesOf(v) : samples[u].status # "deleted"
  /\ work[w].pc = "activate" => v \in persons
  /\ work[w].pc = "rejected" => v \notin persons
  /\ work[w].pc \in {"clean", "erase"} => profile.person = v
  /\ work[w].pc = "clean" => /\ \A x \in Versions : <<"person", x>> \in work[w].left => x < v
                             /\ \A x \in persons : x >= v \/ <<"person", x>> \in work[w].left
  /\ work[w].pc = "erase" => NoneBefore(v)
  /\ work[w].pc = "revoke" =>
       /\ profile.status = "revoking"
       /\ \A x \in persons : <<"person", x>> \in work[w].left
       /\ \A u \in SampleUploads : samples[u].version # 0 =>
            uploads[u].status = "deleted" \/ <<"upload", u>> \in work[w].left
  /\ work[w].pc = "finish" /\ work[w].verdict = "ok" =>
       IF work[w].job = <<"revoke", v>>
       THEN profile.status = "revoking" => profile.version # v
       ELSE \/ profile.person = v /\ NoneBefore(v)
            \/ profile.person # v /\ v \notin persons

PlaceOK(w) ==
  AtHome(w) /\ \A v \in Versions : work[w].job \in JobsAbout(v) => Knows(w, v)

PlacesInv == \A w \in Workers : PlaceOK(w)

\* A revoked profile has left nothing.
ErasedInv ==
  profile.status = "revoked" =>
    /\ persons = {}
    /\ \A u \in SampleUploads : samples[u].version # 0 => uploads[u].status = "deleted"

FaceInv ==
  SamplesInv /\ FaceRowsInv /\ PlacesInv /\ ErasedInv /\ ActivePersonExists /\ FacesAccounted

\* Persons are of the past and the present.
LEMMA VersionsUsed ==
  ASSUME ProfileInv, SamplesInv, NEW v \in persons
  PROVE  v <= profile.version /\ profile.version \in Versions /\ <<"revoke", profile.version>> \in FaceJobs
<1>1. profile.version \in 0..MaxVersion /\ v \in Versions
  BY DEF ProfileInv, ProfileRow, SamplesInv
<1>2. PICK u \in SampleUploads : samples[u].version = v
  BY DEF SamplesInv, SamplesOf
<1>3. v <= profile.version
  BY <1>2 DEF SamplesInv
<1>4. profile.version \in Versions
  BY <1>1, <1>3, FaceAssumption DEF Versions
<1> QED
  BY <1>3, <1>4 DEF FaceJobs

\* What is left of the steps of others: no row of the profile's jobs starts or ends, and
\* no worker learns anything.
Elsewhere ==
  /\ \A j \in FaceJobs : \/ jobs'[j].status = jobs[j].status
                         \/ {jobs[j].status, jobs'[j].status} \subseteq {"queued", "running"}
  /\ \A w \in Workers :
       \/ work'[w] = work[w]
       \/ work'[w].pc \in {"idle", "claimed", "start"}
       \/ work'[w].pc = "finish" /\ (work'[w].verdict = "retry" \/ work'[w].job \notin FaceJobs)
       \/ work'[w].pc \in {"recognize", "erased"}

LEMMA FaceKept ==
  ASSUME ProfileInv, FaceInv, UNCHANGED <<samples, persons, abandoned>>, RowsKeep, Elsewhere,
         profile'.status = profile.status, profile'.person = profile.person,
         profile'.version = profile.version
  PROVE  FaceInv'
<1>1. \A u \in SampleUploads : u \in UploadIds
  BY UploadsAssumption
<1>2. SamplesInv' /\ ErasedInv' /\ ActivePersonExists'
  BY <1>1 DEF FaceInv, SamplesInv, ErasedInv, ActivePersonExists, RowsKeep, SamplesOf
<1>3. FaceRowsInv'
  <2> SUFFICES ASSUME NEW v \in Versions
               PROVE  /\ v > profile.version => \A j \in JobsAbout(v) : jobs'[j].status = "none"
                      /\ jobs'[<<"enroll", v>>].status # "none" => SamplesOf(v)' # {}
                      /\ jobs'[<<"cleanup", v>>].status # "failed"
    BY DEF FaceRowsInv, JobsAbout
  <2>1. SamplesOf(v)' = SamplesOf(v)
    BY DEF SamplesOf
  <2>2. \A j \in JobsAbout(v) : \/ jobs'[j].status = jobs[j].status
                                \/ {jobs[j].status, jobs'[j].status} \subseteq {"queued", "running"}
    BY AboutFace DEF Elsewhere
  <2> QED
    BY <2>1, <2>2 DEF FaceInv, FaceRowsInv, JobsAbout
<1>4. FacesAccounted'
  <2>1. \A j \in FaceJobs : /\ Unfinished(j) => Unfinished(j)'
                            /\ jobs[j].status \in {"failed", "succeeded"} => jobs'[j].status = jobs[j].status
    BY DEF Elsewhere, Unfinished
  <2>2. \A v \in Versions : <<"enroll", v>> \in FaceJobs /\ <<"cleanup", v>> \in FaceJobs
    BY DEF FaceJobs
  <2>3. SUFFICES ASSUME NEW v \in persons PROVE Accounted(v)' \/ LeftByRetry(v)'
    BY DEF FacesAccounted
  <2>4. v \in Versions /\ <<"revoke", profile.version>> \in FaceJobs
    BY VersionsUsed DEF FaceInv, SamplesInv
  <2>5. Accounted(v) \/ LeftByRetry(v)
    BY DEF FaceInv, FacesAccounted
  <2>6. CASE Accounted(v)
    BY <2>1, <2>2, <2>4, <2>6 DEF Accounted
  <2>7. CASE LeftByRetry(v)
    BY <2>1, <2>2, <2>7 DEF LeftByRetry, ProfileInv
  <2> QED
    BY <2>5, <2>6, <2>7
<1>5. ASSUME NEW w \in Workers PROVE PlaceOK(w)'
  <2>1. PlaceOK(w)
    BY DEF FaceInv, PlacesInv
  <2>2. CASE work'[w] = work[w]
    BY <1>1, <2>1, <2>2 DEF PlaceOK, AtHome, Knows, NoneBefore, SamplesOf, RowsKeep
  <2>3. CASE \/ work'[w].pc \in {"idle", "claimed", "start", "recognize", "erased"}
             \/ work'[w].pc = "finish" /\ work'[w].verdict = "retry"
    BY <2>3 DEF PlaceOK, AtHome, Knows
  <2>4. CASE work'[w].pc = "finish" /\ work'[w].job \notin FaceJobs
    BY <2>4, AboutFace DEF PlaceOK, AtHome
  <2> QED
    BY <2>2, <2>3, <2>4 DEF Elsewhere
<1> QED
  BY <1>2, <1>3, <1>4, <1>5 DEF FaceInv, PlacesInv

LEMMA RowsElsewhere ==
  ASSUME UNCHANGED work, \A j \in FaceJobs : jobs'[j].status = jobs[j].status
  PROVE  Elsewhere
BY DEF Elsewhere

\* Only worker w moves, and learns nothing.
LEMMA WorkElsewhere ==
  ASSUME NEW w \in Workers, \A x \in Workers : x # w => work'[x] = work[x],
         \A j \in FaceJobs : \/ jobs'[j].status = jobs[j].status
                             \/ {jobs[j].status, jobs'[j].status} \subseteq {"queued", "running"},
         \/ work'[w].pc \in {"idle", "claimed", "start", "recognize", "erased"}
         \/ work'[w].pc = "finish" /\ (work'[w].verdict = "retry" \/ work'[w].job \notin FaceJobs)
  PROVE  Elsewhere
BY DEF Elsewhere

LEMMA QueueElsewhere ==
  ASSUME WorkInv, LeaseInv, NEW w \in Workers,
         \/ \E j \in JobIds : ClaimJob(w, j)
         \/ TryLock(w) \/ CrashWorker(w)
         \/ Return(w, "retry") /\ UNCHANGED jobs
  PROVE  Elsewhere
<1> USE FaceAssumption DEF WorkInv
<1>1. ASSUME NEW j \in JobIds, ClaimJob(w, j) PROVE Elsewhere
  <2>1. work'[w].pc = "claimed" /\ \A x \in Workers : x # w => work'[x] = work[x]
    <3>1. work' = [work EXCEPT ![w].pc = "claimed", ![w].job = j]
      BY <1>1 DEF ClaimJob
    <3>2. \A x \in Workers : x # w => work'[x] = work[x]
      BY <3>1
    <3> QED
      BY <3>1, <3>2 DEF Place
  <2>2. /\ jobs[j].status \in {"queued", "running"} /\ jobs'[j].status = "running"
        /\ \A i \in JobIds : i # j => jobs'[i] = jobs[i]
    BY <1>1 DEF ClaimJob, Claimable
  <2> QED
    BY <2>1, <2>2, WorkElsewhere
<1>2. CASE TryLock(w)
  <2> DEFINE j == work[w].job
  <2>1. j \in JobIds /\ jobs[j].status = "running"
    BY <1>2 DEF TryLock, LeaseInv
  <2>2. work'[w].pc \in {"start", "idle"} /\ \A x \in Workers : x # w => work'[x] = work[x]
    BY <1>2, IdlePlace DEF TryLock, Goto, Place
  <2>3. /\ jobs'[j].status \in {"queued", "running"}
        /\ \A i \in JobIds : i # j => jobs'[i] = jobs[i]
    BY <1>2, <2>1 DEF TryLock, Row
  <2> QED
    BY <2>1, <2>2, <2>3, WorkElsewhere
<1>3. CASE CrashWorker(w)
  BY <1>3, WorkElsewhere, IdlePlace DEF CrashWorker
<1>4. CASE Return(w, "retry") /\ UNCHANGED jobs
  <2>1. /\ work'[w].pc = "finish" /\ work'[w].verdict = "retry"
        /\ \A x \in Workers : x # w => work'[x] = work[x]
    BY <1>4 DEF Return, Place
  <2> QED
    BY <1>4, <2>1, WorkElsewhere
<1> QED
  BY <1>1, <1>2, <1>3, <1>4

LEMMA ExpiryElsewhere ==
  ASSUME WorkInv, NEW j \in JobIds, LeaseExpires(j) PROVE Elsewhere
<1>1. UNCHANGED work /\ \A i \in JobIds : jobs'[i].status = jobs[i].status
  BY DEF LeaseExpires, WorkInv, Row
<1> QED
  BY <1>1, RowsElsewhere, FaceAssumption

LEMMA PhotoElsewhere ==
  ASSUME WorkInv, PhotosInv, LeaseInv, PhotoNext PROVE Elsewhere
<1> USE DEF WorkInv
<1>1. PhotoJobs \cap FaceJobs = {} /\ PhotoJobs \subseteq JobIds
  BY PhotoAssumption DEF PhotoJobs, FaceJobs
<1>2. ASSUME NEW j \in PhotoJobs, Queue(j) \/ jobs' = Retried(j), UNCHANGED work PROVE Elsewhere
  <2>1. \A i \in JobIds : i # j => jobs'[i] = jobs[i]
    BY <1>1, <1>2, QueuedRows DEF Queue, Retried
  <2> QED
    BY <1>1, <1>2, <2>1, RowsElsewhere, FaceAssumption
<1>3. CASE UNCHANGED <<jobs, work>>
  BY <1>3, RowsElsewhere
<1>4. CASE PocketRequest \/ PhotoPurge
  <2>1. /\ \A n \in Recognitions : <<"recognize", n>> \in PhotoJobs
        /\ \A p \in PhotoIds : <<"delete", p>> \in PhotoJobs
    BY DEF PhotoJobs
  <2> QED
    BY <1>2, <1>3, <1>4, <2>1 DEF PocketRequest, PhotoPurge, AddPhotos, StartRecognition, RetryRecognition,
       DeletePhoto, RetentionExpires, LeaveDraft, PurgePhoto, PurgeMatch, jobVars
<1>5. ASSUME NEW w \in Workers, PhotoJobStep(w) PROVE Elsewhere
  <2>1. ASSUME NEW n \in Recognitions, NEW p \in PhotoIds,
               RecognizeNext(w, n, p) \/ RecognizeFails(w, n, p) \/ RecognizeSave(w, n, p)
        PROVE  Elsewhere
    <3>1. work[w].job = <<"recognize", n>> /\ work[w].pc = "recognize" /\ UNCHANGED jobs
      BY <2>1 DEF RecognizeNext, RecognizeFails, RecognizeSave, Looking, Recognizing
    <3>2. /\ work'[w].job = work[w].job /\ work'[w].pc \in {"recognize", "finish"}
          /\ \A x \in Workers : x # w => work'[x] = work[x]
      <4>1. CASE RecognizeNext(w, n, p)
        BY <3>1, <4>1 DEF RecognizeNext, Return, Place
      <4>2. CASE RecognizeFails(w, n, p)
        BY <3>1, <4>2 DEF RecognizeFails, Place
      <4>3. CASE RecognizeSave(w, n, p)
        BY <3>1, <4>3 DEF RecognizeSave, Place
      <4> QED
        BY <2>1, <4>1, <4>2, <4>3
    <3>3. work'[w].job \notin FaceJobs
      BY <1>1, <3>1, <3>2 DEF PhotoJobs
    <3> QED
      BY <3>1, <3>2, <3>3, WorkElsewhere
  <2>2. ASSUME NEW n \in Recognitions, RecognizeStart(w, n) \/ RecognizeEnd(w, n) PROVE Elsewhere
    <3>1. work[w].job = <<"recognize", n>> /\ UNCHANGED jobs
      BY <2>2 DEF RecognizeStart, RecognizeEnd, Recognizing
    <3>2. /\ work'[w].job = work[w].job /\ work'[w].pc \in {"recognize", "finish"}
          /\ \A x \in Workers : x # w => work'[x] = work[x]
      <4>1. CASE RecognizeStart(w, n)
        BY <4>1 DEF RecognizeStart, Place
      <4>2. CASE RecognizeEnd(w, n)
        BY <4>2 DEF RecognizeEnd, Goto, Place
      <4> QED
        BY <2>2, <4>1, <4>2
    <3>3. work'[w].job \notin FaceJobs
      BY <1>1, <3>1, <3>2 DEF PhotoJobs
    <3> QED
      BY <3>1, <3>2, <3>3, WorkElsewhere
  <2>3. ASSUME NEW p \in PhotoIds, DeletePhotoJob(w, p) PROVE Elsewhere
    <3>1. work[w].job = <<"delete", p>> /\ UNCHANGED jobs
      BY <2>3 DEF DeletePhotoJob
    <3>2. \/ UNCHANGED work
          \/ /\ work'[w].job = work[w].job /\ work'[w].pc \in {"erased", "finish"}
             /\ \A x \in Workers : x # w => work'[x] = work[x]
      BY <2>3 DEF DeletePhotoJob, Goto, Return, Place
    <3>3. work[w].job \notin FaceJobs
      BY <1>1, <3>1 DEF PhotoJobs
    <3> QED
      BY <1>3, <3>1, <3>2, <3>3, WorkElsewhere
  <2>4. ASSUME work[w].job \in PhotoJobs, FinishJob(w) PROVE Elsewhere
    <3>1. \A j \in FaceJobs : jobs'[j] = jobs[j]
      BY <1>1, <2>4, FaceAssumption DEF FinishJob, FinishedRows
    <3>2. work'[w].pc = "idle" /\ \A x \in Workers : x # w => work'[x] = work[x]
      BY <2>4, IdlePlace DEF FinishJob
    <3> QED
      BY <3>1, <3>2, WorkElsewhere
  <2> QED
    BY <1>5, <2>1, <2>2, <2>3, <2>4 DEF PhotoJobStep
<1>6. ASSUME NEW w \in Workers, \/ PhotoStepFails(w) \/ PhotoCrash(w) \/ TryLock(w)
                                \/ \E j \in PhotoJobs : ClaimJob(w, j)
      PROVE  Elsewhere
  BY <1>1, <1>6, QueueElsewhere DEF PhotoStepFails, PhotoCrash
<1>7. ASSUME NEW j \in PhotoJobs, LeaseExpires(j) PROVE Elsewhere
  BY <1>1, <1>7, ExpiryElsewhere
<1> QED
  BY <1>3, <1>4, <1>5, <1>6, <1>7 DEF PhotoNext, SessionLost, jobVars

\* The owner and Purge: a person is never touched, a revocation has its job.
LEMMA OwnerPlaces ==
  ASSUME ProfileInv, UploadsInv, FaceInv, RowsKeep, UNCHANGED <<work, persons>>,
         profile'.person = profile.person,
         profile.status = "revoking" => profile'.status = "revoking",
         profile.status # "revoked" => profile'.status # "revoked",
         profile'.status = "revoking" => profile.status = "revoking" \/ profile'.version > profile.version,
         profile'.version >= profile.version, profile'.version \in Nat,
         \A u \in SampleUploads : samples[u].version # 0 => samples'[u] = samples[u],
         profile.status = "revoking" => samples' = samples,
         WorkInv
  PROVE  PlacesInv'
<1>1. profile.version \in Nat /\ \A u \in SampleUploads : u \in UploadIds
  BY FaceAssumption, UploadsAssumption DEF ProfileInv, ProfileRow
<1> SUFFICES ASSUME NEW w \in Workers PROVE PlaceOK(w)'
  BY DEF PlacesInv
<1>2. PlaceOK(w)
  BY DEF FaceInv, PlacesInv
<1> SUFFICES ASSUME NEW v \in Versions, work[w].job \in JobsAbout(v), Knows(w, v) PROVE Knows(w, v)'
  BY <1>2 DEF PlaceOK, AtHome
<1>3. v # 0 /\ (work[w].pc # "idle" => v <= profile.version)
  <2>1. work[w].pc # "idle" => ~(v > profile.version)
    BY DEF FaceInv, FaceRowsInv, WorkInv
  <2> QED
    BY <1>1, <2>1 DEF Versions
<1>4. SamplesOf(v) \subseteq SamplesOf(v)' /\ \A u \in SamplesOf(v) : samples'[u] = samples[u]
  BY <1>3 DEF SamplesOf
<1>5. work[w].pc = "revoke" => samples' = samples /\ profile'.status = "revoking"
  BY DEF Knows
<1>6. /\ profile'.version = profile.version \/ profile'.version > profile.version
      /\ work[w].pc # "idle" /\ profile'.version > profile.version => profile'.version # v
  BY <1>1, <1>3
<1> QED
  BY <1>1, <1>4, <1>5, <1>6 DEF Knows, NoneBefore, RowsKeep

\* A new job for the version that begins.
LEMMA NewRow ==
  ASSUME ProfileInv, FaceInv, WorkInv, profile.version < MaxVersion,
         NEW j \in JobsAbout(profile.version + 1), Queue(j)
  PROVE  /\ profile.version + 1 \in Versions
         /\ jobs'[j].status = "queued" /\ \A i \in JobIds : i # j => jobs'[i] = jobs[i]
<1>1. profile.version + 1 \in Versions
  BY FaceAssumption DEF ProfileInv, ProfileRow, Versions
<1>2. j \in JobIds /\ jobs[j].status = "none"
  <2>1. profile.version + 1 > profile.version
    BY FaceAssumption DEF ProfileInv, ProfileRow
  <2> QED
    BY <1>1, <2>1, AboutFace DEF FaceInv, FaceRowsInv
<1>3. NewJob.status = "queued"
  BY DEF NewJob, NoJob
<1> QED
  BY <1>1, <1>2, <1>3 DEF Queue, Queued, WorkInv

\* Old jobs stay, so what they account for stays accounted for.
LEMMA SameRows ==
  ASSUME ProfileInv, FaceInv, UNCHANGED <<persons, abandoned>>, profile'.person = profile.person,
         profile.status # "revoking",
         \A v \in Versions : v <= profile.version =>
            \A i \in JobsAbout(v) : jobs'[i] = jobs[i]
  PROVE  FacesAccounted'
<1> SUFFICES ASSUME NEW v \in persons PROVE Accounted(v)' \/ LeftByRetry(v)'
  BY DEF FacesAccounted
<1>1. v \in Versions /\ v <= profile.version
  BY VersionsUsed DEF FaceInv, SamplesInv
<1>2. \A n \in Versions : n = v \/ n = profile.person =>
        jobs'[<<"enroll", n>>] = jobs[<<"enroll", n>>] /\ jobs'[<<"cleanup", n>>] = jobs[<<"cleanup", n>>]
  BY <1>1 DEF JobsAbout, FaceInv, SamplesInv
<1>3. Accounted(v) \/ LeftByRetry(v)
  BY DEF FaceInv, FacesAccounted
<1>4. \A n \in abandoned : n \in Versions
  BY DEF ProfileInv
<1> QED
  BY <1>1, <1>2, <1>3, <1>4 DEF Accounted, LeftByRetry, Unfinished

LEMMA EnrollFace ==
  ASSUME ProfileInv, ProfileInv', UploadsInv, WorkInv, FaceInv, RowsKeep, NEW U \in SampleSets, Enroll(U)
  PROVE  FaceInv'
<1>1. U \in SUBSET SampleUploads /\ U # {} /\ \A u \in SampleUploads : u \in UploadIds
  BY FaceAssumption, UploadsAssumption
<1>0. PICK v \in Versions : v = profile.version + 1
  BY NewRow DEF Enroll, JobsAbout
<1> DEFINE new == [version |-> v, status |-> "pending"]
<1>2. v \in Versions /\ profile.version \in 0..MaxVersion /\ profile.person \in 0..MaxVersion
  BY FaceAssumption DEF ProfileInv, ProfileRow
<1>3. /\ profile'.version = v /\ profile'.person = profile.person
      /\ profile'.status \in {"active", "pending"} /\ profile.status # "revoking"
      /\ profile'.status = "active" <=> profile.status = "active"
  BY <1>0 DEF Enroll, ProfileInv, ProfileRow
<1>4. \A u \in U : samples[u].version = 0
  BY <1>1 DEF Enroll, Bindable, FaceInv, SamplesInv
<1>5. /\ \A u \in U : samples'[u].version = v /\ samples'[u].status = "pending"
      /\ \A u \in SampleUploads : u \notin U => samples'[u] = samples[u]
      /\ samples' \in [SampleUploads -> SampleRow]
  <2>1. new \in SampleRow /\ new.version = v /\ new.status = "pending"
    BY <1>2 DEF SampleRow, Versions
  <2>2. samples' = [u \in SampleUploads |-> IF u \in U THEN new ELSE samples[u]]
    BY <1>0 DEF Enroll
  <2> HIDE DEF new
  <2> QED
    BY <1>1, <2>1, <2>2 DEF FaceInv, SamplesInv
<1>6. \A u \in SampleUploads : samples'[u].version # 0 => uploads'[u].bound
  <2>1. \A u \in U : uploads'[u].bound
    <3> SUFFICES ASSUME NEW u \in U PROVE uploads'[u].bound
      OBVIOUS
    <3>1. uploads[u] \in UploadRow
      BY <1>1 DEF UploadsInv, UploadsTypeOK
    <3>2. uploads'[u] = [uploads[u] EXCEPT !.bound = uploads[u].bound \/ u \in U]
      BY <1>1 DEF Enroll, Bound
    <3>3. uploads'[u].bound = (uploads[u].bound \/ u \in U)
      BY <3>1, <3>2 DEF UploadRow
    <3> QED
      BY <3>3
  <2> QED
    BY <1>1, <1>5, <2>1 DEF FaceInv, SamplesInv, RowsKeep
<1>7. /\ jobs'[<<"enroll", v>>].status = "queued" /\ UNCHANGED <<work, persons, abandoned>>
      /\ \A i \in JobIds : i # <<"enroll", v>> => jobs'[i] = jobs[i]
  BY <1>0, NewRow DEF Enroll, JobsAbout
<1>8. \A x \in Versions : x # v => SamplesOf(x) \subseteq SamplesOf(x)'
  BY <1>1, <1>4, <1>5 DEF SamplesOf, Versions
<1> HIDE DEF new
<1>9. SamplesInv'
  <2>1. \A u \in SampleUploads : u \notin U => samples'[u].version < v
    BY <1>0, <1>2, <1>5 DEF FaceInv, SamplesInv, SampleRow
  <2>2. \A x \in persons : \E u \in SamplesOf(x)' : samples'[u].status # "deleted"
    <3> SUFFICES ASSUME NEW x \in persons PROVE \E u \in SamplesOf(x)' : samples'[u].status # "deleted"
      OBVIOUS
    <3>1. x \in Versions /\ x <= profile.version
      BY VersionsUsed DEF FaceInv, SamplesInv
    <3>2. PICK u \in SamplesOf(x) : samples[u].status # "deleted"
      BY DEF FaceInv, SamplesInv
    <3>3. u \notin U
      BY <1>4, <3>1, <3>2 DEF SamplesOf, Versions
    <3> QED
      BY <1>5, <3>2, <3>3 DEF SamplesOf
  <2>3. profile'.person <= profile'.version
    BY <1>0, <1>2, <1>3 DEF FaceInv, SamplesInv, Versions
  <2>4. ASSUME NEW u \in SampleUploads
        PROVE  /\ samples'[u].version <= profile'.version
               /\ samples'[u].version # 0 /\ samples'[u].version = profile'.version =>
                    profile'.status \notin {"revoking", "revoked"} /\ samples'[u].status # "deleted"
    <3>1. CASE u \in U
      BY <1>2, <1>3, <1>5, <3>1 DEF Versions
    <3>2. CASE u \notin U
      <4>1. samples'[u].version \in Nat /\ samples'[u].version < v
        BY <1>5, <2>1, <3>2, FaceAssumption DEF SampleRow
      <4> QED
        BY <1>2, <1>3, <4>1 DEF Versions
    <3> QED
      BY <3>1, <3>2
  <2>5. profile'.person # 0 => profile'.status \in {"active", "revoking"}
    BY <1>3 DEF FaceInv, SamplesInv
  <2> QED
    BY <1>5, <1>6, <1>7, <2>2, <2>3, <2>4, <2>5 DEF FaceInv, SamplesInv
<1>10. FaceRowsInv'
  <2> SUFFICES ASSUME NEW x \in Versions
               PROVE  /\ x > profile'.version => \A j \in JobsAbout(x) : jobs'[j].status = "none"
                      /\ jobs'[<<"enroll", x>>].status # "none" => SamplesOf(x)' # {}
                      /\ jobs'[<<"cleanup", x>>].status # "failed"
    BY DEF FaceRowsInv, JobsAbout
  <2>1. \A j \in JobsAbout(x) : j \in JobIds
    BY AboutFace
  <2>2. CASE x = v
    <3>1. SamplesOf(v)' # {}
      <4>1. PICK u \in U : u \in SampleUploads /\ samples'[u].version = v
        BY <1>1, <1>5
      <4> QED
        BY <4>1 DEF SamplesOf
    <3>2. ~(x > profile'.version)
      BY <1>0, <1>2, <1>3, <2>2 DEF Versions
    <3> QED
      BY <1>7, <2>1, <2>2, <3>1, <3>2 DEF FaceInv, FaceRowsInv, JobsAbout
  <2>3. CASE x # v
    <3>1. x > profile'.version => x > profile.version
      BY <1>0, <1>2, <1>3 DEF Versions
    <3> QED
      BY <1>7, <1>8, <2>1, <2>3, <3>1 DEF FaceInv, FaceRowsInv, JobsAbout
  <2> QED
    BY <2>2, <2>3
<1>11. PlacesInv'
  <2>1. \A u \in SampleUploads : samples[u].version # 0 => samples'[u] = samples[u]
    BY <1>4, <1>5
  <2>2. profile'.version >= profile.version /\ profile'.version \in Nat
    BY <1>0, <1>2, <1>3 DEF Versions
  <2> QED
    BY <1>3, <1>7, <2>1, <2>2, OwnerPlaces
<1>12. FacesAccounted'
  <2>1. ASSUME NEW x \in Versions, x <= profile.version, NEW i \in JobsAbout(x) PROVE jobs'[i] = jobs[i]
    <3>1. x # v /\ i \in JobIds
      BY <1>0, <1>2, <2>1, AboutFace DEF Versions
    <3> QED
      BY <1>7, <3>1 DEF JobsAbout
  <2> QED
    BY <1>3, <1>7, <2>1, SameRows
<1>13. ErasedInv' /\ ActivePersonExists'
  BY <1>3, <1>7 DEF FaceInv, ErasedInv, ActivePersonExists
<1> QED
  BY <1>9, <1>10, <1>11, <1>12, <1>13 DEF FaceInv
LEMMA RevokedFace ==
  ASSUME ProfileInv, ProfileInv', UploadsInv, WorkInv, FaceInv, RowsKeep, Revoked,
         profile.version < MaxVersion, UNCHANGED <<work, samples, persons, abandoned>>
  PROVE  FaceInv'
<1>0. PICK v \in Versions : v = profile.version + 1
  BY NewRow DEF Revoked, JobsAbout
<1>1. \A u \in SampleUploads : u \in UploadIds
  BY UploadsAssumption
<1>2. v \in Nat /\ v # 0 /\ profile.version \in Nat
  BY FaceAssumption DEF Versions, ProfileInv, ProfileRow
<1>3. profile'.version = v /\ profile'.person = profile.person /\ profile'.status = "revoking"
  BY <1>0 DEF Revoked, ProfileInv, ProfileRow
<1>4. /\ jobs'[<<"revoke", v>>].status = "queued"
      /\ \A i \in JobIds : i # <<"revoke", v>> => jobs'[i] = jobs[i]
  BY <1>0, NewRow DEF Revoked, JobsAbout
<1>5. \A x : SamplesOf(x)' = SamplesOf(x)
  BY DEF SamplesOf
<1>6. SamplesInv'
  <2>1. \A u \in SampleUploads : samples'[u].version <= v /\ samples'[u].version # v
    <3> SUFFICES ASSUME NEW u \in SampleUploads PROVE samples'[u].version <= v /\ samples'[u].version # v
      OBVIOUS
    <3>1. samples[u].version \in Nat /\ samples[u].version <= profile.version
      BY FaceAssumption DEF FaceInv, SamplesInv, SampleRow
    <3> QED
      BY <1>0, <1>2, <3>1
  <2>2. profile'.person <= v
    <3>1. profile.person \in Nat /\ profile.person <= profile.version
      BY FaceAssumption DEF FaceInv, SamplesInv, ProfileInv, ProfileRow
    <3> QED
      BY <1>0, <1>2, <1>3, <3>1
  <2> QED
    BY <1>1, <1>3, <1>5, <2>1, <2>2 DEF FaceInv, SamplesInv, RowsKeep
<1>7. FaceRowsInv'
  <2> SUFFICES ASSUME NEW x \in Versions
               PROVE  /\ x > profile'.version => \A j \in JobsAbout(x) : jobs'[j].status = "none"
                      /\ jobs'[<<"enroll", x>>].status # "none" => SamplesOf(x)' # {}
                      /\ jobs'[<<"cleanup", x>>].status # "failed"
    BY DEF FaceRowsInv, JobsAbout
  <2>1. \A j \in JobsAbout(x) : j \in JobIds
    BY AboutFace
  <2>2. x > profile'.version => x # v /\ x > profile.version
    BY <1>0, <1>2, <1>3 DEF Versions
  <2>3. /\ <<"enroll", x>> # <<"revoke", v>> /\ <<"cleanup", x>> # <<"revoke", v>>
        /\ <<"revoke", x>> = <<"revoke", v>> => x = v
    OBVIOUS
  <2> QED
    BY <1>4, <1>5, <2>1, <2>2, <2>3 DEF FaceInv, FaceRowsInv, JobsAbout
<1>8. PlacesInv'
  <2>1. profile'.version > profile.version /\ profile'.version >= profile.version /\ profile'.version \in Nat
    BY <1>0, <1>2, <1>3
  <2> QED
    BY <1>3, <2>1, OwnerPlaces
<1>9. FacesAccounted'
  BY <1>3, <1>4 DEF FacesAccounted, Accounted, Unfinished
<1>10. ErasedInv' /\ ActivePersonExists'
  BY <1>3 DEF ErasedInv, ActivePersonExists
<1> QED
  BY <1>6, <1>7, <1>8, <1>9, <1>10 DEF FaceInv

LEMMA RetryFace ==
  ASSUME ProfileInv, UploadsInv, WorkInv, FaceInv, RowsKeep, NEW n \in Versions, RetryEnroll(n)
  PROVE  FaceInv'
<1>1. UNCHANGED <<work, profile, samples, persons, abandoned>> /\ \A u \in SampleUploads : u \in UploadIds
  BY UploadsAssumption DEF RetryEnroll, faceVars
<1>2. <<"enroll", n>> \in JobIds /\ jobs[<<"enroll", n>>].status = "failed"
  BY FaceAssumption DEF RetryEnroll, FaceJobs
<1>3. /\ jobs'[<<"enroll", n>>].status = "queued"
      /\ \A i \in JobIds : i # <<"enroll", n>> => jobs'[i] = jobs[i]
  BY <1>2 DEF RetryEnroll, Retried, WorkInv, Row
<1>4. \A x : SamplesOf(x)' = SamplesOf(x)
  BY <1>1 DEF SamplesOf
<1>5. SamplesInv' /\ ErasedInv' /\ ActivePersonExists'
  BY <1>1, <1>4 DEF FaceInv, SamplesInv, ErasedInv, ActivePersonExists, RowsKeep
<1>6. FaceRowsInv'
  <2> SUFFICES ASSUME NEW x \in Versions
               PROVE  /\ x > profile'.version => \A j \in JobsAbout(x) : jobs'[j].status = "none"
                      /\ jobs'[<<"enroll", x>>].status # "none" => SamplesOf(x)' # {}
                      /\ jobs'[<<"cleanup", x>>].status # "failed"
    BY DEF FaceRowsInv, JobsAbout
  <2>1. \A j \in JobsAbout(x) : j \in JobIds
    BY AboutFace
  <2>2. ~(n > profile.version) /\ SamplesOf(n) # {}
    BY <1>2 DEF FaceInv, FaceRowsInv, JobsAbout
  <2> QED
    BY <1>1, <1>2, <1>3, <1>4, <2>1, <2>2 DEF FaceInv, FaceRowsInv, JobsAbout
<1>7. PlacesInv'
  BY <1>1, <1>4 DEF FaceInv, PlacesInv, PlaceOK, AtHome, Knows, NoneBefore, RowsKeep
<1>8. FacesAccounted'
  <2> SUFFICES ASSUME NEW v \in persons PROVE Accounted(v)' \/ LeftByRetry(v)'
    BY <1>1 DEF FacesAccounted
  <2>1. Accounted(v) \/ LeftByRetry(v)
    BY DEF FaceInv, FacesAccounted
  <2>2. v \in Versions /\ <<"revoke", profile.version>> \in JobIds
    BY VersionsUsed, FaceAssumption DEF FaceInv, SamplesInv
  <2>3. \A x \in Versions : <<"enroll", x>> \in JobIds /\ <<"cleanup", x>> \in JobIds
    BY AboutFace DEF JobsAbout
  <2>4. Unfinished(<<"enroll", n>>)'
    BY <1>3 DEF Unfinished
  <2>5. CASE Accounted(v)
    <3>1. \A j \in JobIds : Unfinished(j) => Unfinished(j)'
      BY <1>3, <2>4 DEF Unfinished
    <3> QED
      BY <1>1, <2>2, <2>3, <2>5, <3>1 DEF Accounted
  <2>6. CASE LeftByRetry(v)
    <3>1. PICK x \in abandoned : /\ x = v \/ (x > v /\ x = profile.person)
                                 /\ jobs[<<"enroll", x>>].status = "failed"
      BY <2>6 DEF LeftByRetry
    <3>0. x \in Versions
      BY <3>1 DEF ProfileInv
    <3>2. CASE x = n
      BY <1>1, <2>4, <3>0, <3>1, <3>2 DEF Accounted
    <3>3. CASE x # n
      BY <1>1, <1>3, <2>3, <3>0, <3>1, <3>3 DEF LeftByRetry
    <3> QED
      BY <3>2, <3>3
  <2> QED
    BY <2>1, <2>5, <2>6
<1> QED
  BY <1>5, <1>6, <1>7, <1>8 DEF FaceInv

LEMMA OwnerFace ==
  ASSUME ProfileInv, ProfileInv', UploadsInv, WorkInv, FaceInv, RowsKeep, OwnerOrPurge
  PROVE  FaceInv'
<1>1. ASSUME NEW U \in SampleSets, Enroll(U) PROVE FaceInv'
  BY <1>1, EnrollFace
<1>2. CASE Revoke
  BY <1>2, RevokedFace DEF Revoke
<1>3. ASSUME NEW n \in Versions, RetryEnroll(n) PROVE FaceInv'
  BY <1>3, RetryFace
<1>4. ASSUME UNCHANGED <<jobs, work, samples, persons, abandoned>>, profile'.status = profile.status,
             profile'.person = profile.person, profile'.version = profile.version
      PROVE  FaceInv'
  BY <1>4, RowsElsewhere, FaceKept
<1>5. CASE ConsentExpires \/ PurgeReads
  BY <1>4, <1>5 DEF ConsentExpires, PurgeReads, jobVars, ProfileInv, ProfileRow
<1>6. CASE PurgeRevokes
  <2>1. CASE profile.revision = expiring
    BY <1>6, <2>1, RevokedFace DEF PurgeRevokes, ProfileInv
  <2>2. CASE profile.revision # expiring
    BY <1>4, <1>6, <2>2 DEF PurgeRevokes
  <2> QED
    BY <2>1, <2>2
<1> QED
  BY <1>1, <1>2, <1>3, <1>5, <1>6 DEF OwnerOrPurge

\* Where worker w is after a step of its handler.
LEMMA StepRow ==
  ASSUME WorkInv, NEW w \in Workers, NEW pc, NEW L, NEW verdict
  PROVE  /\ Goto(w, pc) => /\ work'[w].pc = pc /\ work'[w].job = work[w].job
                           /\ \A x \in Workers : x # w => work'[x] = work[x]
         /\ GotoWith(w, pc, L) => /\ work'[w].pc = pc /\ work'[w].job = work[w].job
                                  /\ work'[w].left = L
                                  /\ \A x \in Workers : x # w => work'[x] = work[x]
         /\ Return(w, verdict) => /\ work'[w].pc = "finish" /\ work'[w].job = work[w].job
                                  /\ work'[w].verdict = verdict
                                  /\ \A x \in Workers : x # w => work'[x] = work[x]
         /\ work' = [work EXCEPT ![w].left = L] =>
              /\ work'[w].pc = work[w].pc /\ work'[w].job = work[w].job /\ work'[w].left = L
              /\ \A x \in Workers : x # w => work'[x] = work[x]
BY DEF Goto, GotoWith, Return, WorkInv, Place

\* A job of the profile at work has the profile to itself.
LEMMA Alone ==
  ASSUME WorkInv, LeaseInv, FaceInv, NEW w \in Workers, Running(w), work[w].job \in FaceJobs,
         \A x \in Workers : x # w => work'[x] = work[x], PlaceOK(w)'
  PROVE  PlacesInv'
<1> SUFFICES ASSUME NEW x \in Workers, x # w PROVE PlaceOK(x)'
  BY DEF PlacesInv
<1>1. PlaceOK(x) /\ work'[x] = work[x]
  BY DEF FaceInv, PlacesInv
<1>2. Running(x) => work[x].job \notin FaceJobs
  BY OneAtWork
<1> QED
  BY <1>1, <1>2, AboutFace DEF PlaceOK, AtHome, Knows, Running

\* The job of worker w is about version v, and about no other.
LEMMA PlaceFor ==
  ASSUME NEW w \in Workers, NEW v \in Versions, work'[w].job \in JobsAbout(v), AtHome(w)', Knows(w, v)'
  PROVE  PlaceOK(w)'
BY AboutFace DEF PlaceOK

\* Everything but the workers, while a handler runs that leaves the jobs alone.
LEMMA HandlerFace ==
  ASSUME WorkInv, LeaseInv, FaceInv, NEW w \in Workers, Running(w),
         NEW v \in Versions, work[w].job \in JobsAbout(v), UNCHANGED jobs,
         \A x \in Workers : x # w => work'[x] = work[x], work'[w].job = work[w].job,
         AtHome(w)', Knows(w, v)',
         profile'.version = profile.version, \A u \in SampleUploads : samples'[u].version = samples[u].version,
         SamplesInv', ErasedInv', ActivePersonExists', FacesAccounted'
  PROVE  FaceInv'
<1>1. FaceRowsInv'
  <2>1. \A x \in Versions : SamplesOf(x)' = SamplesOf(x)
    BY DEF SamplesOf
  <2> QED
    BY <2>1 DEF FaceInv, FaceRowsInv, JobsAbout
<1>2. PlacesInv'
  BY Alone, PlaceFor, AboutFace
<1> QED
  BY <1>1, <1>2 DEF FaceInv

\* One that only writes down where it is.
LEMMA OnlyWork ==
  ASSUME WorkInv, LeaseInv, FaceInv, RowsKeep, NEW w \in Workers, Running(w),
         NEW v \in Versions, work[w].job \in JobsAbout(v), UNCHANGED <<jobs, profile, samples, persons, abandoned>>,
         \A x \in Workers : x # w => work'[x] = work[x], work'[w].job = work[w].job,
         AtHome(w)', Knows(w, v)'
  PROVE  FaceInv'
<1>1. \A u \in SampleUploads : u \in UploadIds
  BY UploadsAssumption
<1>2. \A x : SamplesOf(x)' = SamplesOf(x)
  BY DEF SamplesOf
<1>3. SamplesInv' /\ ErasedInv' /\ ActivePersonExists'
  BY <1>1, <1>2 DEF FaceInv, SamplesInv, ErasedInv, ActivePersonExists, RowsKeep
<1>4. FacesAccounted'
  BY DEF FaceInv, FacesAccounted, Accounted, LeftByRetry, Unfinished
<1> QED
  BY <1>3, <1>4, HandlerFace

\* One that has the provider delete a person, or create the one it enrols.
LEMMA OnlyPersons ==
  ASSUME WorkInv, LeaseInv, FaceInv, RowsKeep, NEW w \in Workers, Running(w),
         NEW v \in Versions, work[w].job \in JobsAbout(v), UNCHANGED <<jobs, profile, samples, abandoned>>,
         \A x \in Workers : x # w => work'[x] = work[x], work'[w].job = work[w].job,
         AtHome(w)', Knows(w, v)', persons' \subseteq persons \cup {v},
         v \in persons' /\ v \notin persons =>
           /\ profile.status # "revoked" /\ work[w].job = <<"enroll", v>>
           /\ \E u \in SamplesOf(v) : samples[u].status # "deleted",
         profile.status = "active" => profile.person \in persons'
  PROVE  FaceInv'
<1>1. \A u \in SampleUploads : u \in UploadIds
  BY UploadsAssumption
<1>2. \A x : SamplesOf(x)' = SamplesOf(x)
  BY DEF SamplesOf
<1>3. SamplesInv' /\ ErasedInv' /\ ActivePersonExists'
  BY <1>1, <1>2 DEF FaceInv, SamplesInv, ErasedInv, ActivePersonExists, RowsKeep
<1>4. FacesAccounted'
  <2> SUFFICES ASSUME NEW x \in persons' PROVE Accounted(x)' \/ LeftByRetry(x)'
    BY DEF FacesAccounted
  <2>1. CASE x \in persons
    BY <2>1 DEF FaceInv, FacesAccounted, Accounted, LeftByRetry, Unfinished
  <2>2. CASE x \notin persons
    BY <2>2 DEF LeaseInv, Running, Accounted, Unfinished
  <2> QED
    BY <2>1, <2>2
<1> QED
  BY <1>3, <1>4, HandlerFace

\* What a cleanup has left to do names every older person.
LEMMA CleanupLeft ==
  ASSUME WorkInv, NEW w \in Workers, NEW v \in Versions, NEW S \in [SampleUploads -> SampleRow],
         StartCleanup(w, v, S),
         \A x \in persons : \E u \in SampleUploads : S[u].version = x /\ S[u].status # "deleted",
         persons \subseteq Versions
  PROVE  /\ work'[w].pc = "clean" /\ work'[w].job = work[w].job
         /\ \A x \in Workers : x # w => work'[x] = work[x]
         /\ \A x \in Versions : <<"person", x>> \in work'[w].left => x < v
         /\ \A x \in persons : x >= v \/ <<"person", x>> \in work'[w].left
<1> DEFINE L == {<<"person", S[u].version>> :
                   u \in {t \in SampleUploads : /\ S[t].version \in 1..(v - 1)
                                                /\ S[t].status # "deleted"}}
<1>1. \A x \in Versions : <<"person", x>> \in L => x < v
  <2> SUFFICES ASSUME NEW x \in Versions, <<"person", x>> \in L PROVE x < v
    OBVIOUS
  <2>1. PICK u \in SampleUploads : S[u].version \in 1..(v - 1) /\ <<"person", x>> = <<"person", S[u].version>>
    OBVIOUS
  <2>2. x = S[u].version
    BY <2>1
  <2> QED
    BY <2>1, <2>2, FaceAssumption DEF Versions
<1>2. \A x \in persons : x >= v \/ <<"person", x>> \in L
  <2> SUFFICES ASSUME NEW x \in persons, ~(x >= v) PROVE <<"person", x>> \in L
    OBVIOUS
  <2>1. PICK u \in SampleUploads : S[u].version = x /\ S[u].status # "deleted"
    OBVIOUS
  <2>2. x \in 1..(v - 1)
    BY FaceAssumption DEF Versions
  <2> QED
    BY <2>1, <2>2
<1>3. GotoWith(w, "clean", L)
  BY DEF StartCleanup
<1> HIDE DEF L
<1> QED
  BY <1>1, <1>2, <1>3, StepRow

\* The enrolment.
LEMMA EnrollStartFace ==
  ASSUME ProfileInv, UploadsInv, WorkInv, LeaseInv, FaceInv, RowsKeep,
         NEW w \in Workers, NEW v \in Versions, EnrollStart(w, v)
  PROVE  FaceInv'
<1>1. /\ Running(w) /\ work[w].job = <<"enroll", v>> /\ work[w].job \in JobsAbout(v)
      /\ work[w].job \in {"enroll"} \X Versions
      /\ UNCHANGED <<jobs, profile, samples, persons, abandoned>>
  BY DEF EnrollStart, AtStep, Running, JobsAbout, faceVars
<1>2. samples \in [SampleUploads -> SampleRow] /\ persons \subseteq Versions
  BY DEF FaceInv, SamplesInv
<1>3. ASSUME StartCleanup(w, v, samples), profile.person = v PROVE FaceInv'
  <2>1. \A x \in persons : \E u \in SampleUploads : samples[u].version = x /\ samples[u].status # "deleted"
    BY DEF FaceInv, SamplesInv, SamplesOf
  <2>2. /\ work'[w].pc = "clean" /\ work'[w].job = work[w].job
        /\ \A x \in Workers : x # w => work'[x] = work[x]
        /\ \A x \in Versions : <<"person", x>> \in work'[w].left => x < v
        /\ \A x \in persons : x >= v \/ <<"person", x>> \in work'[w].left
    BY <1>2, <1>3, <2>1, CleanupLeft
  <2>3. AtHome(w)' /\ Knows(w, v)'
    BY <1>1, <1>3, <2>2 DEF AtHome, Knows
  <2> QED
    BY <1>1, <2>2, <2>3, OnlyWork
<1>4. CASE profile.person # v /\ Goto(w, "discard")
  <2>1. /\ work'[w].pc = "discard" /\ work'[w].job = work[w].job
        /\ \A x \in Workers : x # w => work'[x] = work[x]
    BY <1>4, StepRow
  <2>2. AtHome(w)' /\ Knows(w, v)'
    BY <1>1, <1>4, <2>1 DEF AtHome, Knows
  <2> QED
    BY <1>1, <2>1, <2>2, OnlyWork
<1>5. CASE ~Superseded(v) /\ ~(profile.person = v /\ profile.status = "active") /\ Goto(w, "enroll")
  <2>1. /\ work'[w].pc = "enroll" /\ work'[w].job = work[w].job
        /\ \A x \in Workers : x # w => work'[x] = work[x]
    BY <1>5, StepRow
  <2>2. profile.version = v /\ profile.status \notin {"revoking", "revoked"} /\ v # 0
    BY <1>5 DEF Superseded, Versions
  <2>3. profile.person # v
    BY <1>5, <2>2 DEF FaceInv, SamplesInv
  <2>4. \E u \in SamplesOf(v) : samples[u].status # "deleted"
    <3>1. jobs[<<"enroll", v>>].status # "none"
      BY <1>1 DEF WorkInv, Running
    <3>2. PICK u \in SampleUploads : samples[u].version = v
      BY <3>1 DEF FaceInv, FaceRowsInv, SamplesOf
    <3> QED
      BY <2>2, <3>2 DEF FaceInv, SamplesInv, SamplesOf
  <2>5. AtHome(w)' /\ Knows(w, v)'
    BY <1>1, <2>1, <2>2, <2>3, <2>4 DEF AtHome, Knows, SamplesOf
  <2> QED
    BY <1>1, <2>1, <2>5, OnlyWork
<1> QED
  BY <1>3, <1>4, <1>5 DEF EnrollStart

LEMMA EnrollPersonFace ==
  ASSUME ProfileInv, UploadsInv, WorkInv, LeaseInv, FaceInv, RowsKeep,
         NEW w \in Workers, NEW v \in Versions, EnrollPerson(w, v)
  PROVE  FaceInv'
<1>1. /\ Running(w) /\ work[w].job = <<"enroll", v>> /\ work[w].job \in JobsAbout(v)
      /\ work[w].job \in {"enroll"} \X Versions
      /\ UNCHANGED <<jobs, profile, samples, abandoned>>
  BY DEF EnrollPerson, AtStep, Running, JobsAbout
<1>2. /\ profile.person # v /\ profile.status # "revoked"
      /\ \E u \in SamplesOf(v) : samples[u].status # "deleted"
  BY <1>1 DEF EnrollPerson, AtStep, FaceInv, PlacesInv, PlaceOK, Knows
<1>3. profile.status = "active" => profile.person \in persons
  BY DEF FaceInv, ActivePersonExists
<1>4. CASE persons' = persons \cup {v} /\ Goto(w, "activate")
  <2>1. /\ work'[w].pc = "activate" /\ work'[w].job = work[w].job
        /\ \A x \in Workers : x # w => work'[x] = work[x]
    BY <1>4, StepRow
  <2>2. AtHome(w)' /\ Knows(w, v)'
    BY <1>1, <1>2, <1>4, <2>1 DEF AtHome, Knows
  <2> QED
    BY <1>1, <1>2, <1>3, <1>4, <2>1, <2>2, OnlyPersons
<1>5. CASE persons' \in {persons, persons \ {v}, persons \cup {v}} /\ Return(w, "retry")
  <2>1. /\ work'[w].pc = "finish" /\ work'[w].job = work[w].job /\ work'[w].verdict = "retry"
        /\ \A x \in Workers : x # w => work'[x] = work[x]
    BY <1>5, StepRow
  <2>2. AtHome(w)' /\ Knows(w, v)'
    BY <2>1 DEF AtHome, Knows
  <2>3. persons' \subseteq persons \cup {v} /\ (profile.status = "active" => profile.person \in persons')
    BY <1>2, <1>3, <1>5
  <2> QED
    BY <1>1, <1>2, <2>1, <2>2, <2>3, OnlyPersons
<1> QED
  BY <1>4, <1>5 DEF EnrollPerson

LEMMA ActivateFace ==
  ASSUME ProfileInv, ProfileInv', UploadsInv, WorkInv, LeaseInv, FaceInv, RowsKeep,
         NEW w \in Workers, NEW v \in Versions, Activate(w, v)
  PROVE  FaceInv'
<1>1. /\ Running(w) /\ work[w].job = <<"enroll", v>> /\ work[w].job \in JobsAbout(v)
      /\ work[w].job \in {"enroll"} \X Versions
      /\ UNCHANGED <<jobs, persons, abandoned>>
  BY DEF Activate, AtStep, Running, JobsAbout
<1>2. profile.person # v /\ v \in persons
  BY <1>1 DEF Activate, AtStep, FaceInv, PlacesInv, PlaceOK, Knows
<1>3. CASE Goto(w, "discard") /\ UNCHANGED <<profile, samples>>
  <2>1. /\ work'[w].pc = "discard" /\ work'[w].job = work[w].job
        /\ \A x \in Workers : x # w => work'[x] = work[x]
    BY <1>3, StepRow
  <2>2. AtHome(w)' /\ Knows(w, v)'
    BY <1>1, <1>2, <1>3, <2>1 DEF AtHome, Knows
  <2> QED
    BY <1>1, <1>3, <2>1, <2>2, OnlyWork
<1>4. CASE ~Superseded(v)
  <2>1. /\ profile.version = v /\ profile'.status = "active" /\ profile'.person = v
        /\ profile'.version = v /\ v # 0 /\ v \in Nat
    BY <1>4, FaceAssumption DEF Activate, Activated, Superseded, Versions
  <2>2. /\ samples' \in [SampleUploads -> SampleRow]
        /\ \A u \in SampleUploads : /\ samples'[u].version = samples[u].version
                                    /\ samples[u].version # 0 => samples'[u].status # "deleted"
    <3>1. samples \in [SampleUploads -> SampleRow]
      BY DEF FaceInv, SamplesInv
    <3>2. samples' = [u \in SampleUploads |->
                       [samples[u] EXCEPT !.status = IF samples[u].version = 0 THEN "none"
                          ELSE IF samples[u].version = v THEN "active" ELSE "deleting"]]
      BY <1>4 DEF Activate
    <3>3. ASSUME NEW s \in SampleRow, NEW t \in {"none", "active", "deleting"}
          PROVE  /\ [s EXCEPT !.status = t] \in SampleRow /\ [s EXCEPT !.status = t].version = s.version
                 /\ [s EXCEPT !.status = t].status = t
      BY DEF SampleRow
    <3> DEFINE t(u) == IF samples[u].version = 0 THEN "none"
                       ELSE IF samples[u].version = v THEN "active" ELSE "deleting"
    <3>4. \A u : t(u) \in {"none", "active", "deleting"} /\ t(u) # "deleted"
      OBVIOUS
    <3>5. samples' = [u \in SampleUploads |-> [samples[u] EXCEPT !.status = t(u)]]
      BY <3>2
    <3> HIDE DEF t
    <3>6. ASSUME NEW u \in SampleUploads
          PROVE  /\ samples'[u] \in SampleRow /\ samples'[u].version = samples[u].version
                 /\ samples'[u].status # "deleted"
      <4>1. samples'[u] = [samples[u] EXCEPT !.status = t(u)] /\ samples[u] \in SampleRow
        BY <3>1, <3>5
      <4>2. PICK status \in {"none", "active", "deleting"} : status = t(u)
        BY <3>4
      <4>3. PICK s \in SampleRow : s = samples[u]
        BY <4>1
      <4>4. samples'[u] = [s EXCEPT !.status = status]
        BY <4>1, <4>2, <4>3
      <4>5. /\ [s EXCEPT !.status = status] \in SampleRow
            /\ [s EXCEPT !.status = status].version = s.version
            /\ [s EXCEPT !.status = status].status = status
        BY <3>3
      <4> QED
        BY <4>2, <4>3, <4>4, <4>5
    <3> QED
      BY <3>5, <3>6
  <2>3. \A x \in persons : \E u \in SampleUploads : samples'[u].version = x /\ samples'[u].status # "deleted"
    <3> SUFFICES ASSUME NEW x \in persons
                 PROVE  \E u \in SampleUploads : samples'[u].version = x /\ samples'[u].status # "deleted"
      OBVIOUS
    <3>1. PICK u \in SampleUploads : samples[u].version = x /\ x # 0
      BY DEF FaceInv, SamplesInv, SamplesOf, Versions
    <3> QED
      BY <2>2, <3>1
  <2>4. PICK T : T = samples'
    OBVIOUS
  <2>5. StartCleanup(w, v, T)
    BY <1>4, <2>4 DEF Activate, StartCleanup
  <2>6. /\ work'[w].pc = "clean" /\ work'[w].job = work[w].job
        /\ \A x \in Workers : x # w => work'[x] = work[x]
        /\ \A x \in Versions : <<"person", x>> \in work'[w].left => x < v
        /\ \A x \in persons : x >= v \/ <<"person", x>> \in work'[w].left
    BY <2>2, <2>3, <2>4, <2>5, CleanupLeft DEF FaceInv, SamplesInv
  <2>7. AtHome(w)' /\ Knows(w, v)'
    BY <1>1, <2>1, <2>6 DEF AtHome, Knows
  <2>8. SamplesInv'
    <3>1. \A u \in SampleUploads : u \in UploadIds
      BY UploadsAssumption
    <3>2. \A x \in persons : \E u \in SamplesOf(x)' : samples'[u].status # "deleted"
      BY <2>3 DEF SamplesOf
    <3> QED
      BY <1>1, <2>1, <2>2, <3>1, <3>2 DEF FaceInv, SamplesInv, RowsKeep
  <2>9. ErasedInv' /\ ActivePersonExists'
    BY <1>1, <1>2, <2>1 DEF ErasedInv, ActivePersonExists
  <2>10. FacesAccounted'
    <3> SUFFICES ASSUME NEW x \in persons PROVE Accounted(x)'
      BY <1>1 DEF FacesAccounted
    <3>1. x <= v /\ x \in Nat
      BY <2>1, VersionsUsed, FaceAssumption DEF FaceInv, SamplesInv, Versions
    <3>2. jobs'[<<"enroll", v>>].status = "running"
      BY <1>1 DEF LeaseInv, Running
    <3> QED
      BY <2>1, <3>1, <3>2 DEF Accounted, Unfinished
  <2> QED
    BY <1>1, <2>1, <2>2, <2>6, <2>7, <2>8, <2>9, <2>10, HandlerFace
<1> QED
  BY <1>3, <1>4 DEF Activate

LEMMA DiscardFace ==
  ASSUME ProfileInv, UploadsInv, WorkInv, LeaseInv, FaceInv, RowsKeep,
         NEW w \in Workers, NEW v \in Versions, Discard(w, v) \/ RejectPerson(w, v)
  PROVE  FaceInv'
<1>1. /\ Running(w) /\ work[w].job \in {<<"enroll", v>>, <<"cleanup", v>>}
      /\ work[w].job \in JobsAbout(v)
      /\ UNCHANGED <<jobs, profile, samples, abandoned>> /\ persons' = persons \ {v}
  BY DEF Discard, RejectPerson, AtStep, Running, JobsAbout
<1>2. profile.person # v
  BY <1>1 DEF Discard, RejectPerson, AtStep, FaceInv, PlacesInv, PlaceOK, Knows
<1>3. /\ \/ work'[w].pc = "finish" /\ work'[w].verdict = "ok"
         \/ work'[w].pc = "rejected" /\ work[w].job = <<"cleanup", v>>
      /\ work'[w].job = work[w].job
      /\ \A x \in Workers : x # w => work'[x] = work[x]
  BY StepRow DEF Discard, RejectPerson, AtStep
<1>4. AtHome(w)' /\ Knows(w, v)'
  BY <1>1, <1>2, <1>3 DEF AtHome, Knows
<1>5. profile.status = "active" => profile.person \in persons'
  BY <1>1, <1>2 DEF FaceInv, ActivePersonExists
<1> QED
  BY <1>1, <1>3, <1>4, <1>5, OnlyPersons

LEMMA DropPersonFace ==
  ASSUME ProfileInv, UploadsInv, WorkInv, LeaseInv, FaceInv, RowsKeep,
         NEW w \in Workers, NEW x \in Versions, DropPerson(w, x)
  PROVE  FaceInv'
<1>1. /\ Running(w) /\ work[w].pc \in {"clean", "revoke"} /\ UNCHANGED <<jobs, profile, samples, abandoned>>
      /\ persons' = persons \ {x} /\ <<"person", x>> \in work[w].left
  BY DEF DropPerson, Running
<1>2. PICK v \in Versions : work[w].job \in JobsAbout(v)
  BY <1>1 DEF FaceInv, PlacesInv, PlaceOK, AtHome, JobsAbout
<1>3. AtHome(w) /\ Knows(w, v)
  BY <1>2 DEF FaceInv, PlacesInv, PlaceOK
<1>4. PICK L : L = work[w].left \ {<<"person", x>>}
  OBVIOUS
<1>5. /\ work'[w].pc = work[w].pc /\ work'[w].job = work[w].job /\ work'[w].left = L
      /\ \A y \in Workers : y # w => work'[y] = work[y]
  BY <1>4, StepRow DEF DropPerson
<1>6. AtHome(w)' /\ Knows(w, v)'
  <2>1. AtHome(w)'
    BY <1>3, <1>5 DEF AtHome
  <2>2. CASE work[w].pc = "clean"
    <3>1. /\ profile.person = v /\ \A y \in Versions : <<"person", y>> \in L => y < v
          /\ \A y \in persons : y # x => y >= v \/ <<"person", y>> \in L
      BY <1>3, <1>4, <2>2 DEF Knows
    <3>2. \A y \in persons' : y >= v \/ <<"person", y>> \in work'[w].left
      BY <1>1, <1>5, <3>1
    <3>3. \A y \in Versions : <<"person", y>> \in work'[w].left => y < v
      BY <1>5, <3>1
    <3>4. profile'.person = v /\ work'[w].pc = "clean"
      BY <1>1, <1>5, <2>2, <3>1
    <3> QED
      BY <2>1, <3>2, <3>3, <3>4 DEF Knows
  <2>3. CASE work[w].pc = "revoke"
    <3>1. \A u \in SampleUploads : u \in UploadIds
      BY UploadsAssumption
    <3>2. \A u : <<"upload", u>> # <<"person", x>>
      OBVIOUS
    <3>3. /\ profile.status = "revoking" /\ \A y \in persons : y # x => <<"person", y>> \in L
          /\ \A u \in SampleUploads : samples[u].version # 0 =>
               uploads[u].status = "deleted" \/ <<"upload", u>> \in L
      BY <1>3, <1>4, <2>3, <3>2 DEF Knows
    <3>4. \A y \in persons' : <<"person", y>> \in work'[w].left
      BY <1>1, <1>5, <3>3
    <3>5. \A u \in SampleUploads : samples'[u].version # 0 =>
            uploads'[u].status = "deleted" \/ <<"upload", u>> \in work'[w].left
      BY <1>1, <1>5, <3>1, <3>3 DEF RowsKeep
    <3>6. profile'.status = "revoking" /\ work'[w].pc = "revoke"
      BY <1>1, <1>5, <2>3, <3>3
    <3> QED
      BY <2>1, <3>4, <3>5, <3>6 DEF Knows
  <2> QED
    BY <1>1, <2>1, <2>2, <2>3
<1>7. profile.status = "active" => profile.person \in persons'
  <2>1. CASE work[w].pc = "clean"
    <3>1. profile.person = v /\ x < v
      BY <1>1, <1>3, <2>1 DEF Knows
    <3> QED
      BY <1>1, <3>1, FaceAssumption DEF FaceInv, ActivePersonExists, Versions
  <2>2. CASE work[w].pc = "revoke"
    BY <1>3, <2>2 DEF Knows
  <2> QED
    BY <1>1, <2>1, <2>2
<1> QED
  BY <1>1, <1>2, <1>5, <1>6, <1>7, OnlyPersons

\* Samples that are given a status.
LEMMA MarkedSamples ==
  ASSUME samples \in [SampleUploads -> SampleRow], NEW U \in SUBSET SampleUploads,
         NEW status \in {"deleted", "rejected"}, samples' = Marked(U, status)
  PROVE  /\ samples' \in [SampleUploads -> SampleRow]
         /\ \A u \in SampleUploads :
              /\ samples'[u].version = samples[u].version
              /\ u \in U => samples'[u].status = status
              /\ u \notin U => samples'[u] = samples[u]
<1>1. ASSUME NEW s \in SampleRow
      PROVE  /\ [s EXCEPT !.status = status] \in SampleRow
             /\ [s EXCEPT !.status = status].version = s.version
             /\ [s EXCEPT !.status = status].status = status
  BY DEF SampleRow
<1>2. ASSUME NEW u \in SampleUploads
      PROVE  /\ samples'[u] = IF u \in U THEN [samples[u] EXCEPT !.status = status] ELSE samples[u]
             /\ samples[u] \in SampleRow
  BY DEF Marked
<1>3. ASSUME NEW u \in SampleUploads
      PROVE  /\ samples'[u] \in SampleRow /\ samples'[u].version = samples[u].version
             /\ u \in U => samples'[u].status = status
             /\ u \notin U => samples'[u] = samples[u]
  BY <1>1, <1>2
<1>4. samples' = [u \in SampleUploads |-> samples'[u]]
  BY DEF Marked
<1> QED
  BY <1>3, <1>4

LEMMA CleanSamplesFace ==
  ASSUME ProfileInv, UploadsInv, WorkInv, LeaseInv, FaceInv, RowsKeep,
         NEW w \in Workers, CleanSamples(w)
  PROVE  FaceInv'
<1>1. /\ Running(w) /\ work[w].pc = "clean" /\ work[w].left = {}
      /\ UNCHANGED <<jobs, profile, persons, abandoned>>
  BY DEF CleanSamples, Running
<1>2. PICK v \in Versions : work[w].job \in JobsAbout(v) /\ work[w].job[2] = v
                            /\ work[w].job \in {"enroll", "cleanup"} \X Versions
  BY <1>1 DEF FaceInv, PlacesInv, PlaceOK, AtHome, JobsAbout
<1>3. profile.person = v /\ NoneBefore(v)
  BY <1>1, <1>2 DEF FaceInv, PlacesInv, PlaceOK, Knows, NoneBefore
<1>4. PICK U \in SUBSET SampleUploads : U = {u \in SampleUploads : samples[u].version \in 1..(v - 1)}
  OBVIOUS
<1>5. /\ samples' \in [SampleUploads -> SampleRow]
      /\ \A u \in SampleUploads : /\ samples'[u].version = samples[u].version
                                  /\ u \notin U => samples'[u] = samples[u]
  BY <1>2, <1>4, MarkedSamples DEF CleanSamples, FaceInv, SamplesInv
<1>6. /\ work'[w].pc = "erase" /\ work'[w].job = work[w].job
      /\ \A x \in Workers : x # w => work'[x] = work[x]
  BY StepRow DEF CleanSamples
<1>7. AtHome(w)' /\ Knows(w, v)'
  BY <1>1, <1>2, <1>3, <1>6 DEF AtHome, Knows, NoneBefore
<1>8. v \in Nat /\ v <= profile.version /\ profile.version \in Nat
  BY <1>3, FaceAssumption DEF FaceInv, SamplesInv, ProfileInv, ProfileRow, Versions
<1>9. SamplesInv'
  <2>1. \A u \in SampleUploads : u \in UploadIds
    BY UploadsAssumption
  <2>2. \A u \in SampleUploads : samples[u].version = profile.version => u \notin U
    BY <1>4, <1>8
  <2>3. \A x \in persons : \E u \in SamplesOf(x)' : samples'[u].status # "deleted"
    <3> SUFFICES ASSUME NEW x \in persons PROVE \E u \in SamplesOf(x)' : samples'[u].status # "deleted"
      OBVIOUS
    <3>1. PICK u \in SampleUploads : samples[u].version = x /\ samples[u].status # "deleted"
      BY DEF FaceInv, SamplesInv, SamplesOf
    <3>2. x >= v /\ x \in Nat
      BY <1>3, FaceAssumption DEF NoneBefore, FaceInv, SamplesInv, Versions
    <3>3. u \notin U
      BY <1>4, <1>8, <3>1, <3>2
    <3> QED
      BY <1>5, <3>1, <3>3 DEF SamplesOf
  <2> QED
    BY <1>1, <1>5, <2>1, <2>2, <2>3 DEF FaceInv, SamplesInv, RowsKeep
<1>10. ErasedInv' /\ ActivePersonExists' /\ FacesAccounted'
  <2>1. \A u \in SampleUploads : u \in UploadIds
    BY UploadsAssumption
  <2>2. ErasedInv'
    BY <1>1, <1>5, <2>1 DEF FaceInv, ErasedInv, RowsKeep
  <2>3. ActivePersonExists' /\ FacesAccounted'
    BY <1>1 DEF FaceInv, ActivePersonExists, FacesAccounted, Accounted, LeftByRetry, Unfinished
  <2> QED
    BY <2>2, <2>3
<1> QED
  BY <1>1, <1>2, <1>5, <1>6, <1>7, <1>9, <1>10, HandlerFace

LEMMA RejectSamplesFace ==
  ASSUME ProfileInv, UploadsInv, WorkInv, LeaseInv, FaceInv, RowsKeep,
         NEW w \in Workers, NEW v \in Versions, RejectSamples(w, v)
  PROVE  FaceInv'
<1>1. /\ Running(w) /\ work[w].pc = "rejected" /\ work[w].job = <<"cleanup", v>>
      /\ work[w].job \in JobsAbout(v) /\ UNCHANGED <<jobs, profile, persons, abandoned>>
  BY DEF RejectSamples, AtStep, Running, JobsAbout
<1>2. profile.person # v /\ v \notin persons
  BY <1>1 DEF FaceInv, PlacesInv, PlaceOK, Knows
<1>3. PICK U \in SUBSET SampleUploads : U = SamplesOf(v)
  BY DEF SamplesOf
<1>4. /\ samples' \in [SampleUploads -> SampleRow]
      /\ \A u \in SampleUploads : /\ samples'[u].version = samples[u].version
                                  /\ samples'[u].status = samples[u].status \/ samples'[u].status = "rejected"
  BY <1>3, MarkedSamples DEF RejectSamples, FaceInv, SamplesInv
<1>5. /\ work'[w].pc = "finish" /\ work'[w].job = work[w].job
      /\ \A x \in Workers : x # w => work'[x] = work[x]
  BY StepRow DEF RejectSamples
<1>6. AtHome(w)' /\ Knows(w, v)'
  BY <1>1, <1>2, <1>5 DEF AtHome, Knows
<1>7. \A u \in SampleUploads : u \in UploadIds
  BY UploadsAssumption
<1>8. SamplesInv'
  <2>1. \A x \in persons : \E u \in SamplesOf(x)' : samples'[u].status # "deleted"
    BY <1>4 DEF FaceInv, SamplesInv, SamplesOf
  <2> QED
    BY <1>1, <1>4, <1>7, <2>1 DEF FaceInv, SamplesInv, RowsKeep
<1>9. ErasedInv' /\ ActivePersonExists' /\ FacesAccounted'
  <2>1. ErasedInv'
    BY <1>1, <1>4, <1>7 DEF FaceInv, ErasedInv, RowsKeep
  <2>2. ActivePersonExists' /\ FacesAccounted'
    BY <1>1 DEF FaceInv, ActivePersonExists, FacesAccounted, Accounted, LeftByRetry, Unfinished
  <2> QED
    BY <2>1, <2>2
<1> QED
  BY <1>1, <1>4, <1>5, <1>6, <1>8, <1>9, HandlerFace

LEMMA EraseUploadFace ==
  ASSUME ProfileInv, UploadsInv, WorkInv, LeaseInv, FaceInv, RowsKeep,
         NEW w \in Workers, NEW u \in UploadIds, EraseUpload(w, u)
  PROVE  FaceInv'
<1>1. /\ Running(w) /\ work[w].pc \in {"erase", "revoke"}
      /\ UNCHANGED <<jobs, profile, samples, persons, abandoned>>
  BY DEF EraseUpload, Running, faceVars
<1>2. PICK v \in Versions : work[w].job \in JobsAbout(v)
  BY <1>1 DEF FaceInv, PlacesInv, PlaceOK, AtHome, JobsAbout
<1>3. AtHome(w) /\ Knows(w, v)
  BY <1>2 DEF FaceInv, PlacesInv, PlaceOK
<1>4. \A t \in SampleUploads : t \in UploadIds
  BY UploadsAssumption
<1>5. ASSUME NEW L,
             /\ work'[w].pc = work[w].pc /\ work'[w].job = work[w].job /\ work'[w].left = L
             /\ \A x \in Workers : x # w => work'[x] = work[x],
             \A x \in Versions : <<"person", x>> \in L <=> <<"person", x>> \in work[w].left,
             \A t \in UploadIds : <<"upload", t>> \in work[w].left =>
               <<"upload", t>> \in L \/ (samples[t].version # 0 /\ t \in SampleUploads => uploads'[t].status = "deleted")
      PROVE  FaceInv'
  <2>1. AtHome(w)'
    BY <1>3, <1>5 DEF AtHome
  <2>2. CASE work[w].pc = "erase"
    <3>1. Knows(w, v)'
      BY <1>1, <1>3, <1>5, <2>2 DEF Knows, NoneBefore
    <3> QED
      BY <1>1, <1>2, <1>5, <2>1, <3>1, OnlyWork
  <2>3. CASE work[w].pc = "revoke"
    <3>1. persons \subseteq Versions
      BY DEF FaceInv, SamplesInv
    <3>2. profile.status = "revoking" /\ \A x \in persons : <<"person", x>> \in L
      BY <1>3, <1>5, <2>3, <3>1 DEF Knows
    <3>3. \A t \in SampleUploads : samples[t].version # 0 =>
            uploads'[t].status = "deleted" \/ <<"upload", t>> \in L
      BY <1>3, <1>4, <1>5, <2>3 DEF Knows, RowsKeep
    <3>4. Knows(w, v)'
      BY <1>1, <1>5, <2>3, <3>2, <3>3 DEF Knows
    <3> QED
      BY <1>1, <1>2, <1>5, <2>1, <3>4, OnlyWork
  <2> QED
    BY <1>1, <2>2, <2>3
<1>6. CASE UNCHANGED work
  BY <1>5, <1>6
<1>7. CASE /\ EraseRow(w, u) \/ (~Stored(u) /\ UNCHANGED uploadVars)
           /\ work' = [work EXCEPT ![w].left = @ \ {<<"upload", u>>}]
  <2>1. u \in SampleUploads /\ samples[u].version # 0 => uploads'[u].status = "deleted"
    <3>1. CASE EraseRow(w, u)
      BY <3>1 DEF EraseRow, UploadsInv, UploadsTypeOK, UploadRow
    <3>2. CASE ~Stored(u) /\ UNCHANGED uploadVars
      BY <3>2 DEF Stored, uploadVars, FaceInv, SamplesInv, UploadsInv, LockInv, UploadsTypeOK, UploadRow
    <3> QED
      BY <1>7, <3>1, <3>2
  <2>2. PICK L : L = work[w].left \ {<<"upload", u>>}
    OBVIOUS
  <2>3. /\ work'[w].pc = work[w].pc /\ work'[w].job = work[w].job /\ work'[w].left = L
        /\ \A x \in Workers : x # w => work'[x] = work[x]
    BY <1>7, <2>2, StepRow
  <2>4. \A x \in Versions : <<"person", x>> \in L <=> <<"person", x>> \in work[w].left
    BY <2>2
  <2>5. \A t \in UploadIds : <<"upload", t>> \in work[w].left => <<"upload", t>> \in L \/ t = u
    BY <2>2
  <2> QED
    BY <1>5, <2>1, <2>3, <2>4, <2>5
<1> QED
  BY <1>6, <1>7 DEF EraseUpload

LEMMA ErasedAllFace ==
  ASSUME ProfileInv, UploadsInv, WorkInv, LeaseInv, FaceInv, RowsKeep,
         NEW w \in Workers, ErasedAll(w)
  PROVE  FaceInv'
<1>1. /\ Running(w) /\ work[w].pc = "erase" /\ UNCHANGED <<jobs, profile, samples, persons, abandoned>>
  BY DEF ErasedAll, Running, faceVars
<1>2. PICK v \in Versions : work[w].job \in JobsAbout(v) /\ work[w].job # <<"revoke", v>>
  BY <1>1 DEF FaceInv, PlacesInv, PlaceOK, AtHome, JobsAbout
<1>3. profile.person = v /\ NoneBefore(v)
  BY <1>1, <1>2 DEF FaceInv, PlacesInv, PlaceOK, Knows, NoneBefore
<1>4. /\ work'[w].pc = "finish" /\ work'[w].job = work[w].job
      /\ \A x \in Workers : x # w => work'[x] = work[x]
  BY StepRow DEF ErasedAll
<1>5. AtHome(w)' /\ Knows(w, v)'
  BY <1>1, <1>2, <1>3, <1>4 DEF AtHome, Knows, NoneBefore
<1> QED
  BY <1>1, <1>2, <1>4, <1>5, OnlyWork

\* The cleanup after an enrolment that gave up.
LEMMA CleanupStartFace ==
  ASSUME ProfileInv, UploadsInv, WorkInv, LeaseInv, FaceInv, RowsKeep,
         NEW w \in Workers, NEW v \in Versions, CleanupStart(w, v)
  PROVE  FaceInv'
<1>1. /\ Running(w) /\ work[w].job = <<"cleanup", v>> /\ work[w].job \in JobsAbout(v)
      /\ UNCHANGED <<jobs, profile, samples, persons, abandoned>>
  BY DEF CleanupStart, AtStep, Running, JobsAbout, faceVars
<1>2. CASE profile.person = v /\ StartCleanup(w, v, samples)
  <2>1. \A x \in persons : \E u \in SampleUploads : samples[u].version = x /\ samples[u].status # "deleted"
    BY DEF FaceInv, SamplesInv, SamplesOf
  <2>2. /\ work'[w].pc = "clean" /\ work'[w].job = work[w].job
        /\ \A x \in Workers : x # w => work'[x] = work[x]
        /\ \A x \in Versions : <<"person", x>> \in work'[w].left => x < v
        /\ \A x \in persons : x >= v \/ <<"person", x>> \in work'[w].left
    BY <1>2, <2>1, CleanupLeft DEF FaceInv, SamplesInv
  <2>3. AtHome(w)' /\ Knows(w, v)'
    BY <1>1, <1>2, <2>2 DEF AtHome, Knows
  <2> QED
    BY <1>1, <2>2, <2>3, OnlyWork
<1>3. CASE profile.person # v /\ Goto(w, "reject")
  <2>1. /\ work'[w].pc = "reject" /\ work'[w].job = work[w].job
        /\ \A x \in Workers : x # w => work'[x] = work[x]
    BY <1>3, StepRow
  <2>2. AtHome(w)' /\ Knows(w, v)'
    BY <1>1, <1>3, <2>1 DEF AtHome, Knows
  <2> QED
    BY <1>1, <2>1, <2>2, OnlyWork
<1> QED
  BY <1>2, <1>3 DEF CleanupStart

\* The revocation.
LEMMA RevokeStartFace ==
  ASSUME ProfileInv, UploadsInv, WorkInv, LeaseInv, FaceInv, RowsKeep,
         NEW w \in Workers, NEW v \in Versions, RevokeStart(w, v)
  PROVE  FaceInv'
<1>1. /\ Running(w) /\ work[w].job = <<"revoke", v>> /\ work[w].job \in JobsAbout(v)
      /\ UNCHANGED <<jobs, profile, samples, persons, abandoned>>
  BY DEF RevokeStart, AtStep, Running, JobsAbout, faceVars
<1>2. CASE (profile.status # "revoking" \/ profile.version # v) /\ Return(w, "ok")
  <2>1. /\ work'[w].pc = "finish" /\ work'[w].job = work[w].job
        /\ \A x \in Workers : x # w => work'[x] = work[x]
    BY <1>2, StepRow
  <2>2. AtHome(w)' /\ Knows(w, v)'
    BY <1>1, <1>2, <2>1 DEF AtHome, Knows
  <2> QED
    BY <1>1, <2>1, <2>2, OnlyWork
<1>3. CASE profile.status = "revoking" /\ profile.version = v
  <2> DEFINE U == {u \in SampleUploads : samples[u].version \in 1..v}
             L == {<<"person", samples[u].version>> : u \in U} \cup {<<"upload", u>> : u \in U}
  <2>1. \A u \in SampleUploads : samples[u].version # 0 => u \in U
    BY <1>3, FaceAssumption DEF FaceInv, SamplesInv, SampleRow
  <2>2. \A x \in persons : <<"person", x>> \in L
    <3> SUFFICES ASSUME NEW x \in persons PROVE <<"person", x>> \in L
      OBVIOUS
    <3>1. PICK u \in SampleUploads : samples[u].version = x /\ x # 0
      BY DEF FaceInv, SamplesInv, SamplesOf, Versions
    <3> QED
      BY <2>1, <3>1
  <2>3. \A u \in SampleUploads : samples[u].version # 0 => <<"upload", u>> \in L
    BY <2>1
  <2>4. GotoWith(w, "revoke", L)
    BY <1>3 DEF RevokeStart
  <2> HIDE DEF L, U
  <2>5. /\ work'[w].pc = "revoke" /\ work'[w].job = work[w].job /\ work'[w].left = L
        /\ \A x \in Workers : x # w => work'[x] = work[x]
    BY <2>4, StepRow
  <2>6. AtHome(w)' /\ Knows(w, v)'
    <3>1. \A x \in persons : <<"person", x>> \in work'[w].left
      BY <2>2, <2>5
    <3>2. \A u \in SampleUploads : samples[u].version # 0 => <<"upload", u>> \in work'[w].left
      BY <2>3, <2>5
    <3> QED
      BY <1>1, <1>3, <2>5, <3>1, <3>2 DEF AtHome, Knows
  <2> QED
    BY <1>1, <2>5, <2>6, OnlyWork
<1> QED
  BY <1>2, <1>3 DEF RevokeStart

LEMMA RevokeCommitFace ==
  ASSUME ProfileInv, ProfileInv', UploadsInv, WorkInv, LeaseInv, FaceInv, RowsKeep,
         NEW w \in Workers, NEW v \in Versions, RevokeCommit(w, v)
  PROVE  FaceInv'
<1>1. /\ Running(w) /\ work[w].job = <<"revoke", v>> /\ work[w].job \in JobsAbout(v)
      /\ work[w].pc = "revoke" /\ work[w].left = {} /\ UNCHANGED <<jobs, persons, abandoned>>
  BY DEF RevokeCommit, AtStep, Running, JobsAbout
<1>2. /\ profile.status = "revoking" /\ persons = {}
      /\ \A u \in SampleUploads : samples[u].version # 0 => uploads[u].status = "deleted"
  <2>1. Knows(w, v)
    BY <1>1 DEF FaceInv, PlacesInv, PlaceOK
  <2> QED
    BY <1>1, <2>1 DEF Knows
<1>3. PICK U \in SUBSET SampleUploads : U = {u \in SampleUploads : samples[u].version # 0}
  OBVIOUS
<1>4. /\ samples' \in [SampleUploads -> SampleRow]
      /\ \A u \in SampleUploads : samples'[u].version = samples[u].version
  BY <1>3, MarkedSamples DEF RevokeCommit, FaceInv, SamplesInv
<1>5. /\ profile'.version = profile.version
      /\ IF profile.version = v THEN profile'.status = "revoked" /\ profile'.person = 0
         ELSE profile' = profile
  BY <1>2 DEF RevokeCommit, ProfileInv, ProfileRow
<1>6. /\ work'[w].pc = "finish" /\ work'[w].job = work[w].job
      /\ \A x \in Workers : x # w => work'[x] = work[x]
  BY StepRow DEF RevokeCommit
<1>7. AtHome(w)' /\ Knows(w, v)'
  BY <1>1, <1>5, <1>6 DEF AtHome, Knows
<1>8. \A u \in SampleUploads : u \in UploadIds
  BY UploadsAssumption
<1>9. SamplesInv'
  <2>1. \A u \in SampleUploads : samples[u].version # 0 => samples[u].version # profile.version
    BY <1>2 DEF FaceInv, SamplesInv
  <2>2. profile'.person <= profile'.version
    BY <1>5, FaceAssumption DEF FaceInv, SamplesInv, ProfileInv, ProfileRow
  <2>3. profile'.person # 0 => profile'.status \in {"active", "revoking"}
    BY <1>5 DEF FaceInv, SamplesInv
  <2> QED
    BY <1>1, <1>2, <1>4, <1>5, <1>8, <2>1, <2>2, <2>3 DEF FaceInv, SamplesInv, RowsKeep
<1>10. ErasedInv' /\ ActivePersonExists' /\ FacesAccounted'
  BY <1>1, <1>2, <1>4, <1>5, <1>8 DEF ErasedInv, ActivePersonExists, FacesAccounted, RowsKeep
<1> QED
  BY <1>1, <1>4, <1>5, <1>6, <1>7, <1>9, <1>10, HandlerFace

\* The end of a job.  jobs' differs from jobs in its row, and in the row of the
\* cleanup that an enrolment leaves.
LEMMA FinishFace ==
  ASSUME ProfileInv, ProfileInv', UploadsInv, WorkInv, LeaseInv, FaceInv, RowsKeep,
         NEW w \in Workers, FinishFaceJob(w)
  PROVE  FaceInv'
<1>1. /\ Running(w) /\ work[w].pc = "finish" /\ work[w].job \in FaceJobs
      /\ UNCHANGED <<samples, persons>>
  BY DEF FinishFaceJob, Running
<1>2. PICK v \in Versions : work[w].job \in JobsAbout(v) /\ work[w].job[2] = v
  BY <1>1, AboutFace DEF JobsAbout
<1>3. PICK k \in {"enroll", "revoke", "cleanup"} : work[w].job = <<k, v>>
  BY <1>2 DEF JobsAbout
<1>4. Fenced(w) /\ jobs[work[w].job].status = "running" /\ work[w].job \in JobIds
  BY <1>1 DEF LeaseInv, Running, Fenced, WorkInv
<1>5. PICK s \in {"queued", "succeeded", "failed"} :
        /\ s = JobOutcome(w)
        /\ s = "succeeded" => work[w].verdict = "ok"
        /\ s = "failed" => k = "enroll"
  <2>1. work[w].job \in Privacy <=> k # "enroll"
    BY <1>1, <1>3, FaceAssumption
  <2>2. work[w].verdict \in Verdicts
    BY DEF WorkInv, Place
  <2> QED
    BY <2>1, <2>2 DEF JobOutcome, FinalStatus, Verdicts
<1>6. /\ FinishedRows(w) \in [JobIds -> Row]
      /\ FinishedRows(w)[work[w].job].status = s
      /\ \A i \in JobIds : i # work[w].job => FinishedRows(w)[i] = jobs[i]
  <2>1. FinishedRows(w) \in [JobIds -> Row]
    BY <1>1, FinishedRowsOK
  <2>2. FinishedRows(w)[work[w].job] = [jobs[work[w].job] EXCEPT !.status = JobOutcome(w), !.expired = FALSE]
    BY <1>4 DEF FinishedRows, WorkInv
  <2>3. [jobs[work[w].job] EXCEPT !.status = JobOutcome(w), !.expired = FALSE].status = JobOutcome(w)
    BY <1>4 DEF WorkInv, Row
  <2> QED
    BY <1>4, <1>5, <2>1, <2>2, <2>3 DEF FinishedRows, WorkInv
<1>7. <<"cleanup", v>> \in JobIds /\ <<"cleanup", v>> \in JobsAbout(v)
  BY AboutFace DEF JobsAbout
<1>8. /\ jobs'[work[w].job].status = s
      /\ \A i \in JobIds : i # work[w].job /\ i # <<"cleanup", v>> => jobs'[i] = jobs[i]
      /\ <<"cleanup", v>> # work[w].job =>
           \/ jobs'[<<"cleanup", v>>] = jobs[<<"cleanup", v>>]
           \/ s = "failed" /\ jobs[<<"cleanup", v>>].status = "none"
      /\ s = "failed" /\ jobs[<<"cleanup", v>>].status = "none" => jobs'[<<"cleanup", v>>].status = "queued"
  <2>1. CASE s = "failed"
    <3>1. jobs' = Queued(FinishedRows(w), <<"cleanup", v>>) /\ <<"cleanup", v>> # work[w].job
      BY <1>2, <1>3, <1>4, <1>5, <2>1 DEF FinishFaceJob
    <3>2. NewJob.status = "queued"
      BY DEF NewJob, NoJob
    <3> QED
      BY <1>4, <1>6, <1>7, <2>1, <3>1, <3>2 DEF Queued
  <2>2. CASE s # "failed"
    <3>1. jobs' = FinishedRows(w)
      BY <1>5, <2>2 DEF FinishFaceJob
    <3> QED
      BY <1>4, <1>6, <1>7, <2>2, <3>1
  <2> QED
    BY <2>1, <2>2
<1>9. /\ profile'.version = profile.version /\ profile'.person = profile.person
      /\ \/ profile'.status = profile.status
         \/ profile.status = "pending" /\ profile'.status = "failed"
  BY DEF FinishFaceJob, ProfileInv, ProfileRow
<1>10. work'[w].pc = "idle" /\ \A x \in Workers : x # w => work'[x] = work[x]
  BY IdlePlace DEF FinishFaceJob, WorkInv
<1>11. \A u \in SampleUploads : u \in UploadIds
  BY UploadsAssumption
<1>12. \A x : SamplesOf(x)' = SamplesOf(x)
  BY <1>1 DEF SamplesOf
<1>13. SamplesInv' /\ ErasedInv' /\ ActivePersonExists'
  BY <1>1, <1>9, <1>11, <1>12 DEF FaceInv, SamplesInv, ErasedInv, ActivePersonExists, RowsKeep
<1>14. PlacesInv'
  BY <1>1, <1>10, Alone DEF PlaceOK, AtHome, Knows
<1>15. \A x \in Versions : x # v => \A j \in JobsAbout(x) : jobs'[j] = jobs[j]
  <2> SUFFICES ASSUME NEW x \in Versions, x # v, NEW j \in JobsAbout(x) PROVE jobs'[j] = jobs[j]
    OBVIOUS
  <2>1. j \in JobIds /\ j # work[w].job /\ j # <<"cleanup", v>>
    BY <1>2, <1>7, AboutFace
  <2> QED
    BY <1>8, <2>1
<1>16. \A j \in JobIds : j \in JobsAbout(v) /\ j # work[w].job /\ j # <<"cleanup", v>> => jobs'[j] = jobs[j]
  BY <1>8
<1>17. ~(v > profile.version) /\ jobs[<<"cleanup", v>>].status # "failed"
  BY <1>2, <1>4 DEF FaceInv, FaceRowsInv
<1>18. FaceRowsInv'
  <2> SUFFICES ASSUME NEW x \in Versions
               PROVE  /\ x > profile'.version => \A j \in JobsAbout(x) : jobs'[j].status = "none"
                      /\ jobs'[<<"enroll", x>>].status # "none" => SamplesOf(x)' # {}
                      /\ jobs'[<<"cleanup", x>>].status # "failed"
    BY DEF FaceRowsInv, JobsAbout
  <2>1. CASE x # v
    BY <1>9, <1>12, <1>15, <2>1 DEF FaceInv, FaceRowsInv, JobsAbout
  <2>2. CASE x = v
    <3>1. jobs'[<<"cleanup", v>>].status # "failed"
      BY <1>3, <1>5, <1>8, <1>17
    <3>2. <<"enroll", v>> \in JobIds /\ <<"enroll", v>> \in JobsAbout(v)
      BY AboutFace DEF JobsAbout
    <3>3. jobs'[<<"enroll", v>>].status # "none" => jobs[<<"enroll", v>>].status # "none"
      BY <1>4, <1>8, <3>2
    <3> QED
      BY <1>9, <1>12, <1>17, <2>2, <3>1, <3>3 DEF FaceInv, FaceRowsInv
  <2> QED
    BY <2>1, <2>2
<1>19. FacesAccounted'
  <2> SUFFICES ASSUME NEW x \in persons PROVE Accounted(x)' \/ LeftByRetry(x)'
    BY <1>1 DEF FacesAccounted
  <2>1. /\ x \in Versions /\ x <= profile.version /\ profile.version \in Versions
        /\ <<"revoke", profile.version>> \in JobIds
    BY VersionsUsed, FaceAssumption DEF FaceInv, SamplesInv
  <2>2. Accounted(x) \/ LeftByRetry(x)
    BY DEF FaceInv, FacesAccounted
  <2>3. \A n \in Versions : /\ <<"enroll", n>> \in JobIds /\ <<"cleanup", n>> \in JobIds
                            /\ <<"enroll", n>> \in JobsAbout(n) /\ <<"cleanup", n>> \in JobsAbout(n)
    BY AboutFace DEF JobsAbout
  <2>4. ASSUME NEW n \in Versions, n = x \/ (n > x /\ n = profile.person),
               Unfinished(<<"enroll", n>>) \/ Unfinished(<<"cleanup", n>>)
        PROVE  Accounted(x)' \/ LeftByRetry(x)'
    <3>1. CASE n # v
      <4>1. Unfinished(<<"enroll", n>>)' \/ Unfinished(<<"cleanup", n>>)'
        BY <1>15, <2>3, <2>4, <3>1 DEF Unfinished
      <4> QED
        BY <1>9, <2>1, <2>4, <4>1 DEF Accounted
    <3>2. CASE n = v
      <4>1. CASE s = "queued"
        <5>1. Unfinished(<<"enroll", v>>)' \/ Unfinished(<<"cleanup", v>>)'
          BY <1>3, <1>8, <2>3, <2>4, <3>2, <4>1 DEF Unfinished
        <5> QED
          BY <1>9, <2>1, <2>4, <3>2, <5>1 DEF Accounted
      <4>2. CASE s = "failed"
        <5>1. /\ jobs'[<<"enroll", v>>].status = "failed"
              /\ \/ jobs'[<<"cleanup", v>>].status \in {"queued", "running"}
                 \/ jobs[<<"cleanup", v>>].status = "succeeded"
          <6>1. jobs[<<"cleanup", v>>] \in Row
            BY <1>7 DEF WorkInv
          <6>2. jobs[<<"cleanup", v>>].status \in {"none", "queued", "running", "succeeded"}
            BY <1>17, <6>1 DEF Row, JobStatuses
          <6> QED
            BY <1>3, <1>5, <1>8, <4>2, <6>2
        <5>2. CASE jobs'[<<"cleanup", v>>].status \in {"queued", "running"}
          BY <1>9, <2>1, <2>4, <3>2, <5>2 DEF Accounted, Unfinished
        <5>3. CASE jobs[<<"cleanup", v>>].status = "succeeded"
          <6>1. v \in abandoned'
            BY <1>2, <1>3, <1>4, <1>5, <4>2, <5>3 DEF FinishFaceJob
          <6> QED
            BY <1>9, <2>4, <3>2, <5>1, <6>1 DEF LeftByRetry
        <5> QED
          BY <5>1, <5>2, <5>3
      <4>3. CASE s = "succeeded" /\ k # "revoke"
        <5>1. \/ profile.person = v /\ NoneBefore(v)
              \/ profile.person # v /\ v \notin persons
          BY <1>1, <1>2, <1>3, <1>5, <4>3 DEF FaceInv, PlacesInv, PlaceOK, Knows, NoneBefore
        <5>2. x = profile.person
          BY <2>1, <2>4, <3>2, <5>1, FaceAssumption DEF NoneBefore, Versions
        <5> QED
          BY <1>9, <5>2 DEF Accounted
      <4>4. CASE k = "revoke"
        <5>1. Unfinished(<<"enroll", v>>)' \/ Unfinished(<<"cleanup", v>>)'
          BY <1>3, <1>5, <1>8, <2>3, <2>4, <3>2, <4>4 DEF Unfinished
        <5> QED
          BY <1>9, <2>1, <2>4, <3>2, <5>1 DEF Accounted
      <4> QED
        BY <4>1, <4>2, <4>3, <4>4
    <3> QED
      BY <3>1, <3>2
  <2>5. ASSUME profile.status = "revoking", Unfinished(<<"revoke", profile.version>>)
        PROVE  Accounted(x)'
    <3>1. profile'.status = "revoking"
      BY <1>9, <2>5
    <3>2. CASE work[w].job = <<"revoke", profile.version>>
      <4>1. v = profile.version /\ work[w].job = <<"revoke", v>>
        BY <1>3, <3>2
      <4>2. s = "queued"
        BY <1>1, <1>2, <1>3, <1>5, <2>5, <4>1 DEF FaceInv, PlacesInv, PlaceOK, Knows
      <4> QED
        BY <1>8, <1>9, <3>1, <3>2, <4>2 DEF Accounted, Unfinished
    <3>3. CASE work[w].job # <<"revoke", profile.version>>
      <4>1. jobs'[<<"revoke", profile.version>>] = jobs[<<"revoke", profile.version>>]
        BY <1>8, <2>1, <3>3
      <4> QED
        BY <1>9, <2>5, <3>1, <4>1 DEF Accounted, Unfinished
    <3> QED
      BY <3>2, <3>3
  <2>6. CASE LeftByRetry(x)
    <3>1. PICK n \in abandoned : /\ n = x \/ (n > x /\ n = profile.person)
                                 /\ jobs[<<"enroll", n>>].status = "failed"
      BY <2>6 DEF LeftByRetry
    <3>2. <<"enroll", n>> # work[w].job /\ n \in Versions
      BY <1>4, <3>1 DEF ProfileInv
    <3>3. jobs'[<<"enroll", n>>] = jobs[<<"enroll", n>>]
      <4>1. CASE n # v
        BY <1>15, <2>3, <3>2, <4>1
      <4>2. CASE n = v
        BY <1>8, <2>3, <3>2, <4>2
      <4> QED
        BY <4>1, <4>2
    <3>4. n \in abandoned'
      BY <3>1 DEF FinishFaceJob
    <3> QED
      BY <1>9, <3>1, <3>3, <3>4 DEF LeftByRetry
  <2>7. CASE Accounted(x)
    <3>1. CASE x = profile.person
      BY <1>9, <3>1 DEF Accounted
    <3> QED
      BY <2>1, <2>4, <2>5, <2>7, <3>1 DEF Accounted
  <2> QED
    BY <2>2, <2>6, <2>7
<1> QED
  BY <1>13, <1>14, <1>18, <1>19 DEF FaceInv

LEMMA FaceStepFace ==
  ASSUME ProfileInv, ProfileInv', UploadsInv, WorkInv, LeaseInv, FaceInv, RowsKeep, ~Stalls, FaceNext
  PROVE  FaceInv'
<1>1. ASSUME Elsewhere, UNCHANGED faceVars PROVE FaceInv'
  BY <1>1, FaceKept DEF faceVars
<1>2. CASE OwnerOrPurge
  BY <1>2, OwnerFace
<1>3. ASSUME NEW w \in Workers, FaceJobStep(w) PROVE FaceInv'
  BY <1>3, EnrollStartFace, EnrollPersonFace, ActivateFace, DiscardFace, DropPersonFace, RevokeStartFace,
     RevokeCommitFace, CleanupStartFace, RejectSamplesFace, EraseUploadFace, CleanSamplesFace,
     ErasedAllFace, FinishFace DEF FaceJobStep
<1>4. ASSUME NEW w \in Workers, FaceStepFails(w) \/ FaceCrash(w) PROVE FaceInv'
  <2>1. Elsewhere
    BY <1>4, QueueElsewhere DEF FaceStepFails, FaceCrash
  <2> QED
    BY <1>1, <1>4, <2>1 DEF FaceStepFails, FaceCrash
<1>5. ASSUME NEW w \in Workers, (\E j \in FaceJobs : ClaimJob(w, j)) \/ TryLock(w), UNCHANGED faceVars
      PROVE  FaceInv'
  <2>1. Elsewhere
    BY <1>5, QueueElsewhere, FaceAssumption
  <2> QED
    BY <1>1, <1>5, <2>1
<1>6. ASSUME UNCHANGED <<jobs, work, faceVars>> PROVE FaceInv'
  <2>1. Elsewhere
    BY <1>6, RowsElsewhere
  <2> QED
    BY <1>1, <1>6, <2>1
<1>7. ASSUME NEW j \in FaceJobs, LeaseExpires(j), UNCHANGED faceVars PROVE FaceInv'
  <2>1. Elsewhere
    BY <1>7, ExpiryElsewhere, FaceAssumption
  <2> QED
    BY <1>1, <1>7, <2>1
<1> QED
  BY <1>2, <1>3, <1>4, <1>5, <1>6, <1>7 DEF FaceNext, SessionLost, jobVars

\* What a step of the pocket means for the jobs.
LEMMA PhotoStepLease ==
  ASSUME WorkInv, PhotosInv, LeaseInv, ~Stalls, PhotoNext PROVE LeaseInv'
<1>1. ASSUME NEW Q \in SUBSET JobIds, JobsNext(Q, Busy) \/ JobsNext(Q, Calm) \/ Quiet PROVE LeaseInv'
  <2>1. Calm \in SUBSET Busy /\ Busy \in SUBSET Busy
    BY DEF Calm
  <2> QED
    BY <1>1, <2>1, StepLease
<1>2. {} \in SUBSET JobIds
  OBVIOUS
<1>3. ASSUME PhotoRest PROVE LeaseInv'
  BY <1>1, <1>2, <1>3, RestJobs
<1>4. ASSUME NEW j \in PhotoJobs, Queue(j), UNCHANGED <<work, jobLock>> PROVE LeaseInv'
  <2>1. {j} \in SUBSET JobIds
    BY PhotoAssumption
  <2>2. JobsNext({j}, Calm)
    BY <1>4 DEF JobsNext, Queue
  <2> QED
    BY <1>1, <2>1, <2>2
<1>5. CASE PocketRequest \/ PhotoPurge
  <2>1. /\ \A n \in Recognitions : <<"recognize", n>> \in PhotoJobs
        /\ \A p \in PhotoIds : <<"delete", p>> \in PhotoJobs
    BY DEF PhotoJobs
  <2>2. UNCHANGED <<jobs, work, jobLock>> => LeaseInv'
    BY <1>3 DEF PhotoRest, Quiet
  <2>3. \A n \in Recognitions : RetryRecognition(n) => LeaseInv'
    BY <1>3 DEF PhotoRest
  <2> QED
    BY <1>4, <1>5, <2>1, <2>2, <2>3 DEF PocketRequest, PhotoPurge, AddPhotos, StartRecognition, DeletePhoto,
       RetentionExpires, LeaveDraft, PurgePhoto, PurgeMatch, jobVars
<1>6. ASSUME NEW w \in Workers, PhotoJobStep(w) PROVE LeaseInv'
  <2>1. ASSUME NEW n \in Recognitions,
               \/ RecognizeStart(w, n) \/ RecognizeEnd(w, n)
               \/ \E p \in PhotoIds : \/ RecognizeNext(w, n, p) \/ RecognizeFails(w, n, p)
                                      \/ RecognizeSave(w, n, p)
        PROVE  LeaseInv'
    BY <1>1, <1>2, <2>1, RecognitionJobs
  <2>2. ASSUME NEW p \in PhotoIds, DeletePhotoJob(w, p) PROVE LeaseInv'
    BY <1>1, <1>2, <2>2, DeletionJobs
  <2>3. CASE work[w].job \in PhotoJobs /\ FinishJob(w)
    BY <1>3, <2>3 DEF PhotoRest
  <2> QED
    BY <1>6, <2>1, <2>2, <2>3 DEF PhotoJobStep
<1>7. ASSUME \/ \E w \in Workers : \/ PhotoStepFails(w) \/ PhotoCrash(w) \/ TryLock(w)
                                   \/ \E j \in PhotoJobs : ClaimJob(w, j)
             \/ \E j \in PhotoJobs : LeaseExpires(j)
             \/ UNCHANGED <<jobs, work, jobLock>>
      PROVE  LeaseInv'
  BY <1>3, <1>7 DEF PhotoRest, Quiet
<1> QED
  BY <1>5, <1>6, <1>7 DEF PhotoNext, SessionLost, jobVars

ExclusiveInv == AssetsInv /\ LeaseInv /\ FaceInv

LEMMA ExclusiveInit == AssetsInit => ExclusiveInv
<1> SUFFICES ASSUME AssetsInit PROVE LeaseInv /\ FaceInv
  BY AssetsInitInv DEF ExclusiveInv
<1>1. FaceInit /\ JobsInit
  BY DEF AssetsInit, FaceInit
<1>2. \A w \in Workers : work[w].pc = "idle"
  BY <1>1, IdlePlace DEF JobsInit
<1>3. LeaseInv
  BY <1>1, <1>2 DEF JobsInit, LeaseInv, Running
<1>4. \A j \in FaceJobs : jobs[j].status = "none"
  BY <1>1, FaceAssumption DEF JobsInit, NoJob
<1>5. SamplesInv /\ ErasedInv /\ ActivePersonExists /\ FacesAccounted
  <2>1. profile.status = "none" /\ profile.version = 0 /\ profile.person = 0 /\ persons = {}
    BY <1>1 DEF FaceInit
  <2>2. [version |-> 0, status |-> "none"] \in SampleRow
    BY FaceAssumption DEF SampleRow
  <2>3. \A u \in SampleUploads : samples[u].version = 0
    BY <1>1 DEF FaceInit
  <2>4. samples \in [SampleUploads -> SampleRow]
    BY <1>1, <2>2 DEF FaceInit
  <2> QED
    BY <2>1, <2>3, <2>4 DEF SamplesInv, ErasedInv, ActivePersonExists, FacesAccounted
<1>6. FaceRowsInv
  BY <1>4, AboutFace DEF FaceRowsInv, JobsAbout
<1>7. PlacesInv
  BY <1>2 DEF PlacesInv, PlaceOK, AtHome, Knows
<1> QED
  BY <1>3, <1>5, <1>6, <1>7 DEF FaceInv

LEMMA ExclusiveStep == ~Stalls /\ ExclusiveInv /\ [AssetsNext]_assetVars => ExclusiveInv'
<1> SUFFICES ASSUME ~Stalls, ExclusiveInv, [AssetsNext]_assetVars PROVE ExclusiveInv'
  OBVIOUS
<1> USE DEF ExclusiveInv
<1>1. AssetsInv'
  BY AssetsStepInv
<1>2. UploadsInv /\ ProfileInv /\ ProfileInv' /\ WorkInv /\ PhotosInv /\ RowsKeep
  BY <1>1, StepUploads, UploadsStepInv DEF AssetsInv
<1>3. CASE FaceNext
  <2>1. FaceJobs \in SUBSET JobIds /\ Calm \in SUBSET Busy
    BY FaceAssumption DEF Calm
  <2>2. LeaseInv'
    BY <1>2, <1>3, <2>1, FaceStepJobs, StepLease
  <2> QED
    BY <1>1, <1>2, <1>3, <2>2, FaceStepFace
<1>4. CASE PhotoNext /\ UNCHANGED faceVars
  <2>1. FaceInv'
    BY <1>2, <1>4, PhotoElsewhere, FaceKept DEF faceVars
  <2> QED
    BY <1>1, <1>2, <1>4, <2>1, PhotoStepLease
<1>5. CASE UNCHANGED assetVars
  <2>1. UNCHANGED <<jobs, work, jobLock, faceVars>>
    BY <1>5 DEF assetVars, jobVars
  <2>2. Elsewhere
    BY <2>1, RowsElsewhere
  <2>3. FaceInv'
    BY <1>2, <2>1, <2>2, FaceKept DEF faceVars
  <2>4. LeaseInv'
    BY <2>1 DEF LeaseInv, Running
  <2> QED
    BY <1>1, <2>3, <2>4
<1> QED
  BY <1>3, <1>4, <1>5 DEF AssetsNext

LEMMA ExclusiveAlways == ASSUME ~Stalls PROVE AssetsSpec => []ExclusiveInv
<1>1. ExclusiveInv /\ [AssetsNext]_assetVars => ExclusiveInv'
  BY ExclusiveStep
<1> QED
  BY <1>1, ExclusiveInit, PTL DEF AssetsSpec

\* Once the service says the profile is revoked, the provider keeps no person of it
\* and the bucket no sample of it.
THEOREM RevocationErases == ASSUME ~Stalls PROVE AssetsSpec => []RevokedMeansErased
<1>1. ExclusiveInv => RevokedMeansErased
  <2>1. \A u \in SampleUploads : u \in UploadIds
    BY UploadsAssumption
  <2> QED
    BY <2>1 DEF ExclusiveInv, AssetsInv, UploadsInv, DeletedIsGone, FaceInv, ErasedInv, RevokedMeansErased
<1> QED
  BY <1>1, ExclusiveAlways, PTL

\* A profile that takes part in recognition has its person at the provider.
THEOREM PersonInUseExists == ASSUME ~Stalls PROVE AssetsSpec => []ActivePersonExists
<1>1. ExclusiveInv => ActivePersonExists
  BY DEF ExclusiveInv, FaceInv
<1> QED
  BY <1>1, ExclusiveAlways, PTL

\* Every person at the provider is in use or about to be deleted, so that a cleanup
\* that has succeeded has left none; except for those of an enrolment that was
\* retried after its cleanup was done and gave up again.
THEOREM PersonsAccounted == ASSUME ~Stalls PROVE AssetsSpec => []FacesAccounted
<1>1. ExclusiveInv => FacesAccounted
  BY DEF ExclusiveInv, FaceInv
<1> QED
  BY <1>1, ExclusiveAlways, PTL

=============================================================================
