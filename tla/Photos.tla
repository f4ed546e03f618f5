------------------------------- MODULE Photos -------------------------------
(***************************************************************************)
(* The group photos of one pocket (assets.go, worker.go): added and        *)
(* deleted by the owner, recognised and deleted by jobs, purged when their *)
(* retention is over, while the pocket may leave "draft" at any moment.    *)
(*                                                                         *)
(* A photo is named by the upload it was made from.  All jobs of the       *)
(* pocket run under its advisory lock; requests and Purge do not.          *)
(***************************************************************************)
EXTENDS AsyncJobs, Uploads

CONSTANT MaxRecognitions  \* bound: StartRecognition requests

PhotoIds == UploadIds \ SampleUploads

Recognitions == 1..MaxRecognitions

PhotoJobs == ({"recognize"} \X Recognitions) \cup ({"delete"} \X PhotoIds)

ASSUME PhotoAssumption ==
  /\ MaxRecognitions \in Nat
  /\ PhotoJobs \subseteq JobIds
  /\ \A j \in PhotoJobs : j \in Privacy <=> j[1] = "delete"
  /\ Workers \subseteq Erasers \ {Purger}

VARIABLES photos,       \* photos[p]: the row of pocket_photo
          matches,      \* matches[p]: recognitions of which p has face_match rows
          requested,    \* requested[n]: the photos of recognition n (payload)
          draft         \* pocket.status = "draft"

photoVars == <<photos, matches, requested, draft>>

PhotoRow == [status : {"none", "uploaded", "processing", "ready", "failed", "deleting", "deleted"},
             job : 0..MaxRecognitions,    \* latest_job_id, 0 for NULL
             expired : BOOLEAN]           \* retention_until is past

Gone == {"none", "deleting", "deleted"}

-----------------------------------------------------------------------------
(* The owner and Purge.                                                    *)

\* AddPhotos, under the revision the owner just read.  Ten photos at most: more
\* than there are uploads here.
AddPhotos(U) ==
  /\ draft
  /\ U # {} /\ \A u \in U : Bindable(u)
  /\ photos' = [p \in PhotoIds |-> IF p \in U THEN [photos[p] EXCEPT !.status = "uploaded"]
                                   ELSE photos[p]]
  /\ uploads' = Bound(U)
  /\ UNCHANGED <<jobVars, objects, uploadLock, puts, matches, requested, draft>>

\* StartRecognition: the photos are handed to a new job.
StartRecognition(n, P) ==
  /\ draft
  /\ P # {} /\ \A p \in P : photos[p].status \notin Gone /\ ~photos[p].expired
  /\ jobs[<<"recognize", n>>].status = "none"
  /\ \A m \in Recognitions : m < n => jobs[<<"recognize", m>>].status # "none"
  /\ Queue(<<"recognize", n>>)
  /\ requested' = [requested EXCEPT ![n] = P]
  /\ photos' = [p \in PhotoIds |->
                  IF p \in P THEN [photos[p] EXCEPT !.status = "processing", !.job = n]
                  ELSE photos[p]]
  /\ UNCHANGED <<work, jobLock, faults, uploadVars, matches, draft>>

\* DeletePhoto, by the owner or, past its retention, by Purge: results go at once,
\* the photograph by a job.
DeletePhoto(p) ==
  /\ photos[p].status \notin {"none", "deleted"}
  /\ photos' = [photos EXCEPT ![p].status = "deleting", ![p].job = 0]
  /\ matches' = [matches EXCEPT ![p] = {}]
  /\ Queue(<<"delete", p>>)
  /\ UNCHANGED <<work, jobLock, faults, uploadVars, requested, draft>>

PurgePhoto(p) == photos[p].status \notin Gone /\ photos[p].expired /\ DeletePhoto(p)

\* Purge: results that are 24 hours old.
PurgeMatch(p, n) ==
  /\ n \in matches[p]
  /\ matches' = [matches EXCEPT ![p] = @ \ {n}]
  /\ UNCHANGED <<jobVars, uploadVars, photos, requested, draft>>

\* Retry, with retryAllowed, of a recognition that gave up.
RetryRecognition(n) ==
  /\ draft
  /\ jobs[<<"recognize", n>>].status = "failed"
  /\ jobs' = Retried(<<"recognize", n>>)
  /\ UNCHANGED <<work, jobLock, faults, uploadVars, photoVars>>

\* The owner publishes or cancels the pocket.
LeaveDraft ==
  /\ draft
  /\ draft' = FALSE
  /\ UNCHANGED <<jobVars, uploadVars, photos, matches, requested>>

RetentionExpires(p) ==
  /\ photos[p].status \notin {"none", "deleted"} /\ ~photos[p].expired
  /\ photos' = [photos EXCEPT ![p].expired = TRUE]
  /\ UNCHANGED <<jobVars, uploadVars, matches, requested, draft>>

-----------------------------------------------------------------------------
(* The jobs.                                                               *)

Recognizing(w, pc, n) == work[w].pc = pc /\ work[w].job = <<"recognize", n>>

RecognizeStart(w, n) ==
  /\ Recognizing(w, "start", n)
  /\ work' = [work EXCEPT ![w] = [@ EXCEPT !.pc = "recognize", !.verdict = "ok",
                                           !.left = {<<"photo", p>> : p \in requested[n]}]]
  /\ UNCHANGED <<jobs, jobLock, faults, uploadVars, photoVars>>

\* Photo p has been deleted, has expired, or was handed to a later job.
Withdrawn(p, n) == photos[p].job # n \/ photos[p].status \in Gone \/ photos[p].expired

\* recognizeJob reads the next photo, unless one is being looked at.  If the
\* pocket has left draft the job ends there, a success.
RecognizeNext(w, n, p) ==
  /\ Recognizing(w, "recognize", n)
  /\ <<"photo", p>> \in work[w].left
  /\ \A q \in PhotoIds : <<"look", q>> \notin work[w].left
  /\ LET rest == work[w].left \ {<<"photo", p>>}
     IN  IF Withdrawn(p, n) \/ photos[p].status = "ready"
         THEN work' = [work EXCEPT ![w].left = rest]
         ELSE IF draft THEN work' = [work EXCEPT ![w].left = rest \cup {<<"look", p>>}]
                       ELSE Return(w, "ok")
  /\ UNCHANGED <<jobs, jobLock, faults, uploadVars, photoVars>>

Looking(w, n, p) == Recognizing(w, "recognize", n) /\ <<"look", p>> \in work[w].left

\* Mutant of RecognizeFails: the failure is written whatever became of the photo.
RecognizeFailsUnguarded(w, n, p) ==
  /\ Looking(w, n, p)
  /\ photos' = [photos EXCEPT ![p].status = "failed"]
  /\ work' = [work EXCEPT ![w].left = @ \ {<<"look", p>>}, ![w].verdict = "retry"]
  /\ UNCHANGED <<jobs, jobLock, faults, uploadVars, matches, requested, draft>>

\* The bucket or the provider fails, or there is no face: the photo has failed, the
\* job goes on and ends with the error.
RecognizeFails(w, n, p) ==
  /\ Looking(w, n, p)
  /\ photos' = IF photos[p].job = n /\ photos[p].status \notin Gone
               THEN [photos EXCEPT ![p].status = "failed"] ELSE photos
  /\ work' = [work EXCEPT ![w].left = @ \ {<<"look", p>>}, ![w].verdict = "retry"]
  /\ UNCHANGED <<jobs, jobLock, faults, uploadVars, matches, requested, draft>>

\* Mutant of RecognizeSave: the result is stored before the photo is read again.
RecognizeSaveEager(w, n, p) ==
  /\ Looking(w, n, p)
  /\ p \in objects
  /\ photos' = IF Withdrawn(p, n) THEN photos ELSE [photos EXCEPT ![p].status = "ready"]
  /\ matches' = [matches EXCEPT ![p] = @ \cup {n}]
  /\ work' = [work EXCEPT ![w].left = @ \ {<<"look", p>>}]
  /\ UNCHANGED <<jobs, jobLock, faults, uploadVars, requested, draft>>

\* The faces were found; the photograph was there, since deletions wait for the
\* pocket's lock.  The result is stored unless the photo was withdrawn meanwhile.
RecognizeSave(w, n, p) ==
  /\ Looking(w, n, p)
  /\ p \in objects
  /\ IF Withdrawn(p, n)
     THEN UNCHANGED <<photos, matches>>
     ELSE /\ photos' = [photos EXCEPT ![p].status = "ready"]
          /\ matches' = [matches EXCEPT ![p] = @ \cup {n}]
  /\ work' = [work EXCEPT ![w].left = @ \ {<<"look", p>>}]
  /\ UNCHANGED <<jobs, jobLock, faults, uploadVars, requested, draft>>

\* recognizeJob ends with the last error, if there was one.
RecognizeEnd(w, n) ==
  /\ Recognizing(w, "recognize", n) /\ work[w].left = {}
  /\ Goto(w, "finish")
  /\ UNCHANGED <<jobs, jobLock, faults, uploadVars, photoVars>>

\* deletePhotosJob: deleteUpload, then the row.
DeletePhotoJob(w, p) ==
  /\ work[w].job = <<"delete", p>> /\ work[w].pc \in {"start", "erased"}
  /\ \/ /\ work[w].pc = "start"
        /\ \/ EraseObject(w, p) /\ UNCHANGED work
           \/ EraseRow(w, p) /\ Goto(w, "erased")
           \/ ~Stored(p) /\ Goto(w, "erased") /\ UNCHANGED uploadVars
        /\ UNCHANGED photos
     \/ /\ work[w].pc = "erased"
        /\ photos' = [photos EXCEPT ![p].status = "deleted", ![p].job = 0]
        /\ Return(w, "ok")
        /\ UNCHANGED uploadVars
  /\ UNCHANGED <<jobs, jobLock, faults, matches, requested, draft>>

\* A statement or the bucket fails under the job.
PhotoStepFails(w) ==
  /\ Running(w) /\ work[w].pc # "finish"
  /\ Fault
  /\ Return(w, "retry")
  /\ uploadLock' = UnlockedBy(w)
  /\ UNCHANGED <<jobs, jobLock, uploads, objects, puts, photoVars>>

-----------------------------------------------------------------------------
PhotoInit ==
  /\ JobsInit
  /\ UploadsInit
  /\ photos = [p \in PhotoIds |-> [status |-> "none", job |-> 0, expired |-> FALSE]]
  /\ matches = [p \in PhotoIds |-> {}]
  /\ requested = [n \in Recognitions |-> {}]
  /\ draft = TRUE

PocketRequest ==
  \/ \E U \in SUBSET PhotoIds : AddPhotos(U)
  \/ \E n \in Recognitions, P \in SUBSET PhotoIds : StartRecognition(n, P)
  \/ \E n \in Recognitions : RetryRecognition(n)
  \/ \E p \in PhotoIds : DeletePhoto(p) \/ RetentionExpires(p)
  \/ LeaveDraft

PhotoPurge ==
  \E p \in PhotoIds : PurgePhoto(p) \/ \E n \in Recognitions : PurgeMatch(p, n)

PhotoJobStep(w) ==
  \/ \E n \in Recognitions :
       \/ RecognizeStart(w, n) \/ RecognizeEnd(w, n)
       \/ \E p \in PhotoIds : \/ RecognizeNext(w, n, p) \/ RecognizeFails(w, n, p)
                              \/ RecognizeSave(w, n, p)
  \/ \E p \in PhotoIds : DeletePhotoJob(w, p)
  \/ work[w].job \in PhotoJobs /\ FinishJob(w) /\ UNCHANGED <<uploadVars, photoVars>>

PhotoCrash(w) ==
  /\ CrashWorker(w)
  /\ uploadLock' = UnlockedBy(w)
  /\ UNCHANGED <<uploads, objects, puts, photoVars>>

PhotoNext ==
  \/ PocketRequest \/ PhotoPurge
  \/ \E w \in Workers : \/ PhotoJobStep(w) \/ PhotoStepFails(w) \/ PhotoCrash(w)
                        \/ /\ (\E j \in PhotoJobs : ClaimJob(w, j)) \/ TryLock(w)
                           /\ UNCHANGED <<uploadVars, photoVars>>
  \/ UploadStep(PhotoIds, draft) /\ UNCHANGED <<jobVars, photoVars>>
  \/ PurgeStops /\ Fault /\ UNCHANGED <<jobs, work, jobLock, photoVars>>
  \/ /\ (\E j \in PhotoJobs : LeaseExpires(j)) \/ SessionLost
     /\ UNCHANGED <<uploadVars, photoVars>>

phVars == <<jobVars, uploadVars, photoVars>>

PhotoSpec == PhotoInit /\ [][PhotoNext]_phVars

-----------------------------------------------------------------------------
(* Correctness.                                                            *)

PhotosTypeOK ==
  /\ photos \in [PhotoIds -> PhotoRow]
  /\ matches \in [PhotoIds -> SUBSET Recognitions]
  /\ requested \in [Recognitions -> SUBSET PhotoIds]
  /\ draft \in BOOLEAN

\* Nothing that was found in a photo outlives the request to delete it, even if a
\* recognition of it was under way when it came; and a photo that is reported as
\* deleted is not in the bucket.
DeletedPhotoGone ==
  \A p \in PhotoIds : /\ photos[p].status \in Gone => matches[p] = {}
                      /\ photos[p].status = "deleted" => p \notin objects

\* A recognition that ends late changes nothing: a photo that is being deleted is
\* not opened again, and a photo becomes ready only with the result of the
\* recognition that was requested last.
LateRecognitionIgnored ==
  [][\A p \in PhotoIds :
       /\ photos[p].status \in {"deleting", "deleted"}
            => photos'[p].status \in {"deleting", "deleted"}
       /\ photos[p].status # "ready" /\ photos'[p].status = "ready"
            => photos'[p].job \in matches'[p]]_phVars
=============================================================================
