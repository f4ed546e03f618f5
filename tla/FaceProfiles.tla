---------------------------- MODULE FaceProfiles ----------------------------
(***************************************************************************)
(* The face profile of one user (assets.go, worker.go): its row, its       *)
(* samples, the persons the face provider keeps for it, and the jobs that  *)
(* enrol, revoke and clean up, with the owner, the job workers and Purge   *)
(* acting at once.                                                         *)
(*                                                                         *)
(* Every enrolment draws a fresh person id and a new enrollment_version;   *)
(* here the person is named by that version.  All jobs of the profile run  *)
(* under its advisory lock, one at a time; requests of the owner and Purge *)
(* do not take that lock.                                                  *)
(*                                                                         *)
(* Status: none -> pending -> active, or failed; revoking -> revoked from  *)
(* any of them; a new enrolment leaves revoked and failed, and replaces an *)
(* active profile while that stays active.                                 *)
(***************************************************************************)
EXTENDS AsyncJobs, Uploads

CONSTANTS MaxVersion,    \* bound: enrolments and revocations
          SampleSets     \* bound: the sets of uploads an enrolment is made with

Versions == 1..MaxVersion

FaceJobs == {"enroll", "revoke", "cleanup"} \X Versions

ASSUME FaceAssumption ==
  /\ MaxVersion \in Nat
  /\ SampleSets \subseteq (SUBSET SampleUploads) \ {{}}
  /\ FaceJobs \subseteq JobIds
  /\ \A j \in FaceJobs : j \in Privacy <=> j[1] # "enroll"
  /\ \A i, j \in FaceJobs : LockOf[i] = LockOf[j]
  /\ Workers \subseteq Erasers \ {Purger}

VARIABLES profile,      \* the row of face_profile
          samples,      \* samples[u]: the face_sample of upload u
          persons,      \* versions whose person exists at the provider
          expiring,     \* revision of the expired profile Purge is about to revoke, or 0
          abandoned     \* history, for FacesAccounted alone: the versions whose enrolment
                        \* has given up when their cleanup was already done

faceVars == <<profile, samples, persons, expiring, abandoned>>

ProfileRow ==
  [status : {"none", "pending", "active", "failed", "revoking", "revoked"},
   revision : Nat, version : 0..MaxVersion,
   person : 0..MaxVersion,          \* person_id, by the version that drew it
   consentExpired : BOOLEAN]

SampleRow == [version : 0..MaxVersion,
              status : {"none", "pending", "active", "deleting", "deleted", "rejected"}]

\* The uploads of the enrolment with version v (payload.UploadIDs).
SamplesOf(v) == {u \in SampleUploads : samples[u].version = v}

\* Its samples, given a new status.
Marked(U, status) ==
  [u \in SampleUploads |-> IF u \in U THEN [samples[u] EXCEPT !.status = status]
                           ELSE samples[u]]

Superseded(v) == profile.status \in {"revoking", "revoked"} \/ profile.version # v

-----------------------------------------------------------------------------
(* The owner and Purge.                                                    *)

\* Enroll, with replace or without: a profile that is being revoked refuses, one
\* that is active or pending is only replaced under the revision the owner read.
Enroll(U) ==
  /\ profile.version < MaxVersion
  /\ \A u \in U : Bindable(u)
  /\ profile.status # "revoking"
  /\ profile' = [profile EXCEPT !.status = IF @ = "active" THEN @ ELSE "pending",
                                !.revision = @ + 1, !.version = @ + 1,
                                !.consentExpired = FALSE]
  /\ samples' = [u \in SampleUploads |->
                   IF u \in U THEN [version |-> profile.version + 1, status |-> "pending"]
                   ELSE samples[u]]
  /\ uploads' = Bound(U)
  /\ Queue(<<"enroll", profile.version + 1>>)
  /\ UNCHANGED <<work, jobLock, faults, objects, uploadLock, puts, persons, expiring, abandoned>>

\* What a revocation writes: the profile is revoking, the job is queued.
Revoked ==
  /\ profile' = [profile EXCEPT !.status = "revoking", !.revision = @ + 1, !.version = @ + 1]
  /\ Queue(<<"revoke", profile.version + 1>>)

\* Revoke, by the owner, under the revision just read.
Revoke ==
  /\ profile.version < MaxVersion
  /\ profile.status # "none"
  /\ Revoked
  /\ UNCHANGED <<work, jobLock, faults, uploadVars, samples, persons, expiring, abandoned>>

\* 365 days after the owner consented.
ConsentExpires ==
  /\ profile.status # "none" /\ ~profile.consentExpired
  /\ profile' = [profile EXCEPT !.consentExpired = TRUE]
  /\ UNCHANGED <<jobVars, uploadVars, samples, persons, expiring, abandoned>>

\* Purge reads the profiles whose consent has expired ...
PurgeReads ==
  /\ expiring = 0
  /\ profile.version < MaxVersion
  /\ profile.status \in {"active", "pending", "failed"} /\ profile.consentExpired
  /\ expiring' = profile.revision
  /\ UNCHANGED <<jobVars, uploadVars, profile, samples, persons, abandoned>>

\* Mutant of PurgeRevokes: whatever was read is revoked.
PurgeRevokesAnyRevision ==
  /\ expiring # 0
  /\ expiring' = 0
  /\ profile.version < MaxVersion
  /\ Revoked
  /\ UNCHANGED <<work, jobLock, faults, uploadVars, samples, persons, abandoned>>

\* ... and revokes each, unless it has changed meanwhile.
PurgeRevokes ==
  /\ expiring # 0
  /\ expiring' = 0
  /\ IF profile.revision = expiring THEN Revoked ELSE UNCHANGED <<profile, jobs>>
  /\ UNCHANGED <<work, jobLock, faults, uploadVars, samples, persons, abandoned>>

\* Retry, with retryAllowed, of a job that gave up.
RetryEnroll(v) ==
  /\ jobs[<<"enroll", v>>].status = "failed"
  /\ ~Superseded(v)
  /\ jobs' = Retried(<<"enroll", v>>)
  /\ UNCHANGED <<work, jobLock, faults, uploadVars, faceVars>>

-----------------------------------------------------------------------------
(* The jobs.  work[w].left holds what the loops of a job have yet to do:   *)
(* <<"person", v>> is a Faces.Delete, <<"upload", u>> a deleteUpload.      *)

\* The version worker w works for, if it is at step pc of a job of this kind.
AtStep(w, kind, pc, v) == work[w].pc = pc /\ work[w].job = <<kind, v>>

\* Worker w goes to step pc with this left to do.
GotoWith(w, pc, left) == work' = [work EXCEPT ![w] = [@ EXCEPT !.pc = pc, !.left = left]]

\* finishEnrollmentCleanup, first query: the persons of older samples, of which
\* S is the state, that are not deleted yet.
StartCleanup(w, v, S) ==
  GotoWith(w, "clean", {<<"person", S[u].version>> :
                          u \in {t \in SampleUploads : S[t].version \in 1..(v - 1)
                                                      /\ S[t].status # "deleted"}})

\* Mutant of EnrollStart: an enrolment that was superseded removes its person.
EnrollStartDiscards(w, v) ==
  /\ AtStep(w, "enroll", "start", v)
  /\ \/ Superseded(v) /\ Goto(w, "discard")
     \/ /\ ~Superseded(v) /\ profile.person = v /\ profile.status = "active"
        /\ StartCleanup(w, v, samples)
     \/ /\ ~Superseded(v) /\ ~(profile.person = v /\ profile.status = "active")
        /\ Goto(w, "enroll")
  /\ UNCHANGED <<jobs, jobLock, faults, uploadVars, faceVars>>

\* enrollJob reads the profile: the version may have been superseded, or the job
\* may have activated the profile in an earlier attempt.
EnrollStart(w, v) ==
  /\ AtStep(w, "enroll", "start", v)
  /\ \/ /\ profile.person = v
        /\ Superseded(v) \/ profile.status = "active"
        /\ StartCleanup(w, v, samples)
     \/ Superseded(v) /\ profile.person # v /\ Goto(w, "discard")
     \/ /\ ~Superseded(v)
        /\ ~(profile.person = v /\ profile.status = "active")
        /\ Goto(w, "enroll")
  /\ UNCHANGED <<jobs, jobLock, faults, uploadVars, faceVars>>

\* enrollJob reads the samples and Faces.Enroll creates the person.  A sample that
\* was deleted, or that the provider rejects, is an error; the person that an
\* earlier attempt created may then still exist, be gone, or exist again.
EnrollPerson(w, v) ==
  /\ AtStep(w, "enroll", "enroll", v)
  /\ \/ /\ \A u \in SamplesOf(v) : Stored(u) /\ u \in objects
        /\ \/ persons' = persons \cup {v} /\ Goto(w, "activate")
           \/ /\ persons' \in {persons, persons \ {v}, persons \cup {v}}
              /\ Return(w, "retry")
     \/ /\ \E u \in SamplesOf(v) : ~Stored(u) \/ u \notin objects
        /\ Return(w, "retry")
        /\ UNCHANGED persons
  /\ UNCHANGED <<jobs, jobLock, faults, uploadVars, profile, samples, expiring, abandoned>>

Activated(v) ==
  [status |-> "active", revision |-> profile.revision + 1, version |-> profile.version,
   person |-> v, consentExpired |-> FALSE]

\* Mutant of Activate: the profile is not read again.
ActivateUnchecked(w, v) ==
  /\ AtStep(w, "enroll", "activate", v)
  /\ profile' = Activated(v)
  /\ samples' = [u \in SampleUploads |->
                   [samples[u] EXCEPT !.status = IF samples[u].version = 0 THEN "none"
                      ELSE IF samples[u].version = v THEN "active" ELSE "deleting"]]
  /\ StartCleanup(w, v, samples')
  /\ UNCHANGED <<jobs, jobLock, faults, uploadVars, persons, expiring, abandoned>>

\* enrollJob, the transaction: the profile gets the person unless the enrolment
\* was superseded meanwhile.
Activate(w, v) ==
  /\ AtStep(w, "enroll", "activate", v)
  /\ \/ Superseded(v) /\ Goto(w, "discard") /\ UNCHANGED <<profile, samples>>
     \/ /\ ~Superseded(v)
        /\ profile' = Activated(v)
        /\ samples' = [u \in SampleUploads |->
                         [samples[u] EXCEPT !.status = IF samples[u].version = 0 THEN "none"
                            ELSE IF samples[u].version = v THEN "active" ELSE "deleting"]]
        /\ StartCleanup(w, v, samples')
  /\ UNCHANGED <<jobs, jobLock, faults, uploadVars, persons, expiring, abandoned>>

\* enrollJob, superseded: remove the person it has staged.
Discard(w, v) ==
  /\ AtStep(w, "enroll", "discard", v)
  /\ persons' = persons \ {v}
  /\ Return(w, "ok")
  /\ UNCHANGED <<jobs, jobLock, faults, uploadVars, profile, samples, expiring, abandoned>>

\* Faces.Delete in one of the loops.
DropPerson(w, v) ==
  /\ work[w].pc \in {"clean", "revoke"}
  /\ <<"person", v>> \in work[w].left
  /\ persons' = persons \ {v}
  /\ work' = [work EXCEPT ![w].left = @ \ {<<"person", v>>}]
  /\ UNCHANGED <<jobs, jobLock, faults, uploadVars, profile, samples, expiring, abandoned>>

\* finishEnrollmentCleanup: the older samples are deleted; now the uploads.
CleanSamples(w) ==
  /\ work[w].pc = "clean" /\ work[w].left = {}
  /\ LET v == work[w].job[2]
     IN  /\ samples' = Marked({u \in SampleUploads : samples[u].version \in 1..(v - 1)}, "deleted")
         /\ GotoWith(w, "erase", {<<"upload", u>> : u \in SamplesOf(v)})
  /\ UNCHANGED <<jobs, jobLock, faults, uploadVars, profile, persons, expiring, abandoned>>

\* deleteUpload in one of the loops; revokeJob deletes the person of a sample
\* before its upload.
EraseUpload(w, u) ==
  /\ work[w].pc \in {"erase", "revoke"}
  /\ <<"upload", u>> \in work[w].left
  /\ <<"person", samples[u].version>> \notin work[w].left
  /\ \A t \in UploadIds \ {u} : uploadLock[t] # w
  /\ \/ EraseObject(w, u) /\ UNCHANGED work
     \/ /\ EraseRow(w, u) \/ (~Stored(u) /\ UNCHANGED uploadVars)
        /\ work' = [work EXCEPT ![w].left = @ \ {<<"upload", u>>}]
  /\ UNCHANGED <<jobs, jobLock, faults, faceVars>>

ErasedAll(w) ==
  /\ work[w].pc = "erase" /\ work[w].left = {}
  /\ Return(w, "ok")
  /\ UNCHANGED <<jobs, jobLock, faults, uploadVars, faceVars>>

\* Mutant of RevokeStart: only samples the profile still uses are looked at.
RevokeStartActiveOnly(w, v) ==
  /\ AtStep(w, "revoke", "start", v)
  /\ LET S == {u \in SampleUploads : samples[u].status = "active"}
     IN  IF profile.status # "revoking" \/ profile.version # v
         THEN Return(w, "ok")
         ELSE GotoWith(w, "revoke", {<<"person", samples[u].version>> : u \in S}
                                      \cup {<<"upload", u>> : u \in S})
  /\ UNCHANGED <<jobs, jobLock, faults, uploadVars, faceVars>>

\* revokeJob reads the profile and its samples; a later request has a job of its
\* own.
RevokeStart(w, v) ==
  /\ AtStep(w, "revoke", "start", v)
  /\ LET S == {u \in SampleUploads : samples[u].version \in 1..v}
     IN  IF profile.status # "revoking" \/ profile.version # v
         THEN Return(w, "ok")
         ELSE GotoWith(w, "revoke", {<<"person", samples[u].version>> : u \in S}
                                      \cup {<<"upload", u>> : u \in S})
  /\ UNCHANGED <<jobs, jobLock, faults, uploadVars, faceVars>>

\* revokeJob, the closing transaction.
RevokeCommit(w, v) ==
  /\ AtStep(w, "revoke", "revoke", v) /\ work[w].left = {}
  /\ samples' = Marked({u \in SampleUploads : samples[u].version # 0}, "deleted")
  /\ profile' = IF profile.version = v /\ profile.status = "revoking"
                THEN [profile EXCEPT !.status = "revoked", !.person = 0, !.revision = @ + 1]
                ELSE profile
  /\ Return(w, "ok")
  /\ UNCHANGED <<jobs, jobLock, faults, uploadVars, persons, expiring, abandoned>>

\* cleanupEnrollment of an enrolment that gave up: if a retry has activated the
\* profile after all, its old samples are cleaned up instead.
CleanupStart(w, v) ==
  /\ AtStep(w, "cleanup", "start", v)
  /\ IF profile.person = v THEN StartCleanup(w, v, samples) ELSE Goto(w, "reject")
  /\ UNCHANGED <<jobs, jobLock, faults, uploadVars, faceVars>>

\* Mutant of RejectPerson: the cleanup goes on when the provider has not deleted
\* the person.
RejectPersonUnchecked(w, v) ==
  /\ AtStep(w, "cleanup", "reject", v)
  /\ persons' \in {persons, persons \ {v}}
  /\ Goto(w, "rejected")
  /\ UNCHANGED <<jobs, jobLock, faults, uploadVars, profile, samples, expiring, abandoned>>

RejectPerson(w, v) ==
  /\ AtStep(w, "cleanup", "reject", v)
  /\ persons' = persons \ {v}
  /\ Goto(w, "rejected")
  /\ UNCHANGED <<jobs, jobLock, faults, uploadVars, profile, samples, expiring, abandoned>>

RejectSamples(w, v) ==
  /\ AtStep(w, "cleanup", "rejected", v)
  /\ samples' = Marked(SamplesOf(v), "rejected")
  /\ Return(w, "ok")
  /\ UNCHANGED <<jobs, jobLock, faults, uploadVars, profile, persons, expiring, abandoned>>

\* A statement, the bucket or the provider fails under the job.
FaceStepFails(w) ==
  /\ Running(w) /\ work[w].pc # "finish"
  /\ Fault
  /\ Return(w, "retry")
  /\ uploadLock' = UnlockedBy(w)
  /\ UNCHANGED <<jobs, jobLock, uploads, objects, puts, faceVars>>

\* finishJob: an enrolment that gives up queues its cleanup, and its profile has
\* failed unless it is active or superseded.  If the version had been cleaned up
\* before a retry, the row of that cleanup is done and stays so.
FinishFaceJob(w) ==
  /\ work[w].pc = "finish" /\ work[w].job \in FaceJobs
  /\ LET v == work[w].job[2]
     IN  IF work[w].job = <<"enroll", v>> /\ Fenced(w) /\ JobOutcome(w) = "failed"
         THEN /\ jobs' = Queued(FinishedRows(w), <<"cleanup", v>>)
              /\ profile' = IF profile.version = v /\ profile.status = "pending"
                            THEN [profile EXCEPT !.status = "failed"] ELSE profile
              /\ abandoned' = IF jobs[<<"cleanup", v>>].status = "succeeded"
                              THEN abandoned \cup {v} ELSE abandoned
         ELSE jobs' = FinishedRows(w) /\ UNCHANGED <<profile, abandoned>>
  /\ work' = [work EXCEPT ![w] = IdleWorker]
  /\ jobLock' = ReleasedBy(w)
  /\ UNCHANGED <<faults, uploadVars, samples, persons, expiring>>

-----------------------------------------------------------------------------
FaceInit ==
  /\ JobsInit
  /\ UploadsInit
  /\ profile = [status |-> "none", revision |-> 0, version |-> 0, person |-> 0,
                consentExpired |-> FALSE]
  /\ samples = [u \in SampleUploads |-> [version |-> 0, status |-> "none"]]
  /\ persons = {}
  /\ expiring = 0
  /\ abandoned = {}

OwnerOrPurge ==
  \/ \E U \in SampleSets : Enroll(U)
  \/ Revoke
  \/ \E v \in Versions : RetryEnroll(v)
  \/ ConsentExpires
  \/ PurgeReads \/ PurgeRevokes

FaceJobStep(w) ==
  \/ \E v \in Versions : \/ EnrollStart(w, v) \/ EnrollPerson(w, v) \/ Activate(w, v)
                         \/ Discard(w, v) \/ DropPerson(w, v)
                         \/ RevokeStart(w, v) \/ RevokeCommit(w, v)
                         \/ CleanupStart(w, v) \/ RejectPerson(w, v) \/ RejectSamples(w, v)
  \/ \E u \in UploadIds : EraseUpload(w, u)
  \/ CleanSamples(w) \/ ErasedAll(w) \/ FinishFaceJob(w)

FaceCrash(w) ==
  /\ CrashWorker(w)
  /\ uploadLock' = UnlockedBy(w)
  /\ UNCHANGED <<uploads, objects, puts, faceVars>>

FaceNext ==
  \/ OwnerOrPurge
  \/ \E w \in Workers : \/ FaceJobStep(w) \/ FaceStepFails(w) \/ FaceCrash(w)
                        \/ /\ (\E j \in FaceJobs : ClaimJob(w, j)) \/ TryLock(w)
                           /\ UNCHANGED <<uploadVars, faceVars>>
  \/ UploadStep(SampleUploads, TRUE) /\ UNCHANGED <<jobVars, faceVars>>
  \/ PurgeStops /\ Fault /\ UNCHANGED <<jobs, work, jobLock, faceVars>>
  \/ /\ (\E j \in FaceJobs : LeaseExpires(j)) \/ SessionLost
     /\ UNCHANGED <<uploadVars, faceVars>>

fpVars == <<jobVars, uploadVars, faceVars>>

FaceSpec == FaceInit /\ [][FaceNext]_fpVars

-----------------------------------------------------------------------------
(* Correctness.                                                            *)

FaceTypeOK ==
  /\ UploadsTypeOK
  /\ jobs \in [JobIds -> JobRow]
  /\ profile \in ProfileRow
  /\ samples \in [SampleUploads -> SampleRow]
  /\ persons \subseteq Versions
  /\ expiring \in Nat
  /\ abandoned \subseteq Versions

\* Once the service says the profile is revoked, and sets provider_deleted_at, the
\* provider keeps no person of it and the bucket no sample of it, whatever an
\* enrolment that was under way had already sent ("cloud deletion is done by a
\* durable job", docs/west-pocket.md).
RevokedMeansErased ==
  profile.status = "revoked" =>
    persons = {} /\ \A u \in SampleUploads : samples[u].version # 0 => u \notin objects

\* A profile that takes part in recognition has its person at the provider: a
\* stale enrolment or cleanup does not delete the person in use.
ActivePersonExists == profile.status = "active" => profile.person \in persons

Unfinished(j) == jobs[j].status \in {"queued", "running"}

\* A person that is not the profile's own will be deleted: by its own enrolment or
\* cleanup, by the revocation, or by the cleanup after the enrolment that
\* replaced it.
Accounted(v) ==
  \/ v = profile.person
  \/ Unfinished(<<"enroll", v>>) \/ Unfinished(<<"cleanup", v>>)
  \/ profile.status = "revoking" /\ Unfinished(<<"revoke", profile.version>>)
  \/ \E n \in Versions : /\ n > v /\ n = profile.person
                         /\ Unfinished(<<"enroll", n>>) \/ Unfinished(<<"cleanup", n>>)

\* An enrolment that is retried after its version was cleaned up, and gives up
\* again, may leave its own person, or the one it replaced: the queue keeps one
\* cleanup row per version, that row is done, and no cleanup follows.
LeftByRetry(v) ==
  \E n \in abandoned : /\ n = v \/ (n > v /\ n = profile.person)
                       /\ jobs[<<"enroll", n>>].status = "failed"

\* Every person at the provider is in use or about to be deleted, whatever job gave
\* up, was superseded or died half-way; so a cleanup that has succeeded has left
\* none.  Excepted are only the persons of an enrolment that gave up once more
\* after its cleanup was done.
FacesAccounted == \A v \in persons : Accounted(v) \/ LeftByRetry(v)

\* Revocation takes effect at once and for good: an enrolment that was under way
\* never makes a revoking or revoked profile active again.
RevocationHolds ==
  [][profile.status \in {"revoking", "revoked"} => profile'.status # "active"]_fpVars

\* Purge revokes only a profile whose consent has expired, not one whose owner
\* has renewed it since Purge read it.
RenewedConsentSurvives ==
  [][expiring # 0 /\ expiring' = 0 /\ profile'.status # profile.status
       => profile.consentExpired]_fpVars
=============================================================================
