------------------------------- MODULE Assets -------------------------------
(***************************************************************************)
(* The photographs of the West Pocket service at large: a user's face      *)
(* profile (FaceProfiles) and a pocket's group photos (Photos), on the     *)
(* same job table, job workers, Purge loop, upload table and bucket.       *)
(***************************************************************************)
EXTENDS FaceProfiles, Photos

assetVars == <<jobVars, uploadVars, faceVars, photoVars>>

AssetsInit == FaceInit /\ PhotoInit

AssetsNext ==
  \/ FaceNext /\ UNCHANGED photoVars
  \/ PhotoNext /\ UNCHANGED faceVars

AssetsSpec == AssetsInit /\ [][AssetsNext]_assetVars

\* Run polls the job table every second and calls Purge every minute, and a worker
\* that lives carries on.  Nothing is assumed about which of the waiting jobs is
\* taken first.
Working(w) ==
  \/ FaceJobStep(w) /\ UNCHANGED photoVars
  \/ PhotoJobStep(w) /\ UNCHANGED faceVars
  \/ TryLock(w) /\ UNCHANGED <<uploadVars, faceVars, photoVars>>

Polling ==
  /\ \E w \in Workers, j \in JobIds : ClaimJob(w, j)
  /\ UNCHANGED <<uploadVars, faceVars, photoVars>>

Purging ==
  \/ (PurgeReads \/ PurgeRevokes) /\ UNCHANGED photoVars
  \/ PhotoPurge /\ UNCHANGED faceVars
  \/ (\E u \in UploadIds : PurgeUpload(u)) /\ UNCHANGED <<jobVars, faceVars, photoVars>>

LeaseEnds ==
  /\ \E j \in JobIds : LeaseExpires(j)
  /\ UNCHANGED <<uploadVars, faceVars, photoVars>>

\* A call that holds an upload's lock ends.
Storing ==
  /\ \E u \in UploadIds : Put(u) \/ EndPut(u) \/ PutFails(u)
  /\ UNCHANGED <<jobVars, faceVars, photoVars>>

AssetsFairness ==
  /\ \A w \in Workers : WF_assetVars(Working(w))
  /\ WF_assetVars(Polling)
  /\ WF_assetVars(Purging)
  /\ WF_assetVars(Storing)
  /\ WF_assetVars(LeaseEnds /\ UNCHANGED faults)

AssetsFairSpec == AssetsSpec /\ AssetsFairness

-----------------------------------------------------------------------------
(* Correctness.                                                            *)

AssetsTypeOK == FaceTypeOK /\ PhotosTypeOK

\* What was asked to be deleted will be: the jobs that revoke a profile and delete
\* a photo are tried until they succeed, whatever the provider, the bucket and the
\* workers' processes do meanwhile, and whatever else is queued before them.
DeletionsEnd ==
  /\ profile.status = "revoking" ~> profile.status = "revoked"
  /\ \A p \in PhotoIds : photos[p].status = "deleting" ~> photos[p].status = "deleted"
=============================================================================
