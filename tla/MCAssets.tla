------------------------------ MODULE MCAssets ------------------------------
(***************************************************************************)
(* Instances of Assets for TLC.  The uploads s1 and s2 are face samples,   *)
(* p1 and p2 group photos.                                                 *)
(***************************************************************************)
EXTENDS Assets, FiniteSets, TLC

CONSTANTS s1, s2, p1, p2

AllJobs == FaceJobs \cup PhotoJobs

\* A job locks the profile or the pocket it is about.
ProfileOrPocket == [j \in JobIds |-> IF j \in FaceJobs THEN "profile" ELSE "pocket"]

Deletions == {j \in JobIds : j[1] \in {"revoke", "cleanup", "delete"}}

\* An enrolment is made with one upload, so that there can be two.
OneSampleEach == {{u} : u \in SampleUploads}

\* A behaviour starts with two samples, with two group photos, or with nothing.
StoredBefore == {{}, SampleUploads, PhotoIds}

Symmetry == Permutations(PhotoIds)

Begun(U) == {u \in U : uploads[u].status # "none"}

\* Uploads wait undisturbed for their use ...
UploadsAtRest == \A u \in UploadIds : puts[u] = "idle" /\ ~uploads[u].expired

\* ... and the profile goes through all its versions, using s1 before s2, or two
\* photos are recognised twice.  After a fault no consent and no retention ends in
\* addition, and the pocket stays as it is, with one recognition; draft is left, or a retention ends,
\* not both.
NoneExpired == \A p \in PhotoIds : ~photos[p].expired

ProfileScope ==
  /\ Begun(UploadIds) = SampleUploads /\ UploadsAtRest
  /\ samples[s1].version = 0 => samples[s2].version = 0
  /\ faults > 0 => ~profile.consentExpired /\ expiring = 0

PhotoScope ==
  /\ Begun(UploadIds) = PhotoIds /\ UploadsAtRest
  /\ NoneExpired \/ (faults = 0 /\ draft)
  /\ draft \/ faults = 0
  /\ faults > 0 => requested[2] = {}

\* One upload is stored, stored again, expires and is purged at any moment while
\* the profile is enrolled and revoked, or the photo added and deleted.
UploadScope ==
  /\ Cardinality(Begun(UploadIds)) <= 1
  /\ profile.version <= 2 /\ ~profile.consentExpired
  /\ requested[1] = {} /\ draft

InScope ==
  \/ Begun(PhotoIds) = {} /\ draft /\ (ProfileScope \/ UploadScope)
  \/ profile.version = 0 /\ (PhotoScope \/ (Begun(SampleUploads) = {} /\ UploadScope))

MCSpec == AssetsInit /\ [][AssetsNext /\ InScope']_assetVars

\* For liveness: one sample or one photo, stored before.
OneEach == {{s1}, {p1}}

LiveSpec == AssetsInit /\ [][AssetsNext /\ UploadsAtRest']_assetVars /\ AssetsFairness
=============================================================================
