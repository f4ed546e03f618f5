------------------------------ MODULE Uploads ------------------------------
(***************************************************************************)
(* The private photographs of the West Pocket service (assets.go,          *)
(* worker.go): a row of westpocket.upload and, beside it, an object in the *)
(* private bucket.  No transaction spans the two.  Upload writes the row   *)
(* first and the object second, deleteUpload removes the object first and  *)
(* marks the row second, and both hold the session advisory lock           *)
(* wp-upload:<id> while they touch the object.                             *)
(*                                                                         *)
(* A client repeats a request under the same request_id: the row is then   *)
(* reused and the object stored again.  The calls of one row are taken one *)
(* at a time; a second call finds the row the first one left.              *)
(***************************************************************************)
CONSTANTS UploadIds,     \* rows of westpocket.upload
          SampleUploads, \* those with purpose face_sample; the rest are group photos
          Erasers,       \* who runs deleteUpload: the job workers and Purge
          Purger,        \* the loop that calls Purge
          Client,        \* holder of an upload's lock: the call that stores it
          Unlocked,      \* nobody holds the lock
          EarlyUploads   \* sets of uploads that may be stored when a behaviour starts

ASSUME UploadsAssumption ==
  /\ SampleUploads \subseteq UploadIds
  /\ Purger \in Erasers
  /\ Client \notin Erasers
  /\ Unlocked \notin Erasers \cup {Client}
  /\ EarlyUploads \subseteq SUBSET UploadIds

VARIABLES uploads,      \* uploads[u]: the row, its times reduced to "expired"
          objects,      \* uploads whose object is in the bucket
          uploadLock,   \* uploadLock[u]: holder of wp-upload:<u>
          puts          \* puts[u]: where the call that stores u is

uploadVars == <<uploads, objects, uploadLock, puts>>

\* deleted_at is set together with status "deleted", and only then.
UploadRow == [status : {"none", "uploading", "ready", "deleted"},
              bound : BOOLEAN, expired : BOOLEAN]

NoUpload == [status |-> "none", bound |-> FALSE, expired |-> FALSE]

Stored(u) == uploads[u].status \in {"uploading", "ready"}

\* Upload up to the end of its transaction: a new row, or the row of an earlier
\* call with this request_id unless it is deleted, bound or expired.  A group
\* photo can only be added to a draft pocket.
RequestUpload(u, draft) ==
  /\ puts[u] = "idle"
  /\ \/ /\ uploads[u].status = "none"
        /\ u \in SampleUploads \/ draft
        /\ uploads' = [uploads EXCEPT ![u].status = "uploading"]
     \/ Stored(u) /\ ~uploads[u].bound /\ ~uploads[u].expired /\ UNCHANGED uploads
  /\ puts' = [puts EXCEPT ![u] = "waiting"]
  /\ UNCHANGED <<objects, uploadLock>>

\* Mutant of Lockable: the call and the deletion do not exclude each other.
LockableAlways(u) == TRUE

\* withUploadLock: pg_advisory_lock would be granted now.
Lockable(u) == uploadLock[u] = Unlocked

\* Upload has the lock and reads the row again.
BeginPut(u) ==
  /\ puts[u] = "waiting"
  /\ Lockable(u)
  /\ IF Stored(u) /\ ~uploads[u].bound /\ ~uploads[u].expired
     THEN /\ puts' = [puts EXCEPT ![u] = "putting"]
          /\ uploadLock' = [uploadLock EXCEPT ![u] = Client]
     ELSE puts' = [puts EXCEPT ![u] = "idle"] /\ UNCHANGED uploadLock
  /\ UNCHANGED <<uploads, objects>>

\* Storage.Put.
Put(u) ==
  /\ puts[u] = "putting"
  /\ objects' = objects \cup {u}
  /\ puts' = [puts EXCEPT ![u] = "stored"]
  /\ UNCHANGED <<uploads, uploadLock>>

\* The row becomes ready and the lock is released.
EndPut(u) ==
  /\ puts[u] = "stored"
  /\ uploads' = [uploads EXCEPT ![u].status = "ready"]
  /\ puts' = [puts EXCEPT ![u] = "idle"]
  /\ uploadLock' = [uploadLock EXCEPT ![u] = Unlocked]
  /\ UNCHANGED objects

\* The bucket or the database fails, or the process dies, before or after the
\* object was stored.
PutFails(u) ==
  /\ puts[u] \in {"putting", "stored"}
  /\ puts' = [puts EXCEPT ![u] = "idle"]
  /\ uploadLock' = [uploadLock EXCEPT ![u] = Unlocked]
  /\ UNCHANGED <<uploads, objects>>

\* uploadTx: these uploads may be bound to a sample or a photo.
Bindable(u) ==
  uploads[u].status = "ready" /\ ~uploads[u].bound /\ ~uploads[u].expired

\* The rows after uploadTx of every upload in U.
Bound(U) == [u \in UploadIds |-> [uploads[u] EXCEPT !.bound = @ \/ u \in U]]

\* 24 hours after the row was written.
UploadExpires(u) ==
  /\ Stored(u) /\ ~uploads[u].expired
  /\ uploads' = [uploads EXCEPT ![u].expired = TRUE]
  /\ UNCHANGED <<objects, uploadLock, puts>>

\* deleteUpload of eraser a: lock, read the row, Storage.Delete.
EraseObject(a, u) ==
  /\ Stored(u)
  /\ Lockable(u)
  /\ objects' = objects \ {u}
  /\ uploadLock' = [uploadLock EXCEPT ![u] = a]
  /\ UNCHANGED <<uploads, puts>>

\* deleteUpload: mark the row, unlock.
EraseRow(a, u) ==
  /\ uploadLock[u] = a
  /\ uploads' = [uploads EXCEPT ![u].status = "deleted"]
  /\ uploadLock' = [uploadLock EXCEPT ![u] = Unlocked]
  /\ UNCHANGED <<objects, puts>>

\* The upload locks after eraser a failed or died.
UnlockedBy(a) == [u \in UploadIds |-> IF uploadLock[u] = a THEN Unlocked ELSE uploadLock[u]]

\* Purge, the uploads: those past expires_at that nothing refers to, and all
\* face samples.  It deletes them one after the other.
PurgeUpload(u) ==
  \/ /\ uploads[u].expired
     /\ ~uploads[u].bound \/ u \in SampleUploads
     /\ \A v \in UploadIds : uploadLock[v] # Purger
     /\ EraseObject(Purger, u)
  \/ EraseRow(Purger, u)

\* Calls that store the uploads U, their expiry, and Purge.
UploadStep(U, draft) ==
  \E u \in U : RequestUpload(u, draft) \/ BeginPut(u) \/ Put(u) \/ EndPut(u) \/ PutFails(u)
             \/ UploadExpires(u) \/ PurgeUpload(u)

\* Purge fails, or its process dies, in the middle of a deletion.
PurgeStops ==
  /\ \E u \in UploadIds : uploadLock[u] = Purger
  /\ uploadLock' = UnlockedBy(Purger)
  /\ UNCHANGED <<uploads, objects, puts>>

UploadsInit ==
  /\ objects \in EarlyUploads
  /\ uploads = [u \in UploadIds |->
                  [NoUpload EXCEPT !.status = IF u \in objects THEN "ready" ELSE "none"]]
  /\ uploadLock = [u \in UploadIds |-> Unlocked]
  /\ puts = [u \in UploadIds |-> "idle"]

UploadsTypeOK ==
  /\ uploads \in [UploadIds -> UploadRow]
  /\ objects \subseteq UploadIds
  /\ uploadLock \in [UploadIds -> Erasers \cup {Client, Unlocked}]
  /\ puts \in [UploadIds -> {"idle", "waiting", "putting", "stored"}]

\* A photograph whose row says it was deleted is not in the bucket any more, and
\* does not come back: a client that repeats its upload while the photograph is
\* being deleted must not store it again behind the deletion (withUploadLock and
\* the second look at deleted_at).
DeletedIsGone == \A u \in UploadIds : uploads[u].status = "deleted" => u \notin objects
=============================================================================
