---------------------------- MODULE ProductImages ----------------------------
(***************************************************************************)
(* Uploads of product images by one user (product_image_upload.go,         *)
(* product_image.go, redis/upload_limiter.go, redis/upload_quota.go): the  *)
(* picture passes a rate limiter, is checked against the day's quota, put  *)
(* into the bucket, charged, probed and answered with its URL.  The quota  *)
(* is read before and charged after the bucket has the picture, by two     *)
(* scripts: uploads at the same time do not see each other.                *)
(*                                                                         *)
(* An upload is named like the object it stores, whose key is random.      *)
(* All its calls use the context of the request: once the client is gone   *)
(* they fail, the clean-up included.                                       *)
(***************************************************************************)
EXTENDS Integers, FiniteSets, Totals

CONSTANTS Pictures,     \* uploads
          Sizes,        \* bytes of a picture after re-encoding
          DailyLimit,   \* quota of a user and day
          WindowLimit,  \* uploads in a window of the limiter
          Concurrent,   \* bound: uploads under way at one time
          MaxDay        \* bound: days

ASSUME ImagesAssumption ==
  /\ IsFiniteSet(Pictures)
  /\ DailyLimit \in Nat /\ WindowLimit \in Nat
  /\ Sizes # {} /\ Sizes \subseteq 1..DailyLimit
  /\ Concurrent \in Nat \ {0} /\ MaxDay \in Nat \ {0}

VARIABLES pictures,     \* pictures[c]: how far upload c is, and its size
          bucket,       \* objects in the bucket
          quota,        \* quota[d]: bytes charged to day d
          today,
          window        \* count under the limiter's key, 0 when it has expired

imageVars == <<pictures, bucket, quota, today, window>>

Days == 1..MaxDay

Ended == {"none", "answered", "refused", "failed", "abandoned"}

PictureRow == [pc : Ended \cup {"read", "allowed", "stored", "charged", "cleanup"},
               size : Sizes \cup {0}, gone : BOOLEAN]

Running == {c \in Pictures : pictures[c].pc \notin Ended}

MoveTo(c, pc) == pictures' = [pictures EXCEPT ![c].pc = pc]

-----------------------------------------------------------------------------
\* Handle: Limiter.Allow counts every request, also one it refuses; Redis may fail.
Request(c) ==
  /\ pictures[c].pc = "none" /\ Cardinality(Running) < Concurrent
  /\ \/ /\ window' = IF window > WindowLimit THEN window ELSE window + 1
        /\ MoveTo(c, IF window < WindowLimit THEN "read" ELSE "refused")
     \/ MoveTo(c, "refused") /\ UNCHANGED window
  /\ UNCHANGED <<bucket, quota, today>>

\* readPicture and ProcessPicture fail ...
Unreadable(c) ==
  /\ pictures[c].pc = "read"
  /\ MoveTo(c, "refused")
  /\ UNCHANGED <<bucket, quota, today, window>>

\* Mutant of Allowed: the picture itself is not counted.
AllowedBefore(n) == quota[today] <= DailyLimit

\* uploadQuotaAllowScript
Allowed(n) == quota[today] + n <= DailyLimit

\* ... or find n bytes; then UploadQuota.Allow, which may fail.
Reserve(c, n) ==
  /\ pictures[c].pc = "read"
  /\ \E pc \in {"refused"} \cup (IF Allowed(n) /\ ~pictures[c].gone THEN {"allowed"} ELSE {}) :
       pictures' = [pictures EXCEPT ![c].pc = pc, ![c].size = n]
  /\ UNCHANGED <<bucket, quota, today, window>>

\* Mutant of PutObject: a Put that fails is taken to have stored nothing.
PutObjectNoCleanup(c) ==
  /\ pictures[c].pc = "allowed"
  /\ \/ ~pictures[c].gone /\ bucket' = bucket \cup {c} /\ MoveTo(c, "stored")
     \/ bucket' \in {bucket, bucket \cup {c}} /\ MoveTo(c, "failed")
  /\ UNCHANGED <<quota, today, window>>

\* Store.Put; after an error the object may be there or not.
PutObject(c) ==
  /\ pictures[c].pc = "allowed"
  /\ \/ ~pictures[c].gone /\ bucket' = bucket \cup {c} /\ MoveTo(c, "stored")
     \/ bucket' \in {bucket, bucket \cup {c}} /\ MoveTo(c, "cleanup")
  /\ UNCHANGED <<quota, today, window>>

\* UploadQuota.Commit, under the key of the day it is called; after an error the
\* bytes may be counted or not.
Commit(c) ==
  /\ pictures[c].pc = "stored"
  /\ LET charged == [quota EXCEPT ![today] = @ + pictures[c].size]
     IN  \/ ~pictures[c].gone /\ quota' = charged /\ MoveTo(c, "charged")
         \/ quota' \in {quota, charged} /\ MoveTo(c, "cleanup")
  /\ UNCHANGED <<bucket, today, window>>

\* PublicURL and ProbePublic: the URL is answered, or the object removed again; the
\* charge stays.
Publish(c) ==
  /\ pictures[c].pc = "charged"
  /\ \/ ~pictures[c].gone /\ MoveTo(c, "answered")
     \/ MoveTo(c, "cleanup")
  /\ UNCHANGED <<bucket, quota, today, window>>

\* Store.Delete; an error is logged, and the object left behind.
Cleanup(c) ==
  /\ pictures[c].pc = "cleanup"
  /\ \/ ~pictures[c].gone /\ bucket' = bucket \ {c} /\ MoveTo(c, "failed")
     \/ MoveTo(c, "abandoned") /\ UNCHANGED bucket
  /\ UNCHANGED <<quota, today, window>>

\* The client disconnects, or the process dies.
ClientGone(c) ==
  /\ c \in Running /\ ~pictures[c].gone
  /\ pictures' = [pictures EXCEPT ![c].gone = TRUE]
  /\ UNCHANGED <<bucket, quota, today, window>>

Died(c) ==
  /\ c \in Running
  /\ MoveTo(c, "abandoned")
  /\ UNCHANGED <<bucket, quota, today, window>>

\* Midnight, with uploads under way.
DayEnds ==
  /\ today < MaxDay
  /\ today' = today + 1
  /\ UNCHANGED <<pictures, bucket, quota, window>>

WindowEnds ==
  /\ window > 0
  /\ window' = 0
  /\ UNCHANGED <<pictures, bucket, quota, today>>

-----------------------------------------------------------------------------
ImagesInit ==
  /\ pictures = [c \in Pictures |-> [pc |-> "none", size |-> 0, gone |-> FALSE]]
  /\ bucket = {}
  /\ quota = [d \in Days |-> 0]
  /\ today = 1
  /\ window = 0

ImagesNext ==
  \/ \E c \in Pictures : \/ Request(c) \/ Unreadable(c) \/ (\E n \in Sizes : Reserve(c, n))
                         \/ PutObject(c) \/ Commit(c) \/ Publish(c) \/ Cleanup(c)
                         \/ ClientGone(c) \/ Died(c)
  \/ DayEnds \/ WindowEnds

ImagesSpec == ImagesInit /\ [][ImagesNext]_imageVars

-----------------------------------------------------------------------------
(* Correctness.                                                            *)

ImagesTypeOK ==
  /\ pictures \in [Pictures -> PictureRow]
  /\ bucket \subseteq Pictures
  /\ quota \in [Days -> Nat]
  /\ today \in Days
  /\ window \in 0..(WindowLimit + 1)

Bytes(S) == Total([c \in S |-> pictures[c].size])

\* A URL that was answered shows a stored picture that has been paid for; an
\* upload that ended with an error, its clean-up done, leaves nothing behind,
\* at whatever step it failed.
AllOrNothing ==
  /\ \A c \in Pictures : /\ pictures[c].pc = "answered" => c \in bucket
                         /\ pictures[c].pc \in {"refused", "failed"} => c \notin bucket
  /\ Bytes({c \in Pictures : pictures[c].pc = "answered"}) <= Total(quota)

LargestSize == CHOOSE n \in Sizes : \A m \in Sizes : m <= n

\* Since the check and the charge are two steps, a day's quota can be exceeded, but
\* only by what other uploads have under way at the same time: a user who uploads
\* one picture after the other stays within it, across midnight too.
QuotaOvershootBounded ==
  \A d \in Days : quota[d] <= DailyLimit + (Concurrent - 1) * LargestSize
=============================================================================
