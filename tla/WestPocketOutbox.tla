-------------------------- MODULE WestPocketOutbox --------------------------
(***************************************************************************)
(* The notification outbox of a West Pocket collection (worker.go,         *)
(* queries.go): rows are enqueued when the collection opens, claimed under *)
(* a lease by runNextNotification, sent to Feishu, and updated under the   *)
(* attempt_count of the claim.  Kinds "payment" and "payment_qr" differ    *)
(* only in their text and share one row here; reminders are further rows   *)
(* of the same recipient.                                                  *)
(***************************************************************************)
EXTENDS Integers, FiniteSets

CONSTANTS Owner,            \* the organiser, who receives the summary
          Recipients,       \* the recipients whose notifications are tracked
          MaxReminders,     \* bound: reminder rows of one recipient
          MaxSendAttempts,  \* attempts after which a row is failed (5)
          MaxClaims,        \* bound: claims of one row since it was (re)set
          MaxSends,         \* bound: deliveries in progress at one time
          SendStalls        \* TRUE: a sender may outlive its lease

ASSUME OutboxAssumption ==
  /\ MaxReminders \in Nat
  /\ MaxSendAttempts \in Nat \ {0}
  /\ MaxClaims \in Nat
  /\ MaxSends \in Nat
  /\ SendStalls \in BOOLEAN

VARIABLES notes,            \* notes[k]: the outbox row with key k
          sends             \* deliveries in progress

noteVars == <<notes, sends>>

\* Sequence 0 is the payment notice (or the owner's summary).
NoteKeys == {<<r, n>> : r \in Recipients, n \in 0..MaxReminders}

NoteStatuses == {"none", "pending", "sending", "retrying", "sent", "failed", "cancelled"}

NoteRow == [status : NoteStatuses, attempt : 0..MaxClaims, expired : BOOLEAN]

NoNote == [status |-> "none", attempt |-> 0, expired |-> FALSE]

Fresh == [status |-> "pending", attempt |-> 0, expired |-> FALSE]

\* The last three stages are the outcomes runNextNotification records.
Delivery == [key : NoteKeys, attempt : 0..MaxClaims,
             stage : {"claimed", "readable", "send", "sent", "retry", "state"}]

-----------------------------------------------------------------------------
\* publishJob: enqueue the notices of the members and the owner's summary,
\* ON CONFLICT DO NOTHING.
Enqueued(members) ==
  [k \in NoteKeys |->
     IF k[2] = 0 /\ k[1] \in members \cup {Owner} /\ notes[k].status = "none"
     THEN Fresh ELSE notes[k]]

\* cancelJob: what has not been sent and is not being sent is cancelled.
Withdrawn ==
  [k \in NoteKeys |-> IF notes[k].status \in {"pending", "retrying", "failed"}
                      THEN [notes[k] EXCEPT !.status = "cancelled"] ELSE notes[k]]

FailedNotes(r) == {k \in NoteKeys : k[1] = r /\ notes[k].status = "failed"}

UnusedReminders(r) == {k \in NoteKeys : k[1] = r /\ k[2] > 0 /\ notes[k].status = "none"}

\* The bound on reminder rows.
CanRemind(r) == r \in Recipients => FailedNotes(r) # {} \/ UnusedReminders(r) # {}

\* remindMember: the failed rows of the member are sent again; if there is
\* none, the next reminder is added.
RemindedRows(r) ==
  IF FailedNotes(r) # {} THEN FailedNotes(r)
  ELSE {k \in UnusedReminders(r) : \A l \in UnusedReminders(r) : k[2] <= l[2]}

\* Remind: the members in S, and the owner's summary if it had failed.
Reminded(S) ==
  LET again == (UNION {RemindedRows(r) : r \in S}) \cup
               {k \in FailedNotes(Owner) : k[2] = 0}
  IN  [k \in NoteKeys |-> IF k \in again THEN Fresh ELSE notes[k]]

\* Mutant of Deliverable: a row that is being sent is claimed again at once.
DeliverableAlways(k) == notes[k].status \in {"pending", "retrying", "sending"}

\* Mutant of Deliverable: a row whose sender died is not taken over.
DeliverableWaiting(k) == notes[k].status \in {"pending", "retrying"}

Deliverable(k) == \/ notes[k].status \in {"pending", "retrying"}
                  \/ notes[k].status = "sending" /\ notes[k].expired

\* runNextNotification: the claiming UPDATE.
ClaimNote(k) ==
  /\ Cardinality(sends) < MaxSends
  /\ notes[k].attempt < MaxClaims
  /\ Deliverable(k)
  /\ notes' = [notes EXCEPT ![k] = [status |-> "sending", attempt |-> @.attempt + 1,
                                    expired |-> FALSE]]
  /\ sends' = sends \cup {[key |-> k, attempt |-> notes[k].attempt + 1, stage |-> "claimed"]}

SendGoto(s, stage) ==
  /\ sends' = (sends \ {s}) \cup {[s EXCEPT !.stage = stage]}
  /\ UNCHANGED notes

\* sendNotification: the collection must be open or settled.
ReadPocket(s, status) ==
  /\ s.stage = "claimed"
  /\ SendGoto(s, IF status \in {"collecting", "settled"} THEN "readable" ELSE "state")

\* paymentText: the recipient's bill must be unpaid; the summary has no bill.
ReadMemberBill(s, billStatus) ==
  /\ s.stage = "readable"
  /\ SendGoto(s, IF s.key[1] = Owner \/ billStatus = "unpaid" THEN "send" ELSE "state")

\* A lookup or the delivery fails.
SendFails(s) ==
  /\ s.stage \in {"claimed", "readable", "send"}
  /\ SendGoto(s, "retry")

\* Messenger.Send succeeds.
SendMessage(s) ==
  /\ s.stage = "send"
  /\ SendGoto(s, "sent")

Outcome(s) == CASE s.stage = "sent"  -> "sent"
                [] s.stage = "state" -> "cancelled"
                [] s.stage = "retry" -> IF s.attempt >= MaxSendAttempts THEN "failed"
                                        ELSE "retrying"

\* The closing UPDATE ... WHERE id = ? AND attempt_count = ?.
RecordOutcome(s) ==
  /\ s.stage \in {"sent", "retry", "state"}
  /\ notes' = IF notes[s.key].attempt = s.attempt
              THEN [notes EXCEPT ![s.key].status = Outcome(s), ![s.key].expired = FALSE]
              ELSE notes
  /\ sends' = sends \ {s}

\* The process dies; the row stays "sending" until its lease expires.
SenderDies(s) ==
  /\ sends' = sends \ {s}
  /\ UNCHANGED notes

NoteLeaseExpires(k) ==
  /\ notes[k].status = "sending" /\ ~notes[k].expired
  /\ SendStalls \/ ~\E s \in sends : s.key = k
  /\ notes' = [notes EXCEPT ![k].expired = TRUE]
  /\ UNCHANGED sends

OutboxInit ==
  /\ notes = [k \in NoteKeys |-> NoNote]
  /\ sends = {}

\* While no sender outlives its lease, a row is being delivered at most once at
\* any time, through retries, deaths of senders and reminders; so the outcome
\* that is recorded is the outcome of the delivery that was made.
OneDeliveryPerRow ==
  \A s, t \in sends : s.key = t.key => s = t

OutboxTypeOK ==
  /\ notes \in [NoteKeys -> NoteRow]
  /\ sends \subseteq Delivery
=============================================================================
