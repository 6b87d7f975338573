-------------------------------- MODULE Uploads --------------------------------
(***************************************************************************)
(* Uploads of images around an object store: a request (presign) writes a  *)
(* pending row and signs a URL, the client puts the object there, a second *)
(* request (finalize) looks whether it is there and marks the row, and the *)
(* alarm removes what stays pending beyond expires_at, first the object    *)
(* and then the row.  UserDirectory does so for the uploads of its user    *)
(* and ChatChannel for those of bots, with small differences; an instance  *)
(* begins on either side.                                                  *)
(*                                                                         *)
(* expires_at is 24 hours after the row, so rows expire in the order of    *)
(* their ids.  A URL that has lapsed is one the client does not use.  The  *)
(* alarm is shared with other work, which makes it fire earlier and then   *)
(* arms it for the next row again.  The stored answer of a finalize is     *)
(* what its row answers anyway and is left out; refused requests and those *)
(* answered from what is stored are no steps.  A bot may upload while it   *)
(* is installed, which is for Commands.                                    *)
(***************************************************************************)
EXTENDS Naturals, FiniteSets

CONSTANTS
  UploadKeys,      \* values of Idempotency-Key for presigns
  UploadTasks,     \* slots for requests under way
  MaxUploads,      \* bound: rows written
  MaxUploadFaults  \* bound: failed deletions and evictions

ASSUME UploadAssumption == MaxUploads \in Nat /\ MaxUploadFaults \in Nat

VARIABLES
  side,            \* whose uploads: "user" or "bot"
  attachment_seq,  \* rows written so far
  attachments,     \* id -> status of its row
  objects,         \* ids whose object is in the store
  presign_keys,    \* key -> row of idempotency_keys
  upload,          \* slot -> handler at an await
  expired,         \* ids whose expires_at has passed
  due,             \* the id whose expires_at the alarm is set for, or 0
  sweep,           \* the alarm handler
  offered,         \* history: <<key, id>>: presigns that were answered
  kept,            \* history: finalized while the alarm handler did not hold them
  unarmed,         \* history: requests evicted before they armed the alarm
  upload_faults

uvars == <<side, attachment_seq, attachments, objects, presign_keys, upload, expired,
           due, sweep, offered, kept, unarmed, upload_faults>>

Ids == 1 .. MaxUploads
NoPresign == [status |-> "none", of |-> 0]
NoUpload == [at |-> "idle", key |-> "none", of |-> 0]
NoSweep == [at |-> "idle", fired |-> 0, of |-> 0, rows |-> {}]

UInit == /\ side \in {"user", "bot"}
         /\ attachment_seq = 0
         /\ attachments = [i \in Ids |-> "none"]
         /\ objects = {}
         /\ presign_keys = [k \in UploadKeys |-> NoPresign]
         /\ upload = [h \in UploadTasks |-> NoUpload]
         /\ expired = {}
         /\ due = 0
         /\ sweep = NoSweep
         /\ offered = {} /\ kept = {} /\ unarmed = {}
         /\ upload_faults = 0

Earliest(ids) == CHOOSE i \in ids : \A j \in ids : i <= j

\* scheduleNextAlarm over the pending rows: an alarm that is earlier stays.
Armed(alarm) ==
  LET pending == {i \in Ids : attachments[i] = "pending"}
  IN IF pending = {} THEN 0
     ELSE IF alarm # 0 /\ alarm <= Earliest(pending) THEN alarm ELSE Earliest(pending)

-----------------------------------------------------------------------------
(* presignUpload and botAttachmentPresign.                                 *)

\* A key that has no row yet: a new id is minted and both rows are written.
\* A key that is pending is signed again for the id it has, while the row of
\* that id exists; a completed one is answered as it was.
Presign(h, k) ==
  LET row == presign_keys[k]
  IN /\ upload[h] = NoUpload
     /\ \/ /\ row.status = "none"
           /\ attachment_seq < MaxUploads   \* bound
           /\ attachment_seq' = attachment_seq + 1
           /\ attachments' = [attachments EXCEPT ![attachment_seq + 1] = "pending"]
           /\ presign_keys' = [presign_keys EXCEPT ![k] =
                                 [status |-> "pending", of |-> attachment_seq + 1]]
           /\ upload' = [upload EXCEPT ![h] =
                           [at |-> "signing", key |-> k, of |-> attachment_seq + 1]]
        \/ /\ row.status = "pending"
           /\ attachments[row.of] # "none"
           /\ upload' = [upload EXCEPT ![h] = [at |-> "signing", key |-> k, of |-> row.of]]
           /\ UNCHANGED <<attachment_seq, attachments, presign_keys>>
     /\ UNCHANGED <<side, objects, expired, due, sweep, offered, kept, unarmed, upload_faults>>

\* The URL is signed: the second transaction stores the answer.
Signed(h) ==
  /\ upload[h].at = "signing"
  /\ presign_keys' = [presign_keys EXCEPT ![upload[h].key] =
                        [status |-> "completed", of |-> upload[h].of]]
  /\ upload' = [upload EXCEPT ![h].at = "arming"]
  /\ UNCHANGED <<side, attachment_seq, attachments, objects, expired, due, sweep, offered,
                 kept, unarmed, upload_faults>>

Presigned(h) ==
  /\ upload[h].at = "arming"
  /\ due' = Armed(due)
  /\ offered' = offered \cup {<<upload[h].key, upload[h].of>>}
  /\ upload' = [upload EXCEPT ![h] = NoUpload]
  /\ UNCHANGED <<side, attachment_seq, attachments, objects, presign_keys, expired, sweep,
                 kept, unarmed, upload_faults>>

\* The client puts the object under its URL, whenever and however often.
Put(i) ==
  /\ \E o \in offered : o[2] = i
  /\ objects' = objects \cup {i}
  /\ UNCHANGED <<side, attachment_seq, attachments, presign_keys, upload, expired, due,
                 sweep, offered, kept, unarmed, upload_faults>>

-----------------------------------------------------------------------------
(* finalizeUpload and botAttachmentFinalize.                               *)

Finalize(h, i) ==
  /\ upload[h] = NoUpload
  /\ attachments[i] = "pending"
  /\ upload' = [upload EXCEPT ![h] = [at |-> "checking", key |-> "none", of |-> i]]
  /\ UNCHANGED <<side, attachment_seq, attachments, objects, presign_keys, expired, due,
                 sweep, offered, kept, unarmed, upload_faults>>

\* headObjectKey: anything but the object of the announced type and size ends
\* the request.
Checked(h) ==
  /\ upload[h].at = "checking"
  /\ upload' = [upload EXCEPT ![h] = IF upload[h].of \in objects
                                     THEN [upload[h] EXCEPT !.at = "committing"]
                                     ELSE NoUpload]
  /\ UNCHANGED <<side, attachment_seq, attachments, objects, presign_keys, expired, due,
                 sweep, offered, kept, unarmed, upload_faults>>

\* The row is marked without another look at it; a row that is gone makes
\* the handler throw.  A user's finalize arms the alarm on its way out.
CommitFinalize(h) ==
  LET i == upload[h].of
  IN /\ upload[h].at = "committing"
     /\ IF attachments[i] = "none"
        THEN UNCHANGED <<attachments, kept>> /\ upload' = [upload EXCEPT ![h] = NoUpload]
        ELSE /\ attachments' = [attachments EXCEPT ![i] = "finalized"]
             /\ kept' = IF attachments[i] = "pending" /\ i \notin sweep.rows
                        THEN kept \cup {i} ELSE kept
             /\ upload' = [upload EXCEPT ![h] = IF side = "user"
                                                THEN [upload[h] EXCEPT !.at = "leaving"]
                                                ELSE NoUpload]
     /\ UNCHANGED <<side, attachment_seq, objects, presign_keys, expired, due, sweep, offered,
                    unarmed, upload_faults>>

Finalized(h) ==
  /\ upload[h].at = "leaving"
  /\ due' = Armed(due)
  /\ upload' = [upload EXCEPT ![h] = NoUpload]
  /\ UNCHANGED <<side, attachment_seq, attachments, objects, presign_keys, expired, sweep,
                 offered, kept, unarmed, upload_faults>>

-----------------------------------------------------------------------------
(* Time and the alarm.                                                     *)

Expire(i) ==
  /\ i <= attachment_seq /\ i \notin expired
  /\ \A j \in 1 .. i - 1 : j \in expired
  /\ expired' = expired \cup {i}
  /\ UNCHANGED <<side, attachment_seq, attachments, objects, presign_keys, upload, due,
                 sweep, offered, kept, unarmed, upload_faults>>

\* Mutant: every row that has expired is due.
WhateverStatus(i) == attachments[i] # "none"

\* The row is still pending (runDueJobs selects on status and expires_at).
IsDue(i) == attachments[i] = "pending"

AlarmFires ==
  /\ due \in expired
  /\ sweep = NoSweep
  /\ sweep' = [at |-> "next", fired |-> due, of |-> 0,
               rows |-> {i \in expired : IsDue(i)}]
  /\ due' = 0
  /\ UNCHANGED <<side, attachment_seq, attachments, objects, presign_keys, upload, expired,
                 offered, kept, unarmed, upload_faults>>

\* The object is deleted; a failure is logged and forgotten.
DeleteObject ==
  /\ sweep.at = "next" /\ sweep.rows # {}
  /\ \E i \in sweep.rows :
       /\ \A j \in sweep.rows : i <= j
       /\ sweep' = [sweep EXCEPT !.at = "deleted", !.of = i]
       /\ \/ objects' = objects \ {i} /\ UNCHANGED upload_faults
          \/ /\ upload_faults < MaxUploadFaults
             /\ upload_faults' = upload_faults + 1
             /\ UNCHANGED objects
  /\ UNCHANGED <<side, attachment_seq, attachments, presign_keys, upload, expired, due,
                 offered, kept, unarmed>>

\* Then its row: UserDirectory deletes it as it is, ChatChannel only if it is
\* pending.
DeleteRow ==
  LET i == sweep.of
  IN /\ sweep.at = "deleted"
     /\ attachments' = [attachments EXCEPT ![i] =
                          IF side = "user" \/ @ = "pending" THEN "none" ELSE @]
     /\ sweep' = [sweep EXCEPT !.at = "next", !.of = 0, !.rows = @ \ {i}]
     /\ UNCHANGED <<side, attachment_seq, objects, presign_keys, upload, expired, due,
                    offered, kept, unarmed, upload_faults>>

\* Mutant: the handler arms no alarm for the rows that are left.
NotRearmed(alarm) == alarm

Rearmed(alarm) == Armed(alarm)

SweepEnds ==
  /\ sweep.at = "next" /\ sweep.rows = {}
  /\ sweep' = NoSweep
  /\ due' = Rearmed(due)
  /\ UNCHANGED <<side, attachment_seq, attachments, objects, presign_keys, upload, expired,
                 offered, kept, unarmed, upload_faults>>

\* The object is evicted with everything it was doing.  An alarm handler
\* that did not end is run again by the runtime.
EvictUploads ==
  /\ upload_faults < MaxUploadFaults
  /\ upload_faults' = upload_faults + 1
  /\ upload' = [h \in UploadTasks |-> NoUpload]
  /\ unarmed' = unarmed \cup {upload[h].of : h \in {t \in UploadTasks :
                                              upload[t].at \in {"signing", "arming"}}}
  /\ sweep' = NoSweep
  /\ due' = IF sweep = NoSweep THEN due ELSE sweep.fired
  /\ UNCHANGED <<side, attachment_seq, attachments, objects, presign_keys, expired, offered,
                 kept>>

UploadGoesOn(h) == \/ Signed(h) \/ Presigned(h)
                   \/ Checked(h) \/ CommitFinalize(h) \/ Finalized(h)

SweepGoesOn == AlarmFires \/ DeleteObject \/ DeleteRow \/ SweepEnds

UNext == \/ \E h \in UploadTasks : \/ \E k \in UploadKeys : Presign(h, k)
                                   \/ \E i \in Ids : Finalize(h, i)
                                   \/ UploadGoesOn(h)
         \/ \E i \in Ids : Put(i) \/ Expire(i)
         \/ SweepGoesOn
         \/ EvictUploads

USpec == UInit /\ [][UNext]_uvars

\* The runtime goes on with a handler after its await, fires an alarm whose
\* time has come and runs it again when it was cut off.  Time passes as it
\* likes; clients promise nothing.
UFair == /\ \A h \in UploadTasks : WF_uvars(UploadGoesOn(h))
         /\ WF_uvars(SweepGoesOn)

-----------------------------------------------------------------------------
(* Properties.                                                             *)

UTypeOK ==
  /\ side \in {"user", "bot"}
  /\ attachment_seq \in 0 .. MaxUploads
  /\ attachments \in [Ids -> {"none", "pending", "finalized"}]
  /\ objects \subseteq Ids /\ expired \subseteq Ids /\ kept \subseteq Ids
  /\ unarmed \subseteq Ids
  /\ presign_keys \in [UploadKeys -> [status : {"none", "pending", "completed"},
                                      of : 0 .. MaxUploads]]
  /\ upload \in [UploadTasks -> {NoUpload}
        \cup [at : {"signing", "arming"}, key : UploadKeys, of : Ids]
        \cup [at : {"checking", "committing", "leaving"}, key : {"none"}, of : Ids]]
  /\ due \in 0 .. MaxUploads
  /\ sweep \in [at : {"idle", "next", "deleted"}, fired : 0 .. MaxUploads,
                of : 0 .. MaxUploads, rows : SUBSET Ids]
  /\ offered \subseteq UploadKeys \X Ids
  /\ upload_faults \in Nat

\* One key of a presign stands for one upload: requests that repeat it while
\* the first is at its signature, or after its answer was lost, all name the
\* id that was minted first.
KeysNameOneUpload == \A o, p \in offered : o[1] = p[1] => o[2] = p[2]

\* An image that was finalized before the alarm handler took it up keeps its
\* object and its row, however the handler, its retry after an eviction,
\* other finalizes and late puts meet.
FinalizedStays == \A i \in kept : attachments[i] = "finalized" /\ i \in objects

\* An upload that was never finalized goes away after its time, whatever was
\* evicted, except when its own request died before it had armed the alarm
\* (a later request of the same object makes up for it).
ExpiredIsCollected ==
  \A i \in Ids : i \in expired /\ attachments[i] = "pending"
                   ~> attachments[i] # "pending" \/ i \in unarmed
=============================================================================
