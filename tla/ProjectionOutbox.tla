---------------------------- MODULE ProjectionOutbox ----------------------------
(***************************************************************************)
(* How a channel's membership reaches the objects that only hold a         *)
(* projection of it.  A handler of Membership commits its rows and then,   *)
(* in a later step, arms the Durable Object's alarm; the alarm takes a     *)
(* snapshot of the due rows and awaits one RPC per row, so handlers run    *)
(* between two rows, an RPC may be applied although its caller sees an     *)
(* error, a retried row becomes due after rows that were written later,    *)
(* and the object may be evicted at any await.  The two projections that   *)
(* readers depend on are here as well: my_channels of each user's          *)
(* UserDirectory, guarded by membership_version, and the channel's row of  *)
(* the ChannelDirectory, which has no guard.                               *)
(***************************************************************************)
EXTENDS Membership

CONSTANTS
  MaxAttempts,   \* OUTBOX_MAX_ATTEMPTS
  MaxFailures    \* bound: how many RPCs fail and evictions happen

FailureKinds == {"retry",      \* the RPC fails and may be retried
                 "fatal",      \* the RPC fails and may not be retried
                 "evicted",    \* the object is evicted while its alarm runs
                 "stranded"}   \* ... or between a commit and arming the alarm

ASSUME OutboxAssumption == /\ MaxAttempts \in Nat \ {0}
                           /\ MaxFailures \in Nat

VARIABLES
  alarm,       \* an alarm is set
  arming,      \* a handler has committed rows and not armed the alarm yet
  flushing,    \* the alarm handler runs
  batch,       \* due rows of its snapshot it has not come to yet
  dead,        \* rows with status dead_letter
  my_channels, \* user -> the UserDirectory's row for the channel
  listing,     \* the ChannelDirectory's row for the channel
  failures,    \* kind -> how many of these failures there were
  once         \* history: version -> who was in, and whether it was closed

flush == <<alarm, arming, flushing, batch>>
projections == <<my_channels, listing>>
ovars == <<vars, flush, dead, projections, failures, once>>

\* next_attempt_at of a retried row whose backoff is not over.
Later == -1

Unlisted == [status |-> "none", count |-> 0]

-----------------------------------------------------------------------------
OInit == /\ Init
         /\ alarm = FALSE /\ arming = FALSE /\ flushing = FALSE
         /\ batch = {}
         /\ dead = {}
         /\ my_channels = [u \in Users |-> NoRow]
         /\ listing = Unlisted
         /\ failures = [how \in FailureKinds |-> 0]
         /\ once = [v \in {0} |-> [in |-> {}, closed |-> FALSE]]

\* The member set and the status each version stands for, kept for the
\* properties.
Record ==
  once' = [v \in 0 .. membership_version' |->
             IF v \in DOMAIN once THEN once[v]
             ELSE [in |-> ActiveMembers', closed |-> status' = "dissolved"]]

\* A handler commits.  One that wrote no row arms nothing.
Commit == /\ Create \/ Handler
          /\ arming' = (arming \/ outbox' # outbox)
          /\ Record
          /\ UNCHANGED <<alarm, flushing, batch, dead, projections, failures>>

\* scheduleOutboxAlarm: an alarm for the earliest pending row, or none.
ArmAlarm == /\ arming
            /\ arming' = FALSE
            /\ alarm' = (outbox # {})
            /\ UNCHANGED <<vars, flushing, batch, dead, projections, failures, once>>

\* The backoff of a retried row is over: it is due after the rows due now.
BackoffElapses(e) ==
  /\ e \in outbox /\ e.due = Later
  /\ clock' = clock + 1
  /\ outbox' = (outbox \ {e}) \cup {[e EXCEPT !.due = clock + 1]}
  /\ UNCHANGED <<channel, roster, invites, idempotency_keys, outcome,
                 flush, dead, projections, failures, once>>

\* The alarm fires when a row is due, or for rows that are gone by then.
AlarmFires == /\ alarm /\ ~flushing
              /\ outbox = {} \/ \E e \in outbox : e.due # Later
              /\ alarm' = FALSE
              /\ flushing' = TRUE
              /\ batch' = {e \in outbox : e.due # Later}
              /\ UNCHANGED <<vars, arming, dead, projections, failures, once>>

-----------------------------------------------------------------------------
(* The receiving side of a row.                                            *)

\* ChannelDirectory.applyProjection: the last write wins.
ApplyProjection(row) ==
  IF row.action = "delete" THEN Unlisted
  ELSE [status |-> row.status, count |-> row.count]

Apply(row) ==
  /\ my_channels' =
       IF row.target = "user_directory"
       THEN [my_channels EXCEPT ![row.user] = UpsertChannelProjection(@, row)]
       ELSE my_channels
  /\ listing' = IF row.target = "channel_directory" THEN ApplyProjection(row) ELSE listing

-----------------------------------------------------------------------------
(* flushProjectionOutboxRows, one row of the snapshot at a time, in the    *)
(* order they became due.                                                  *)

NextInBatch(e) == /\ flushing
                  /\ e \in batch
                  /\ \A other \in batch : e.due <= other.due

GoOn(e) == batch' = batch \ {e}

\* Mutant: a delivered row stays pending.
KeepRow(e) == UNCHANGED outbox

DeleteRow(e) == outbox' = outbox \ {e}

Delivered(e) == /\ NextInBatch(e)
                /\ Apply(e.row)
                /\ DeleteRow(e)
                /\ GoOn(e)
                /\ UNCHANGED <<channel, roster, invites, idempotency_keys, clock, outcome,
                               alarm, arming, flushing, dead, failures, once>>

\* bumpQueueRetry: one more attempt after a backoff, or the dead-letter state.
BumpRetry(e) ==
  IF e.attempts + 1 >= MaxAttempts
  THEN /\ outbox' = outbox \ {e}
       /\ dead' = dead \cup {e.row}
  ELSE /\ outbox' = (outbox \ {e}) \cup {[e EXCEPT !.attempts = @ + 1, !.due = Later]}
       /\ UNCHANGED dead

AllFailures == failures["retry"] + failures["fatal"] + failures["evicted"] + failures["stranded"]

Fails(how) == /\ AllFailures < MaxFailures                \* bound
              /\ failures' = [failures EXCEPT ![how] = @ + 1]

\* The RPC of a row fails, before or after its target applied it (for a
\* directory row also because the live notification that follows it failed).
\* channel_fanout retries every error, the others only retryable ones.
Failed(e, applied) ==
  /\ NextInBatch(e)
  /\ IF applied THEN Apply(e.row) ELSE UNCHANGED projections
  /\ GoOn(e)
  /\ \/ /\ Fails("retry")
        /\ BumpRetry(e)
     \/ /\ Fails("fatal")
        /\ e.row.target # "channel_fanout"
        /\ outbox' = outbox \ {e}
        /\ dead' = dead \cup {e.row}
  /\ UNCHANGED <<channel, roster, invites, idempotency_keys, clock, outcome,
                 alarm, arming, flushing, once>>

\* Mutant: the alarm is not armed for the rows that are left.
AlarmEndsForGood == /\ flushing /\ batch = {}
                    /\ flushing' = FALSE
                    /\ UNCHANGED <<vars, alarm, arming, batch, dead, projections, failures, once>>

\* The alarm handler ends and arms the alarm for what is pending then.
AlarmEnds == /\ flushing /\ batch = {}
             /\ flushing' = FALSE
             /\ alarm' = (outbox # {})
             /\ UNCHANGED <<vars, arming, batch, dead, projections, failures, once>>

\* The object is evicted while a row's RPC is under way; the runtime runs an
\* alarm whose handler did not return again.
EvictedFlushing(e, applied) ==
  /\ NextInBatch(e)
  /\ Fails(IF arming THEN "stranded" ELSE "evicted")
  /\ IF applied THEN Apply(e.row) ELSE UNCHANGED projections
  /\ alarm' = TRUE
  /\ flushing' = FALSE /\ arming' = FALSE
  /\ batch' = {}
  /\ UNCHANGED <<vars, dead, once>>

\* The object is evicted after a handler's commit and before it armed the
\* alarm; nothing arms it when the object is constructed again.
EvictedArming ==
  /\ arming /\ ~flushing
  /\ Fails("stranded")
  /\ arming' = FALSE
  /\ UNCHANGED <<vars, alarm, flushing, batch, dead, projections, once>>

ONext == \/ Commit
         \/ ArmAlarm
         \/ AlarmFires
         \/ \E e \in outbox : BackoffElapses(e)
         \/ \E e \in batch :
              \/ Delivered(e)
              \/ \E applied \in BOOLEAN : Failed(e, applied) \/ EvictedFlushing(e, applied)
         \/ AlarmEnds
         \/ EvictedArming

OSpec == OInit /\ [][ONext]_ovars

\* The runtime resumes a handler after an await, fires a set alarm, and time
\* passes.  Nothing makes a client send a request.
Progress == /\ ArmAlarm \/ AlarmFires \/ AlarmEnds
               \/ (\E e \in outbox : BackoffElapses(e))
               \/ (\E e \in batch : Delivered(e) \/ \E applied \in BOOLEAN : Failed(e, applied))

OFairSpec == OSpec /\ WF_ovars(Progress)

-----------------------------------------------------------------------------
\* The projections and the outbox hold values of their columns' types.
OTypeOK ==
  /\ TypeOK
  /\ alarm \in BOOLEAN /\ arming \in BOOLEAN /\ flushing \in BOOLEAN
  /\ batch \subseteq outbox
  /\ dead \subseteq Rows
  /\ my_channels \in
       [Users -> [status : Statuses, mv : 0 .. MaxVersion]]
  /\ listing \in [status : {"none", "active", "dissolved"}, count : Nat]
  /\ failures \in [FailureKinds -> 0 .. MaxFailures]
  /\ once \in [0 .. membership_version -> [in : SUBSET Users, closed : BOOLEAN]]

\* A directory row never states what was not so: whatever is retried,
\* repeated or overtaken, the status held at a version is the user's status
\* in the channel at that version, so comparing versions compares truths.
DirectoryNeverInvents ==
  \A u \in Users : my_channels[u] # NoRow =>
    LET held == my_channels[u]
        then == once[held.mv]
    IN CASE held.status = "active" -> u \in then.in /\ ~then.closed
         [] held.status = "dissolved" -> u \in then.in /\ then.closed
         [] OTHER -> u \notin then.in

\* No row for this target is on its way, and none was given up.
Settled(target) == /\ \A e \in outbox : e.row.target # target
                   /\ \A row \in dead : row.target # target

\* Once the rows have been delivered, every member finds the channel in
\* listMyChannels (which returns active and dissolved rows), with the right
\* status: no order of joins, leaves, retries and lost replies hides a
\* channel from one of its members.
MembersFindChannel ==
  Settled("user_directory") =>
    \A u \in ActiveMembers :
      my_channels[u].status = IF status = "active" THEN "active" ELSE "dissolved"

\* Once the rows have been delivered, the public directory lists the channel
\* exactly if it is public and not dissolved, with its number of members: the
\* alarm's order and its repetitions see to that, as long as no row is retried
\* and so overtaken.
ListingSettles ==
  Settled("channel_directory") /\ failures["retry"] = 0 =>
    /\ listing.status = "active" <=>
         kind = "channel" /\ status = "active" /\ visibility = "public_listed"
    /\ listing.status = "active" => listing.count = member_count

\* An eviction between a commit and its alarm leaves rows to the next handler.
Stranded == failures["stranded"] > 0

\* A row that waits has an alarm, or a handler that is going to arm one:
\* "a per-DO alarm flushes the outbox to the target DO".
PendingHasAlarm == outbox # {} => alarm \/ arming \/ flushing \/ Stranded

\* The tables hold values of their columns' types, what the alarm handler works
\* on is in the outbox, and no row waits without an alarm.
OutboxInv == OTypeOK /\ PendingHasAlarm

\* Every row is eventually delivered or given up.
OutboxDrains == <>[](outbox = {} \/ Stranded)

=============================================================================
