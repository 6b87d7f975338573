------------------------------- MODULE LiveFanout -------------------------------
(***************************************************************************)
(* Live delivery of one channel's events.  ChatChannel knows the members   *)
(* (here only through the contract ChannelVersions, which Membership       *)
(* implements); a UserDirectory per user holds a projection of that; a     *)
(* UserConnection per user holds the WebSocket sessions and, per session,  *)
(* a lease on the channel; ChannelFanout holds the leases it was told of   *)
(* and sends each event to them.  Every arrow between these objects is an  *)
(* RPC, so a handler is split at each await and anything may run between   *)
(* the parts.  Rows of the channel's outbox are delivered at least once,   *)
(* in any order, or never (dead letter).                                   *)
(***************************************************************************)
EXTENDS ChannelVersions, MyChannels

CONSTANTS
  Sessions,    \* WebSocket sessions (one connection each)
  UserOf,      \* session -> its user
  Tasks,       \* slots for handlers of UserConnections that are under way
  MaxVersion,  \* bound on membership_version
  MaxLease,    \* bound on the number of lease ids
  MaxCalls,    \* bound on deliveries under way, and on queued ones
  Failures     \* subset of FailureKinds

FailureKinds == {"lost",    \* an RPC fails and may be retried, or its reply is lost
                 "fatal"}   \* an RPC fails and may not be retried

ASSUME LiveAssumption ==
  /\ UserOf \in [Sessions -> Users]
  /\ MaxVersion \in Nat /\ MaxLease \in Nat /\ MaxCalls \in Nat
  /\ Failures \subseteq FailureKinds

VARIABLES
  was,          \* history: version -> the members
  rows,         \* outbox rows written for users so far
  my_channels,  \* UserDirectory: user -> its row for the channel
  session,      \* UserConnection: session -> status in live_sessions
  socket,       \* session -> its WebSocket is connected
  lease,        \* session -> its row of live_channel_leases
  last_id,      \* the last lease_id drawn
  lease_alarm,  \* user -> the UserConnection has an alarm set
  abandoned,    \* history: users for whom a leaseUpsert was given up before any alarm was set
  task,         \* slot -> a handler of a UserConnection under way, or Idle
  fanout,       \* ChannelFanout: fanout_leases
  queue,        \* ChannelFanout: pending rows of fanout_queue
  calls,        \* deliveries under way
  last_frame    \* history: session -> the version of the last event sent to it

chat == <<version, active, closed, was, rows>>
alarms == <<lease_alarm, abandoned>>
local == <<session, socket, lease, last_id, alarms>>
deliveries == <<fanout, queue, calls, last_frame>>
lvars == <<chat, my_channels, local, task, deliveries>>

NoLease == [status |-> "none", id |-> 0, mv |-> 0, expired |-> FALSE]
Idle == [at |-> "idle"]
Unread == [in |-> FALSE, mv |-> 0]

UnregisterRow(u) == [target |-> "channel_fanout", user |-> u]

SessionsOf(u) == {s \in Sessions : UserOf[s] = u}

LInit == /\ VInit
         /\ was = [v \in {0} |-> {}]
         /\ rows = {}
         /\ my_channels = [u \in Users |-> NoRow]
         /\ session = [s \in Sessions |-> "none"]
         /\ socket = [s \in Sessions |-> FALSE]
         /\ lease = [s \in Sessions |-> NoLease]
         /\ last_id = 0
         /\ lease_alarm = [u \in Users |-> FALSE]
         /\ abandoned = {}
         /\ task = [t \in Tasks |-> Idle]
         /\ fanout = {}
         /\ queue = {}
         /\ calls = {}
         /\ last_frame = [s \in Sessions |-> 0]

-----------------------------------------------------------------------------
(* ChatChannel: a step of the abstract channel, with the rows it writes.   *)

\* Rows for users who never connect change nothing here and are not kept.
Record(written) ==
  /\ version' <= MaxVersion      \* bound
  /\ rows' = rows \cup {row \in written : SessionsOf(row.user) # {}}
  /\ was' = [v \in 0 .. version' |-> IF v \in DOMAIN was THEN was[v] ELSE active']
  /\ UNCHANGED <<my_channels, local, task, deliveries>>

\* The creator's row carries version 1, the others' the last one.
Created(first, o) == /\ Open(first)
                     /\ Record({UserRow(o, "join", 1)}
                               \cup {UserRow(u, "join", version') : u \in first \ {o}})

Entered(u) == /\ Enter(u)
              /\ Record({UserRow(u, "join", version')})

Exited(u) == /\ Exit(u)
             /\ Record({UserRow(u, "leave", version'), UnregisterRow(u)})

\* A role change writes a join row for its member, a transfer writes none.
Restated(u) == /\ Restate
               /\ \/ /\ version' = version + 1
                     /\ u \in active
                     /\ Record({UserRow(u, "join", version')})
                  \/ /\ version' = version + 2
                     /\ Record({})

Dissolved == /\ Close
             /\ Record({UserRow(u, "dissolve", version') : u \in active})

-----------------------------------------------------------------------------
(* ChatChannel's outbox delivers a row.                                    *)

\* UserDirectory.upsertChannelProjection.
UpdateDirectory(row) ==
  /\ row.target = "user_directory"
  /\ my_channels' = [my_channels EXCEPT ![row.user] = UpsertChannelProjection(@, row)]
  /\ UNCHANGED <<chat, local, task, deliveries>>

\* The reason of a join row is a hint that the channel is to be live.
Hint(row) == IF row.action = "join" THEN row.mv ELSE 0

\* ... and then calls UserConnection.liveMembershipsChanged, which starts by
\* asking the directory.
LiveMembershipsChanged(t, row) ==
  /\ row.target = "user_directory"
  /\ task[t] = Idle
  /\ \/ my_channels[row.user].mv >= row.mv
     \/ row.action = "leave" /\ my_channels[row.user] = NoRow
  /\ task' = [task EXCEPT ![t] =
       [at |-> "fetching", why |-> "notify", user |-> row.user, todo |-> {},
        on |-> {}, hint |-> Hint(row),
        seen |-> Unread, id |-> 0]]
  /\ UNCHANGED <<chat, my_channels, local, deliveries>>

\* ChannelFanout.unregisterUser: the leases go, the queue's rows are dead.
UnregisterUser(row) ==
  /\ row.target = "channel_fanout"
  /\ fanout' = {f \in fanout : UserOf[f.session] # row.user}
  /\ queue' = {q \in queue : UserOf[q.session] # row.user}
  /\ UNCHANGED <<chat, my_channels, local, task, calls, last_frame>>

-----------------------------------------------------------------------------
(* UserConnection: sessions.                                               *)

Connect(s) == /\ session[s] = "none"
              /\ session' = [session EXCEPT ![s] = "open"]
              /\ socket' = [socket EXCEPT ![s] = TRUE]
              /\ UNCHANGED <<chat, my_channels, lease, last_id, alarms, task, deliveries>>

Begin(t, s, why) ==
  /\ socket[s]
  /\ task[t] = Idle
  /\ task' = [task EXCEPT ![t] =
       [at |-> "fetching", why |-> why, user |-> UserOf[s], todo |-> {s}, on |-> {}, hint |-> 0,
        seen |-> Unread, id |-> 0]]
  /\ UNCHANGED <<chat, my_channels, local, deliveries>>

LiveStart(t, s) == session[s] \in {"open", "live"} /\ Begin(t, s, "start")

Heartbeat(t, s) == session[s] = "live" /\ Begin(t, s, "beat")

\* closeSessionCleanup up to its first await: the session and its lease are
\* closed, the lease (0 if there is none) is about to be revoked at the fanout.
CloseSession(t, s) ==
  /\ task[t] = Idle
  /\ session' = [session EXCEPT ![s] = "closed"]
  /\ socket' = [socket EXCEPT ![s] = FALSE]
  /\ lease' = [lease EXCEPT ![s].status = IF @ = "active" THEN "closed" ELSE @]
  /\ task' = [task EXCEPT ![t] =
       [at |-> "revoking", why |-> "cleanup", user |-> UserOf[s], todo |-> {}, on |-> {s}, hint |-> 0,
        seen |-> Unread, id |-> IF lease[s].status = "active" THEN lease[s].id ELSE 0]]

\* The client is gone; the close event comes later or is lost.
Disconnect(s) ==
  /\ socket[s]
  /\ socket' = [socket EXCEPT ![s] = FALSE]
  /\ UNCHANGED <<chat, my_channels, session, lease, last_id, alarms, task, deliveries>>

WebSocketClose(t, s) ==
  /\ session[s] \in {"open", "live"} /\ ~socket[s]
  /\ CloseSession(t, s)
  /\ UNCHANGED <<chat, my_channels, last_id, alarms, deliveries>>

\* The alarm closes the sessions that hold an expired lease.
CloseExpired(t, s) ==
  /\ lease_alarm[UserOf[s]]
  /\ lease[s].status = "active" /\ lease[s].expired
  /\ CloseSession(t, s)
  /\ lease_alarm' = [lease_alarm EXCEPT ![UserOf[s]] = FALSE]
  /\ UNCHANGED <<chat, my_channels, last_id, abandoned, deliveries>>

-----------------------------------------------------------------------------
(* UserConnection: resyncSessionLeasesWithActiveChannels, called by        *)
(* live_start, heartbeat and liveMembershipsChanged with what the          *)
(* directory answered.                                                     *)

\* listMyChannels answers; liveMembershipsChanged adds its hint to the answer.
ReadDirectory(t) ==
  LET work == task[t]
      held == my_channels[work.user]
      seen == IF Listed(held) THEN [in |-> TRUE, mv |-> held.mv]
              ELSE [in |-> work.hint > 0, mv |-> work.hint]
  IN /\ work.at = "fetching"
     /\ task' = [task EXCEPT ![t].at = IF work.why = "notify" THEN "notified" ELSE "syncing",
                             ![t].seen = seen]
     /\ UNCHANGED <<chat, my_channels, local, deliveries>>

\* The sessions still to be visited: liveMembershipsChanged selects those
\* that are live when the directory's answer arrives.
Todo(work) == IF work.at = "notified"
              THEN {s \in SessionsOf(work.user) : session[s] = "live"}
              ELSE work.todo

Syncs(t, s) == /\ task[t].at \in {"notified", "syncing"}
               /\ s \in Todo(task[t])

\* scheduleLeaseExpiryAlarm: an alarm for the earliest expiry, or none.
Schedule(u) ==
  /\ lease_alarm' = [lease_alarm EXCEPT ![u] =
       \E s \in SessionsOf(u) : lease'[s].status = "active"]
  /\ abandoned' = abandoned \ {u}

\* Mutant: no alarm is set after a lease was opened or renewed.
VisitedUnscheduled(t, s) ==
  LET rest == Todo(task[t]) \ {s}
  IN /\ UNCHANGED alarms
     /\ session' = [session EXCEPT ![s] = IF task[t].why = "start" THEN "live" ELSE @]
     /\ task' = [task EXCEPT ![t] =
          IF rest = {} THEN Idle
          ELSE [@ EXCEPT !.at = "syncing", !.todo = rest, !.on = {}, !.id = 0]]

\* A session has been visited: the alarm is set, live_start makes its session
\* live, whatever became of it, and the next session's turn comes.
Visited(t, s) ==
  LET rest == Todo(task[t]) \ {s}
  IN /\ Schedule(task[t].user)
     /\ session' = [session EXCEPT ![s] = IF task[t].why = "start" THEN "live" ELSE @]
     /\ task' = [task EXCEPT ![t] =
          IF rest = {} THEN Idle
          ELSE [@ EXCEPT !.at = "syncing", !.todo = rest, !.on = {}, !.id = 0]]

\* The handler goes on to await an RPC to the fanout about lease id of s.
Await(t, s, step, id) ==
  task' = [task EXCEPT ![t] =
    [@ EXCEPT !.at = step, !.todo = Todo(task[t]) \ {s}, !.on = {s}, !.id = id]]

CloseLocalLease(s) == lease' = [lease EXCEPT ![s].status = "closed"]

\* The channel is not among the user's channels.
CloseUnlisted(t, s) ==
  /\ Syncs(t, s)
  /\ ~task[t].seen.in
  /\ lease[s].status = "active"
  /\ CloseLocalLease(s)
  /\ Schedule(task[t].user)
  /\ Await(t, s, "revoking", lease[s].id)
  /\ UNCHANGED <<chat, my_channels, session, socket, last_id, deliveries>>

\* leaseNeedsRefresh: always for a closed lease (every caller allows reopening
\* it), an older version or an expired lease, and near its expiry.
MayKeep(s, mv) == lease[s].status = "active" /\ lease[s].mv >= mv /\ ~lease[s].expired

\* upsertLocalLease: a closed lease comes back with a new id.
OpenLease(t, s) ==
  LET same == lease[s].status = "active"
      id == IF same THEN lease[s].id ELSE last_id + 1
  IN /\ Syncs(t, s)
     /\ task[t].seen.in
     /\ same \/ last_id < MaxLease      \* bound
     /\ last_id' = IF same THEN last_id ELSE last_id + 1
     /\ lease' = [lease EXCEPT ![s] =
          [status |-> "active", id |-> id, mv |-> task[t].seen.mv, expired |-> FALSE]]
     /\ Await(t, s, "upserting", id)
     /\ UNCHANGED <<chat, my_channels, session, socket, alarms, deliveries>>

NothingToDo(t, s) ==
  /\ Syncs(t, s)
  /\ IF task[t].seen.in THEN MayKeep(s, task[t].seen.mv) ELSE lease[s].status # "active"
  /\ UNCHANGED lease
  /\ Visited(t, s)
  /\ UNCHANGED <<chat, my_channels, socket, last_id, deliveries>>

NobodyLive(t) == /\ task[t].at = "notified" /\ Todo(task[t]) = {}
                 /\ task' = [task EXCEPT ![t] = Idle]
                 /\ UNCHANGED <<chat, my_channels, local, deliveries>>

\* ChannelFanout.leaseUpsert: keyed by lease id, with an expiry of its own.
LeaseUpsert(s, id) ==
  fanout' = {f \in fanout : f.id # id} \cup {[session |-> s, id |-> id, expired |-> FALSE]}

\* ChannelFanout.leaseRevoke.
LeaseRevoke(id) == fanout' = {f \in fanout : f.id # id}

\* leaseUpsert returns, or fails and is retried by the next heartbeat that
\* finds the lease near its expiry.
Upserted(t, s) ==
  /\ task[t].at = "upserting" /\ s \in task[t].on
  /\ \/ LeaseUpsert(s, task[t].id)
     \/ "lost" \in Failures /\ UNCHANGED fanout
  /\ UNCHANGED lease
  /\ Visited(t, s)
  /\ UNCHANGED <<chat, my_channels, socket, last_id, queue, calls, last_frame>>

\* A failure that is not retryable ends the handler where it is.
UpsertFails(t) ==
  /\ task[t].at = "upserting"
  /\ "fatal" \in Failures
  /\ task' = [task EXCEPT ![t] = Idle]
  /\ abandoned' = abandoned \cup {u \in {task[t].user} : ~lease_alarm[u]}
  /\ UNCHANGED <<chat, my_channels, session, socket, lease, last_id, lease_alarm, deliveries>>

\* leaseRevoke returns; its failures are ignored.
Revoked(t, s) ==
  /\ task[t].at = "revoking" /\ s \in task[t].on
  /\ \/ LeaseRevoke(task[t].id)
     \/ Failures # {} /\ UNCHANGED fanout
  /\ UNCHANGED lease
  /\ Visited(t, s)
  /\ UNCHANGED <<chat, my_channels, socket, last_id, queue, calls, last_frame>>

-----------------------------------------------------------------------------
(* ChannelFanout sends an event, identified with the membership version it *)
(* carries, and UserConnection.deliver decides.                            *)

\* pruneExpiredLeases, then one deliver per lease.
Calls(new) == /\ Cardinality(calls \cup new) <= MaxCalls      \* bound
              /\ calls' = calls \cup new

FanoutEnqueue(mv) ==
  LET current == {f \in fanout : ~f.expired}
  IN /\ fanout' = current
     /\ Calls({[mv |-> mv, session |-> f.session, id |-> f.id, at |-> "sent"] : f \in current})
     /\ UNCHANGED <<chat, my_channels, local, task, queue, last_frame>>

\* The alarm tries a queued row again under the lease id it was queued with.
QueueAlarm(q) ==
  /\ fanout' = {f \in fanout : ~f.expired}
  /\ Calls({[mv |-> q.mv, session |-> q.session, id |-> q.id, at |-> "sent"]})
  /\ UNCHANGED <<chat, my_channels, local, task, queue, last_frame>>

Row(d) == [mv |-> d.mv, session |-> d.session, id |-> d.id]
Enqueue(d) == /\ Cardinality(queue \cup {Row(d)}) <= MaxCalls      \* bound
              /\ queue' = queue \cup {Row(d)}

\* The alarm settles the row it tried; a direct delivery leaves the queue alone.
Settles(d) == queue' \in {queue, queue \ {Row(d)}}

Goes(d, step) == calls' = (calls \ {d}) \cup {[d EXCEPT !.at = step]}

\* handleDeliver's checks before its first await.
Acceptable(d) ==
  LET row == lease[d.session]
  IN /\ session[d.session] \in {"open", "live"}
     /\ row.status = "active" /\ row.id = d.id /\ ~row.expired
     /\ socket[d.session]

Refuse(d) == /\ d.at = "sent"
             /\ ~Acceptable(d)
             /\ Goes(d, "refused")
             /\ UNCHANGED <<chat, my_channels, local, task, fanout, queue, last_frame>>

\* The gate: the lease's version is at least the event's, so its user was a
\* member at the event or after it.
Current(d) == d.mv <= lease[d.session].mv

\* The frame goes out.  The fanout takes note, or misses the reply and
\* queues the event again, or gives it up.
Sent(d) == /\ calls' = calls \ {d}
           /\ last_frame' = [last_frame EXCEPT ![d.session] = d.mv]
           /\ \/ Settles(d)
              \/ "lost" \in Failures /\ Enqueue(d)

Send(d) == /\ d.at = "sent"
           /\ Acceptable(d)
           /\ Current(d)
           /\ Sent(d)
           /\ UNCHANGED <<chat, my_channels, local, task, fanout>>

AskMembership(d) == /\ d.at = "sent"
                    /\ Acceptable(d)
                    /\ ~Current(d)
                    /\ Goes(d, "asking")
                    /\ UNCHANGED <<chat, my_channels, local, task, fanout, queue, last_frame>>

\* Mutant: the role of someone who has left is still found.
SummaryOfFormer(d) ==
  /\ d.at = "asking"
  /\ Goes(d, IF \E v \in DOMAIN was : UserOf[d.session] \in was[v] THEN "member" ELSE "stranger")
  /\ UNCHANGED <<chat, my_channels, local, task, fanout, queue, last_frame>>

\* ChatChannel.getSummary: members of a dissolved channel still have a role.
Summary(d) == /\ d.at = "asking"
              /\ Goes(d, IF UserOf[d.session] \in active THEN "member" ELSE "stranger")
              /\ UNCHANGED <<chat, my_channels, local, task, fanout, queue, last_frame>>

\* The answer is noted in the lease as version 0, and the lease renewed.
NoteMember(d) == /\ d.at = "member"
                 /\ lease' = [lease EXCEPT ![d.session].mv = 0, ![d.session].expired = FALSE]
                 /\ Goes(d, "renewing")
                 /\ UNCHANGED <<chat, my_channels, session, socket, last_id, alarms, task,
                                fanout, queue, last_frame>>

\* leaseUpsert returns (or fails for good, which is ignored): the frame goes
\* out if the socket is still there, without another look at the lease.
SendRenewed(d) ==
  /\ d.at = "renewing"
  /\ \/ LeaseUpsert(d.session, d.id)
     \/ "fatal" \in Failures /\ UNCHANGED fanout
  /\ IF socket[d.session] THEN Sent(d)
     ELSE Goes(d, "refused") /\ UNCHANGED <<queue, last_frame>>
  /\ UNCHANGED <<chat, my_channels, local, task>>

\* closeLocalLease, for whatever lease the session has by now; the lease
\* revoked at the fanout is the one the call was made for.
DropStranger(d) == /\ d.at = "stranger"
                   /\ CloseLocalLease(d.session)
                   /\ Schedule(UserOf[d.session])
                   /\ Goes(d, "refused")
                   /\ UNCHANGED <<chat, my_channels, session, socket, last_id, task,
                                  fanout, queue, last_frame>>

\* The refusal arrives: the fanout deletes the lease and is done.
DeleteStale(d) == /\ d.at = "refused"
                  /\ LeaseRevoke(d.id)
                  /\ calls' = calls \ {d}
                  /\ Settles(d)
                  /\ UNCHANGED <<chat, my_channels, local, task, last_frame>>

\* deliver, or an RPC it awaits, fails: the fanout queues the event or, if
\* the failure is not retryable or its attempts are spent, gives it up.
DeliverFails(d) == /\ d.at \in {"sent", "asking", "renewing", "refused"}
                   /\ calls' = calls \ {d}
                   /\ \/ "lost" \in Failures /\ Enqueue(d)
                      \/ Failures # {} /\ Settles(d)
                   /\ UNCHANGED <<chat, my_channels, local, task, fanout, last_frame>>

-----------------------------------------------------------------------------
(* Time passes.  The two copies of an expiry are read by two clocks.       *)

LeaseExpires(s) ==
  /\ lease[s].status = "active" /\ ~lease[s].expired
  /\ lease' = [lease EXCEPT ![s].expired = TRUE]
  /\ UNCHANGED <<chat, my_channels, session, socket, last_id, alarms, task, deliveries>>

FanoutLeaseExpires(f) ==
  /\ ~f.expired
  /\ fanout' = (fanout \ {f}) \cup {[f EXCEPT !.expired = TRUE]}
  /\ UNCHANGED <<chat, my_channels, local, task, queue, calls, last_frame>>

-----------------------------------------------------------------------------
ChannelStep == \/ \E first \in SUBSET Users : \E o \in first : Created(first, o)
               \/ \E u \in Users : Entered(u) \/ Exited(u) \/ Restated(u)
               \/ Dissolved

OutboxStep == \E row \in rows : \/ UpdateDirectory(row)
                                \/ \E t \in Tasks : LiveMembershipsChanged(t, row)
                                \/ UnregisterUser(row)

SessionStep == \E s \in Sessions :
  \/ Connect(s)
  \/ Disconnect(s)
  \/ \E t \in Tasks : \/ LiveStart(t, s)
                      \/ Heartbeat(t, s)
                      \/ WebSocketClose(t, s)
                      \/ CloseExpired(t, s)

SyncStep == \E t \in Tasks : \/ ReadDirectory(t)
                             \/ NobodyLive(t)
                             \/ UpsertFails(t)
                             \/ \E s \in Sessions : \/ CloseUnlisted(t, s)
                                                    \/ OpenLease(t, s)
                                                    \/ NothingToDo(t, s)
                                                    \/ Upserted(t, s)
                                                    \/ Revoked(t, s)

DeliveryStep == \/ \E mv \in 1 .. version : FanoutEnqueue(mv)
                \/ \E q \in queue : QueueAlarm(q)
                \/ \E d \in calls : \/ Refuse(d)
                                    \/ Send(d)
                                    \/ AskMembership(d)
                                    \/ Summary(d)
                                    \/ NoteMember(d)
                                    \/ SendRenewed(d)
                                    \/ DropStranger(d)
                                    \/ DeleteStale(d)
                                    \/ DeliverFails(d)

TimeStep == \/ \E s \in Sessions : LeaseExpires(s)
            \/ \E f \in fanout : FanoutLeaseExpires(f)

LNext == ChannelStep \/ OutboxStep \/ SessionStep \/ SyncStep \/ DeliveryStep \/ TimeStep

LSpec == LInit /\ [][LNext]_lvars

-----------------------------------------------------------------------------
Rows == [target : {"user_directory"}, user : Users,
         action : {"join", "leave", "dissolve"}, mv : Nat]
        \cup [target : {"channel_fanout"}, user : Users]

Work == [at : {"fetching", "notified", "syncing", "upserting", "revoking"},
         why : {"start", "beat", "notify", "cleanup"},
         user : Users, todo : SUBSET Sessions, on : SUBSET Sessions, hint : Nat,
         seen : [in : BOOLEAN, mv : Nat], id : Nat]

LeaseRow == [status : {"none", "active", "closed"}, id : Nat, mv : Nat, expired : BOOLEAN]

FanoutLease == [session : Sessions, id : Nat, expired : BOOLEAN]

Call == [mv : Nat, session : Sessions, id : Nat,
         at : {"sent", "asking", "member", "stranger", "renewing", "refused"}]

\* The tables of the four objects, and the handlers under way, hold values
\* of their types.
LTypeOK ==
  /\ version \in Nat /\ active \subseteq Users /\ closed \in BOOLEAN
  /\ was \in [0 .. version -> SUBSET Users]
  /\ rows \subseteq Rows
  /\ my_channels \in [Users -> [status : Statuses, mv : Nat]]
  /\ session \in [Sessions -> {"none", "open", "live", "closed"}]
  /\ socket \in [Sessions -> BOOLEAN]
  /\ lease \in [Sessions -> LeaseRow]
  /\ last_id \in Nat
  /\ lease_alarm \in [Users -> BOOLEAN]
  /\ abandoned \subseteq Users
  /\ task \in [Tasks -> Work \cup {Idle}]
  /\ fanout \subseteq FanoutLease
  /\ queue \subseteq [mv : Nat, session : Sessions, id : Nat]
  /\ calls \subseteq Call
  /\ last_frame \in [Sessions -> Nat]

\* u was a member when the version was mv or at some time after that.
MemberSince(u, mv) == \E v \in DOMAIN was : v >= mv /\ u \in was[v]

\* u was a member at version mv.
MemberAt(u, mv) == mv \in DOMAIN was /\ u \in was[mv]

\* Nobody is sent an event of a version after the last one he was a member
\* at: whatever is lost, repeated or late, an event reaches a session only
\* if its user was a member at the event's version or later ("members only",
\* the zero-lookup gate and the two layers of revocation together).
NoLeak == \A s \in Sessions : last_frame[s] > 0 => MemberSince(UserOf[s], last_frame[s])

\* What the gate compares with: a version in a lease is 0 or one at which
\* the session's user was a member, wherever the lease was copied from.
LeaseVersionsTrue ==
  \A s \in Sessions : lease[s].mv > 0 => MemberAt(UserOf[s], lease[s].mv)

\* Outbox rows that make or keep a member say what was so at their version,
RowsTrue ==
  \A row \in rows :
    row.target = "user_directory" /\ row.action # "leave" => MemberAt(row.user, row.mv)

\* the directory rows made of them,
DirectoryTrue ==
  \A u \in Users : Listed(my_channels[u]) => MemberAt(u, my_channels[u].mv)

\* and what the handlers under way have read, for the sessions of their user.
WorkTrue ==
  \A t \in Tasks : task[t] # Idle =>
    /\ task[t].hint > 0 => MemberAt(task[t].user, task[t].hint)
    /\ task[t].seen.in => MemberAt(task[t].user, task[t].seen.mv)
    /\ task[t].todo \subseteq SessionsOf(task[t].user)

\* Deliveries carry events that have happened; one that passed the re-check
\* is for a user who was a member at its event or later.
CallsTrue ==
  /\ \A q \in queue : q.mv <= version
  /\ \A d \in calls :
       /\ d.mv <= version
       /\ d.at \in {"member", "renewing"} => MemberSince(UserOf[d.session], d.mv)

\* Every place a version is copied through on its way into a lease, and every
\* call that has passed the re-check: what NoLeak rests on.
Provenance == /\ was[version] = active
              /\ RowsTrue
              /\ DirectoryTrue
              /\ WorkTrue
              /\ CallsTrue

\* An active lease has an alarm that will close its session when it expires,
\* or a handler under way that is going to set one, whatever sessions and
\* handlers of the same object do in between.  The exception: a leaseUpsert
\* that may not be retried ends its handler before the alarm is set.
LeaseKeepsAlarm ==
  \A s \in Sessions : lease[s].status = "active" =>
    \/ lease_alarm[UserOf[s]]
    \/ \E t \in Tasks : task[t] # Idle /\ task[t].user = UserOf[s]
    \/ UserOf[s] \in abandoned

=============================================================================
