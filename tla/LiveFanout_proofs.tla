--------------------------- MODULE LiveFanout_proofs ---------------------------
(***************************************************************************)
(* Type correctness, NoLeak and the alarms of leases, for any set of users *)
(* and sessions, any number of concurrent handlers and calls, and any      *)
(* pattern of failures.                                                    *)
(***************************************************************************)
EXTENDS LiveFanout, TLAPS

-----------------------------------------------------------------------------
(* The channel only adds versions.                                         *)

\* A handler that is not idle is a record of Work.
LEMMA WorkOfTask ==
  ASSUME LTypeOK, NEW t \in Tasks, task[t].at # "idle"
  PROVE  task[t] \in Work
BY DEF LTypeOK, Idle

\* What the channel has been is never rewritten: versions that exist keep
\* their member set, and the newest one is the current member set.
LEMMA ChannelExtends ==
  ASSUME LTypeOK, ChannelStep
  PROVE  /\ version' \in Nat /\ version <= version'
         /\ active' \subseteq Users /\ closed' \in BOOLEAN
         /\ was' \in [0 .. version' -> SUBSET Users]
         /\ \A v \in 0 .. version : was'[v] = was[v]
         /\ was'[version'] = active'
<1> USE DEF LTypeOK
<1>1. ASSUME NEW first \in SUBSET Users, NEW o \in first, Created(first, o)
      PROVE  /\ version' \in Nat /\ version < version'
             /\ active' \subseteq Users /\ closed' \in BOOLEAN
  BY <1>1 DEF Created, Open
<1>2. ASSUME NEW u \in Users, Entered(u) \/ Exited(u) \/ Restated(u)
      PROVE  /\ version' \in Nat /\ version < version'
             /\ active' \subseteq Users /\ closed' \in BOOLEAN
  BY <1>2 DEF Entered, Exited, Restated, Enter, Exit, Restate
<1>3. ASSUME Dissolved
      PROVE  /\ version' \in Nat /\ version < version'
             /\ active' \subseteq Users /\ closed' \in BOOLEAN
  BY <1>3 DEF Dissolved, Close
<1>4. /\ version' \in Nat /\ version < version'
      /\ active' \subseteq Users /\ closed' \in BOOLEAN
  BY <1>1, <1>2, <1>3 DEF ChannelStep
<1>5. was' = [v \in 0 .. version' |-> IF v \in DOMAIN was THEN was[v] ELSE active']
  BY DEF ChannelStep, Created, Entered, Exited, Restated, Dissolved, Record
<1> QED BY <1>4, <1>5

-----------------------------------------------------------------------------
(* Type correctness.                                                       *)

LEMMA TypeInit == LInit => LTypeOK
<1> SUFFICES ASSUME LInit PROVE LTypeOK
  OBVIOUS
<1>1. was \in [0 .. version -> SUBSET Users]
  <2>1. 0 .. 0 = {0}
    OBVIOUS
  <2> QED BY <2>1 DEF LInit, VInit
<1>2. task \in [Tasks -> Work \cup {Idle}]
  BY DEF LInit
<1> QED BY <1>1, <1>2 DEF LInit, VInit, LTypeOK, NoRow, NoLease, Statuses, LeaseRow

LEMMA TypeChannel == LTypeOK /\ ChannelStep => LTypeOK'
<1> SUFFICES ASSUME LTypeOK, ChannelStep PROVE LTypeOK'
  OBVIOUS
<1>1. rows' \subseteq Rows
  <2> USE DEF LTypeOK, Record
  <2>1. ASSUME NEW first \in SUBSET Users, NEW o \in first, Created(first, o)
        PROVE  rows' \subseteq Rows
    BY <2>1, ChannelExtends DEF Created, UserRow, Rows
  <2>2. ASSUME NEW u \in Users, Entered(u) \/ Exited(u) \/ Restated(u)
        PROVE  rows' \subseteq Rows
    BY <2>2, ChannelExtends
       DEF Entered, Exited, Restated, Exit, UserRow, UnregisterRow, Rows
  <2>3. ASSUME Dissolved PROVE rows' \subseteq Rows
    BY <2>3, ChannelExtends DEF Dissolved, UserRow, Rows
  <2> QED BY <2>1, <2>2, <2>3 DEF ChannelStep
<1>2. UNCHANGED <<my_channels, local, task, deliveries>>
  BY DEF ChannelStep, Created, Entered, Exited, Restated, Dissolved, Record
<1> QED BY <1>1, <1>2, ChannelExtends DEF LTypeOK, local, alarms, deliveries

LEMMA TypeOutbox == LTypeOK /\ OutboxStep => LTypeOK'
<1> SUFFICES ASSUME LTypeOK, OutboxStep PROVE LTypeOK'
  OBVIOUS
<1> USE DEF LTypeOK
<1>1. ASSUME NEW row \in rows, UpdateDirectory(row) PROVE LTypeOK'
  <2>1. row \in [target : {"user_directory"}, user : Users,
                 action : {"join", "leave", "dissolve"}, mv : Nat]
    BY <1>1 DEF UpdateDirectory, Rows
  <2>2. ASSUME NEW held \in [status : Statuses, mv : Nat]
        PROVE  UpsertChannelProjection(held, row) \in [status : Statuses, mv : Nat]
    BY <2>1 DEF UpsertChannelProjection, Ignored, Becomes, NoRow, Statuses
  <2> QED BY <1>1, <2>1, <2>2 DEF UpdateDirectory, chat, local, alarms, deliveries
<1>2. ASSUME NEW row \in rows, NEW t \in Tasks, LiveMembershipsChanged(t, row)
      PROVE  LTypeOK'
  BY <1>2 DEF LiveMembershipsChanged, Hint, Rows, Work, Unread, chat, local, alarms, deliveries
<1>3. ASSUME NEW row \in rows, UnregisterUser(row) PROVE LTypeOK'
  BY <1>3 DEF UnregisterUser, chat, local, alarms
<1> QED BY <1>1, <1>2, <1>3 DEF OutboxStep

LEMMA TypeSession == LTypeOK /\ SessionStep => LTypeOK'
<1> SUFFICES ASSUME LTypeOK, NEW s \in Sessions, SessionStep PROVE LTypeOK'
  BY DEF SessionStep
<1> USE LiveAssumption DEF LTypeOK, chat, deliveries, alarms
<1>1. ASSUME NEW r \in Sessions, Connect(r) PROVE LTypeOK'
  BY <1>1 DEF Connect
<1>2. ASSUME NEW r \in Sessions, Disconnect(r) PROVE LTypeOK'
  BY <1>2 DEF Disconnect
<1>3. ASSUME NEW r \in Sessions, NEW t \in Tasks, LiveStart(t, r) \/ Heartbeat(t, r)
      PROVE  LTypeOK'
  <2>1. PICK why \in {"start", "beat"} : Begin(t, r, why)
    BY <1>3 DEF LiveStart, Heartbeat
  <2> DEFINE work == [at |-> "fetching", why |-> why, user |-> UserOf[r], todo |-> {r},
                      on |-> {}, hint |-> 0, seen |-> Unread, id |-> 0]
  <2>2. work \in Work
    BY DEF Work, Unread
  <2>3. task' = [task EXCEPT ![t] = work]
    BY <2>1 DEF Begin
  <2> HIDE DEF work
  <2>4. task' \in [Tasks -> Work \cup {Idle}]
    BY <2>2, <2>3
  <2> QED BY <2>1, <2>4 DEF Begin, local, alarms
<1>4. ASSUME NEW r \in Sessions, NEW t \in Tasks, CloseSession(t, r)
      PROVE  /\ session' \in [Sessions -> {"none", "open", "live", "closed"}]
             /\ socket' \in [Sessions -> BOOLEAN]
             /\ lease' \in [Sessions -> LeaseRow]
             /\ task' \in [Tasks -> Work \cup {Idle}]
  <2> DEFINE work == [at |-> "revoking", why |-> "cleanup", user |-> UserOf[r], todo |-> {},
                      on |-> {r}, hint |-> 0, seen |-> Unread,
                      id |-> IF lease[r].status = "active" THEN lease[r].id ELSE 0]
  <2>1. work \in Work
    BY DEF Work, Unread, LeaseRow
  <2>2. task' = [task EXCEPT ![t] = work]
    BY <1>4 DEF CloseSession
  <2> HIDE DEF work
  <2>3. task' \in [Tasks -> Work \cup {Idle}]
    BY <2>1, <2>2
  <2>4. lease' \in [Sessions -> LeaseRow]
    <3>1. [lease[r] EXCEPT !.status = IF @ = "active" THEN "closed" ELSE @] \in LeaseRow
      BY ZenonT(60) DEF LeaseRow
    <3>2. lease' = [lease EXCEPT ![r] =
                      [lease[r] EXCEPT !.status = IF @ = "active" THEN "closed" ELSE @]]
      BY <1>4 DEF CloseSession
    <3> QED BY <3>1, <3>2
  <2> QED BY <1>4, <2>3, <2>4 DEF CloseSession
<1>5. ASSUME NEW r \in Sessions, NEW t \in Tasks, WebSocketClose(t, r) PROVE LTypeOK'
  BY <1>4, <1>5 DEF WebSocketClose
<1>6. ASSUME NEW r \in Sessions, NEW t \in Tasks, CloseExpired(t, r) PROVE LTypeOK'
  BY <1>4, <1>6 DEF CloseExpired
<1> QED BY <1>1, <1>2, <1>3, <1>5, <1>6 DEF SessionStep

\* The end of a visit keeps the types of what it assigns.
LEMMA TypeVisited ==
  ASSUME LTypeOK, NEW t \in Tasks, NEW s \in Sessions, task[t].at # "idle", Visited(t, s)
  PROVE  /\ lease_alarm' \in [Users -> BOOLEAN] /\ abandoned' \subseteq Users
         /\ session' \in [Sessions -> {"none", "open", "live", "closed"}]
         /\ task' \in [Tasks -> Work \cup {Idle}]
<1> DEFINE rest == Todo(task[t]) \ {s}
<1>1. task[t] \in Work
  BY WorkOfTask
<1>2. rest \subseteq Sessions
  BY <1>1 DEF Todo, SessionsOf, Work
<1>3. [task[t] EXCEPT !.at = "syncing", !.todo = rest, !.on = {}, !.id = 0] \in Work
  BY <1>1, <1>2 DEF Work
<1> HIDE DEF rest
<1>4. task' = [task EXCEPT ![t] =
        IF rest = {} THEN Idle
        ELSE [task[t] EXCEPT !.at = "syncing", !.todo = rest, !.on = {}, !.id = 0]]
  BY <1>1 DEF Visited, rest, LTypeOK
<1> QED BY <1>3, <1>4 DEF Visited, Schedule, LTypeOK

LEMMA TypeUpsert ==
  ASSUME LTypeOK, NEW s \in Sessions, NEW id \in Nat, LeaseUpsert(s, id)
  PROVE  fanout' \subseteq FanoutLease
<1> DEFINE new == [session |-> s, id |-> id, expired |-> FALSE]
<1>1. new \in FanoutLease
  BY DEF FanoutLease
<1>2. fanout' = {f \in fanout : f.id # id} \cup {new}
  BY DEF LeaseUpsert
<1> HIDE DEF new
<1> QED BY <1>1, <1>2 DEF LTypeOK

LEMMA TypeSync == LTypeOK /\ SyncStep => LTypeOK'
<1> SUFFICES ASSUME LTypeOK, SyncStep PROVE LTypeOK'
  OBVIOUS
<1> USE DEF chat, alarms
<1>1. ASSUME NEW t \in Tasks, ReadDirectory(t) PROVE LTypeOK'
  <2> DEFINE held == my_channels[task[t].user]
             seen == IF Listed(held) THEN [in |-> TRUE, mv |-> held.mv]
                     ELSE [in |-> task[t].hint > 0, mv |-> task[t].hint]
             at == IF task[t].why = "notify" THEN "notified" ELSE "syncing"
  <2>1. task[t] \in Work
    BY <1>1, WorkOfTask DEF ReadDirectory
  <2>2. held \in [status : Statuses, mv : Nat]
    BY <2>1 DEF LTypeOK, Work
  <2>3. seen \in [in : BOOLEAN, mv : Nat]
    BY <2>1, <2>2 DEF Work
  <2> HIDE DEF seen
  <2>4. [task[t] EXCEPT !.at = at, !.seen = seen] \in Work
    BY <2>1, <2>3 DEF Work
  <2>5. task' = [task EXCEPT ![t] = [task[t] EXCEPT !.at = at, !.seen = seen]]
    BY <1>1, <2>1 DEF ReadDirectory, seen, LTypeOK
  <2>6. task' \in [Tasks -> Work \cup {Idle}]
    BY <2>4, <2>5 DEF LTypeOK
  <2> QED BY <1>1, <2>6 DEF ReadDirectory, LTypeOK, local, alarms, deliveries
<1>2. ASSUME NEW t \in Tasks, NobodyLive(t) \/ UpsertFails(t) PROVE LTypeOK'
  <2>1. CASE NobodyLive(t)
    BY <2>1 DEF NobodyLive, LTypeOK, local, deliveries
  <2>2. CASE UpsertFails(t)
    <3>1. task[t].user \in Users
      BY <2>2, WorkOfTask DEF UpsertFails, Work
    <3>2. abandoned' \subseteq Users
      BY <2>2, <3>1 DEF UpsertFails, LTypeOK
    <3> QED BY <2>2, <3>2 DEF UpsertFails, LTypeOK, deliveries
  <2> QED BY <1>2, <2>1, <2>2
<1>3. ASSUME NEW t \in Tasks, NEW s \in Sessions, task[t] \in Work,
             NEW step \in {"upserting", "revoking"}, NEW id \in Nat, Await(t, s, step, id)
      PROVE  task' \in [Tasks -> Work \cup {Idle}]
  <2> DEFINE rest == Todo(task[t]) \ {s}
  <2>1. rest \subseteq Sessions
    BY <1>3 DEF Todo, SessionsOf, Work
  <2>2. task' = [task EXCEPT ![t] =
          [task[t] EXCEPT !.at = step, !.todo = rest, !.on = {s}, !.id = id]]
    BY <1>3 DEF Await, LTypeOK
  <2> HIDE DEF rest
  <2>3. [task[t] EXCEPT !.at = step, !.todo = rest, !.on = {s}, !.id = id] \in Work
    BY <1>3, <2>1 DEF Work
  <2> QED BY <2>2, <2>3 DEF LTypeOK
<1>4. ASSUME NEW t \in Tasks, NEW s \in Sessions, CloseUnlisted(t, s) PROVE LTypeOK'
  <2>1. task[t] \in Work
    BY <1>4, WorkOfTask DEF CloseUnlisted, Syncs
  <2>2. task' \in [Tasks -> Work \cup {Idle}]
    BY <1>3, <1>4, <2>1 DEF CloseUnlisted, LTypeOK, LeaseRow
  <2> QED BY <1>4, <2>2 DEF CloseUnlisted, CloseLocalLease, Schedule, LTypeOK, deliveries, LeaseRow
<1>5. ASSUME NEW t \in Tasks, NEW s \in Sessions, OpenLease(t, s) PROVE LTypeOK'
  <2>1. task[t] \in Work
    BY <1>5, WorkOfTask DEF OpenLease, Syncs
  <2>2. task' \in [Tasks -> Work \cup {Idle}]
    BY <1>3, <1>5, <2>1 DEF OpenLease, LTypeOK, LeaseRow
  <2> DEFINE id == IF lease[s].status = "active" THEN lease[s].id ELSE last_id + 1
             row == [status |-> "active", id |-> id, mv |-> task[t].seen.mv, expired |-> FALSE]
  <2>3. row \in LeaseRow /\ last_id' \in Nat
    BY <1>5, <2>1 DEF OpenLease, LTypeOK, LeaseRow, Work
  <2>4. lease' = [lease EXCEPT ![s] = row]
    BY <1>5 DEF OpenLease
  <2> HIDE DEF row
  <2>5. lease' \in [Sessions -> LeaseRow]
    BY <2>3, <2>4 DEF LTypeOK
  <2> QED BY <1>5, <2>2, <2>3, <2>5 DEF OpenLease, LTypeOK, deliveries
<1>6. ASSUME NEW t \in Tasks, NEW s \in Sessions, NothingToDo(t, s) PROVE LTypeOK'
  BY <1>6, TypeVisited DEF NothingToDo, Syncs, LTypeOK, deliveries
<1>7. ASSUME NEW t \in Tasks, NEW s \in Sessions, Upserted(t, s) PROVE LTypeOK'
  <2>1. task[t] \in Work
    BY <1>7, WorkOfTask DEF Upserted
  <2>2. fanout' \subseteq FanoutLease
    BY <1>7, <2>1, TypeUpsert DEF Upserted, LTypeOK, Work
  <2> QED BY <1>7, <2>2, TypeVisited DEF Upserted, LTypeOK
<1>8. ASSUME NEW t \in Tasks, NEW s \in Sessions, Revoked(t, s) PROVE LTypeOK'
  BY <1>8, TypeVisited DEF Revoked, LeaseRevoke, LTypeOK
<1> QED BY <1>1, <1>2, <1>4, <1>5, <1>6, <1>7, <1>8 DEF SyncStep

LEMMA TypeDelivery == LTypeOK /\ DeliveryStep => LTypeOK'
<1> SUFFICES ASSUME LTypeOK, DeliveryStep PROVE LTypeOK'
  OBVIOUS
<1> USE DEF chat, local, alarms
<1>1. ASSUME NEW mv \in 1 .. version, FanoutEnqueue(mv) PROVE LTypeOK'
  BY <1>1 DEF FanoutEnqueue, Calls, Call, LTypeOK, FanoutLease
<1>2. ASSUME NEW q \in queue, QueueAlarm(q) PROVE LTypeOK'
  <2> DEFINE d == [mv |-> q.mv, session |-> q.session, id |-> q.id, at |-> "sent"]
  <2>1. d \in Call
    BY DEF Call, LTypeOK
  <2>2. calls' = calls \cup {d}
    BY <1>2 DEF QueueAlarm, Calls
  <2> HIDE DEF d
  <2> QED BY <1>2, <2>1, <2>2 DEF QueueAlarm, LTypeOK
<1>3. ASSUME NEW d \in calls, NEW step \in {"asking", "member", "stranger", "renewing", "refused"},
             Goes(d, step)
      PROVE  calls' \subseteq Call
  BY <1>3 DEF Goes, Call, LTypeOK
<1>4. ASSUME NEW d \in calls PROVE Row(d) \in [mv : Nat, session : Sessions, id : Nat]
  BY DEF Row, Call, LTypeOK
<1>5. ASSUME NEW d \in calls, Sent(d)
      PROVE  /\ calls' \subseteq Call
             /\ queue' \subseteq [mv : Nat, session : Sessions, id : Nat]
             /\ last_frame' \in [Sessions -> Nat]
  BY <1>4, <1>5 DEF Sent, Enqueue, Settles, Call, LTypeOK
<1>6. ASSUME NEW d \in calls, Refuse(d) \/ AskMembership(d) \/ Summary(d) PROVE LTypeOK'
  BY <1>3, <1>6 DEF Refuse, AskMembership, Summary, LTypeOK
<1>7. ASSUME NEW d \in calls, Send(d) PROVE LTypeOK'
  BY <1>5, <1>7 DEF Send, LTypeOK
<1>8. ASSUME NEW d \in calls, NoteMember(d) PROVE LTypeOK'
  <2>1. d.session \in Sessions
    BY DEF LTypeOK, Call
  <2>2. lease[d.session] \in LeaseRow
    BY <2>1 DEF LTypeOK
  <2>3. [lease[d.session] EXCEPT !.mv = 0, !.expired = FALSE] \in LeaseRow
    BY <2>2 DEF LeaseRow
  <2>4. lease' = [lease EXCEPT ![d.session] = [lease[d.session] EXCEPT !.mv = 0, !.expired = FALSE]]
    BY <1>8, <2>1 DEF NoteMember, LTypeOK
  <2>5. lease' \in [Sessions -> LeaseRow]
    BY <2>3, <2>4 DEF LTypeOK
  <2>6. calls' \subseteq Call
    BY <1>3, <1>8 DEF NoteMember
  <2> QED BY <1>8, <2>5, <2>6 DEF NoteMember, LTypeOK
<1>9. ASSUME NEW d \in calls, SendRenewed(d) PROVE LTypeOK'
  <2>1. fanout' \subseteq FanoutLease
    BY <1>9, TypeUpsert DEF SendRenewed, LTypeOK, Call
  <2> QED BY <1>3, <1>5, <1>9, <2>1 DEF SendRenewed, LTypeOK
<1>10. ASSUME NEW d \in calls, DropStranger(d) PROVE LTypeOK'
  BY <1>3, <1>10, ZenonT(60) DEF DropStranger, CloseLocalLease, Schedule, LTypeOK, LeaseRow
<1>11. ASSUME NEW d \in calls, DeleteStale(d) \/ DeliverFails(d) PROVE LTypeOK'
  BY <1>4, <1>11 DEF DeleteStale, DeliverFails, LeaseRevoke, Enqueue, Settles, LTypeOK
<1> QED BY <1>1, <1>2, <1>6, <1>7, <1>8, <1>9, <1>10, <1>11 DEF DeliveryStep

LEMMA TypeTime == LTypeOK /\ TimeStep => LTypeOK'
<1> USE DEF LTypeOK, chat, local, alarms, deliveries
<1>1. ASSUME LTypeOK, NEW s \in Sessions, LeaseExpires(s) PROVE LTypeOK'
  BY <1>1, ZenonT(60) DEF LeaseExpires, LeaseRow
<1>2. ASSUME LTypeOK, NEW f \in fanout, FanoutLeaseExpires(f) PROVE LTypeOK'
  BY <1>2 DEF FanoutLeaseExpires, FanoutLease
<1> QED BY <1>1, <1>2 DEF TimeStep

LEMMA TypeStutter == LTypeOK /\ UNCHANGED lvars => LTypeOK'
BY DEF LTypeOK, lvars, chat, local, alarms, deliveries

\* Every step of every handler, in any interleaving, keeps the tables of the
\* four objects within their columns' types.
THEOREM TypeCorrect == LSpec => []LTypeOK
<1>1. LTypeOK /\ [LNext]_lvars => LTypeOK'
  BY TypeChannel, TypeOutbox, TypeSession, TypeSync, TypeDelivery, TypeTime, TypeStutter
     DEF LNext
<1> QED BY TypeInit, <1>1, PTL DEF LSpec

-----------------------------------------------------------------------------
(* NoLeak.  It is not inductive: a frame is sent because of the version in *)
(* a lease or of an answer of the channel, so the invariant has to follow  *)
(* a version from the member set it stands for through the outbox, the     *)
(* directory and the handlers into the lease.                              *)

IInv == LTypeOK /\ Provenance /\ LeaseVersionsTrue /\ NoLeak

\* Who was a member at a version, or since it, stays so.
LEMMA MemberStays ==
  ASSUME LTypeOK, ChannelStep
  PROVE  \A u, mv : /\ MemberAt(u, mv) => MemberAt(u, mv)'
                    /\ MemberSince(u, mv) => MemberSince(u, mv)'
<1>1. /\ DOMAIN was = 0 .. version /\ DOMAIN was' = 0 .. version'
      /\ version \in Nat /\ version' \in Nat /\ version <= version'
  BY ChannelExtends DEF LTypeOK
<1>2. \A v \in DOMAIN was : v \in DOMAIN was' /\ was'[v] = was[v]
  BY <1>1, ChannelExtends
<1> QED BY <1>2 DEF MemberAt, MemberSince

LEMMA LeakInit == LInit => IInv
<1> SUFFICES ASSUME LInit PROVE IInv
  OBVIOUS
<1>1. Provenance
  BY DEF LInit, VInit, Provenance, RowsTrue, DirectoryTrue, WorkTrue, CallsTrue, Listed, NoRow
<1>2. LeaseVersionsTrue /\ NoLeak
  BY DEF LInit, LeaseVersionsTrue, NoLeak, NoLease
<1> QED BY <1>1, <1>2, TypeInit DEF IInv

\* The rows a step of the channel writes are true of the version they carry.
LEMMA WrittenTrue ==
  ASSUME LTypeOK, RowsTrue, was[version] = active, ChannelStep
  PROVE  RowsTrue'
<1> DEFINE InAt(u, v) == v \in 0 .. version' /\ u \in was'[v]
<1>1. /\ was'[version'] = active' /\ version' \in Nat /\ DOMAIN was' = 0 .. version'
  BY ChannelExtends
<1>2. \A u \in active' : InAt(u, version')
  BY <1>1
<1>3. \A row \in rows :
        row.target = "user_directory" /\ row.action # "leave" => InAt(row.user, row.mv)
  <2>1. \A u, v : MemberAt(u, v) => InAt(u, v)
    BY <1>1, MemberStays DEF MemberAt
  <2> HIDE DEF InAt
  <2> QED BY <2>1 DEF RowsTrue
<1>4. ASSUME \A row \in rows' \ rows :
               row.target = "user_directory" /\ row.action # "leave" => InAt(row.user, row.mv)
      PROVE  RowsTrue'
  BY <1>1, <1>3, <1>4 DEF RowsTrue, MemberAt
<1>5. ASSUME NEW first \in SUBSET Users, NEW o \in first, Created(first, o) PROVE RowsTrue'
  <2>1. InAt(o, 1)
    BY <1>1, <1>5 DEF Created, Open, Record, LTypeOK
  <2>2. active' = first
    BY <1>5 DEF Created, Open
  <2> HIDE DEF InAt
  <2> QED BY <1>2, <1>4, <1>5, <2>1, <2>2 DEF Created, Record, UserRow
<1>6. ASSUME NEW u \in Users, Entered(u) \/ Exited(u) \/ Restated(u) PROVE RowsTrue'
  <2> HIDE DEF InAt
  <2> QED BY <1>2, <1>4, <1>6
          DEF Entered, Exited, Restated, Enter, Exit, Restate, Record, UserRow, UnregisterRow
<1>7. ASSUME Dissolved PROVE RowsTrue'
  <2> HIDE DEF InAt
  <2> QED BY <1>2, <1>4, <1>7 DEF Dissolved, Close, Record, UserRow
<1> QED BY <1>5, <1>6, <1>7 DEF ChannelStep

LEMMA LeakChannel == IInv /\ ChannelStep => IInv'
<1> SUFFICES ASSUME IInv, ChannelStep PROVE IInv'
  OBVIOUS
<1> USE DEF IInv
<1>1. UNCHANGED <<my_channels, lease, task, queue, calls, last_frame>>
  BY DEF ChannelStep, Created, Entered, Exited, Restated, Dissolved, Record, local, deliveries
<1>2. RowsTrue' /\ was'[version'] = active'
  BY WrittenTrue, ChannelExtends DEF Provenance
<1>3. DirectoryTrue'
  BY <1>1, MemberStays DEF Provenance, DirectoryTrue
<1>4. WorkTrue'
  BY <1>1, MemberStays DEF Provenance, WorkTrue
<1>5. CallsTrue'
  <2>1. version \in Nat /\ version' \in Nat /\ version <= version'
    BY ChannelExtends DEF LTypeOK
  <2>2. /\ \A q \in queue : q.mv \in Nat
        /\ \A d \in calls : d.mv \in Nat
    BY DEF LTypeOK, Call
  <2> QED BY <1>1, <2>1, <2>2, MemberStays DEF Provenance, CallsTrue
<1>6. LeaseVersionsTrue'
  BY <1>1, MemberStays DEF LeaseVersionsTrue
<1>7. NoLeak'
  BY <1>1, MemberStays DEF NoLeak
<1> QED BY <1>2, <1>3, <1>4, <1>5, <1>6, <1>7, TypeChannel DEF Provenance

\* What a step that is not the channel's has to show.
LEMMA LeakLocal ==
  ASSUME IInv, LTypeOK', UNCHANGED chat,
         DirectoryTrue', WorkTrue', CallsTrue', LeaseVersionsTrue', NoLeak'
  PROVE  IInv'
BY DEF IInv, Provenance, RowsTrue, MemberAt, chat

LEMMA LeakOutbox == IInv /\ OutboxStep => IInv'
<1> SUFFICES ASSUME IInv, OutboxStep PROVE IInv'
  OBVIOUS
<1>1. LTypeOK' /\ UNCHANGED chat /\ UNCHANGED <<lease, last_frame, calls>>
  BY TypeOutbox DEF IInv, OutboxStep, UpdateDirectory, LiveMembershipsChanged, UnregisterUser,
                    local, deliveries
<1>2. LeaseVersionsTrue' /\ NoLeak'
  BY <1>1 DEF IInv, LeaseVersionsTrue, NoLeak, MemberAt, MemberSince, chat
<1>3. queue' \subseteq queue
  BY DEF OutboxStep, UpdateDirectory, LiveMembershipsChanged, UnregisterUser, deliveries
<1>4. CallsTrue'
  BY <1>1, <1>3 DEF IInv, Provenance, CallsTrue, MemberSince, chat
<1>5. DirectoryTrue'
  <2>1. ASSUME NEW row \in rows, UpdateDirectory(row) PROVE DirectoryTrue'
    <3>1. row \in [target : {"user_directory"}, user : Users,
                   action : {"join", "leave", "dissolve"}, mv : Nat]
      BY <2>1 DEF UpdateDirectory, Rows, IInv, LTypeOK
    <3>2. row.action # "leave" => MemberAt(row.user, row.mv)
      BY <3>1 DEF IInv, Provenance, RowsTrue
    <3>3. \A u \in Users : Listed(my_channels[u]) => MemberAt(u, my_channels[u].mv)
      BY DEF IInv, Provenance, DirectoryTrue
    <3> DEFINE held == my_channels[row.user]
               next == UpsertChannelProjection(held, row)
    <3>4. next = held \/ (next.mv = row.mv /\ (Listed(next) => row.action # "leave"))
      BY <3>1 DEF UpsertChannelProjection, Becomes, Listed
    <3>5. my_channels' = [my_channels EXCEPT ![row.user] = next]
      BY <2>1 DEF UpdateDirectory
    <3>6. Listed(next) => MemberAt(row.user, next.mv)
      BY <3>1, <3>2, <3>3, <3>4
    <3> HIDE DEF next
    <3>7. ASSUME NEW u \in Users, Listed(my_channels'[u]) PROVE MemberAt(u, my_channels'[u].mv)
      BY <3>1, <3>3, <3>5, <3>6, <3>7 DEF IInv, LTypeOK
    <3> QED BY <1>1, <3>7 DEF DirectoryTrue, Listed, MemberAt, chat
  <2>2. ASSUME UNCHANGED my_channels PROVE DirectoryTrue'
    BY <1>1, <2>2 DEF IInv, Provenance, DirectoryTrue, MemberAt, chat
  <2> QED BY <2>1, <2>2 DEF OutboxStep, LiveMembershipsChanged, UnregisterUser
<1>6. WorkTrue'
  <2>1. ASSUME NEW row \in rows, NEW t \in Tasks, LiveMembershipsChanged(t, row) PROVE WorkTrue'
    <3> DEFINE work == [at |-> "fetching", why |-> "notify", user |-> row.user, todo |-> {},
                        on |-> {}, hint |-> Hint(row),
                        seen |-> Unread, id |-> 0]
    <3>1. row.action # "leave" => MemberAt(row.user, row.mv)
      BY <2>1 DEF LiveMembershipsChanged, IInv, Provenance, RowsTrue
    <3>2. /\ work.hint > 0 => MemberAt(work.user, work.hint)
          /\ ~work.seen.in /\ work.todo = {}
      BY <3>1 DEF Unread, Hint
    <3>3. task' = [task EXCEPT ![t] = work]
      BY <2>1 DEF LiveMembershipsChanged
    <3> HIDE DEF work
    <3> QED BY <1>1, <3>2, <3>3 DEF IInv, LTypeOK, Provenance, WorkTrue, MemberAt, chat
  <2>2. ASSUME UNCHANGED task PROVE WorkTrue'
    BY <1>1, <2>2 DEF IInv, Provenance, WorkTrue, MemberAt, chat
  <2> QED BY <2>1, <2>2 DEF OutboxStep, UpdateDirectory, UnregisterUser
<1> QED BY <1>1, <1>2, <1>4, <1>5, <1>6, LeakLocal

LEMMA LeakSession == IInv /\ SessionStep => IInv'
<1> SUFFICES ASSUME IInv, SessionStep PROVE IInv'
  OBVIOUS
<1>1. LTypeOK' /\ UNCHANGED <<chat, my_channels, deliveries>>
  BY TypeSession
     DEF IInv, SessionStep, Connect, Disconnect, LiveStart, Heartbeat, Begin,
         WebSocketClose, CloseExpired
<1>2. DirectoryTrue' /\ CallsTrue' /\ NoLeak'
  BY <1>1 DEF IInv, Provenance, DirectoryTrue, CallsTrue, NoLeak, MemberAt, MemberSince,
              chat, deliveries
<1>3. \A s \in Sessions : lease'[s].mv = lease[s].mv
  <2>1. ASSUME NEW s \in Sessions, NEW t \in Tasks, CloseSession(t, s)
        PROVE  \A r \in Sessions : lease'[r].mv = lease[r].mv
    <3> DEFINE row == [lease[s] EXCEPT !.status = IF @ = "active" THEN "closed" ELSE @]
    <3>1. row.mv = lease[s].mv
      BY DEF IInv, LTypeOK, LeaseRow
    <3>2. lease' = [lease EXCEPT ![s] = row]
      BY <2>1 DEF CloseSession
    <3> HIDE DEF row
    <3> QED BY <3>1, <3>2 DEF IInv, LTypeOK
  <2>2. ASSUME UNCHANGED lease PROVE \A s \in Sessions : lease'[s].mv = lease[s].mv
    BY <2>2
  <2> QED BY <2>1, <2>2
          DEF SessionStep, Connect, Disconnect, LiveStart, Heartbeat, Begin, local,
              WebSocketClose, CloseExpired
<1>4. LeaseVersionsTrue'
  BY <1>1, <1>3 DEF IInv, LeaseVersionsTrue, MemberAt, chat
<1>5. ASSUME NEW t \in Tasks, NEW work,
             task' = [task EXCEPT ![t] = work],
             work.hint = 0, ~work.seen.in, work.todo \subseteq SessionsOf(work.user)
      PROVE  WorkTrue'
  BY <1>1, <1>5 DEF IInv, LTypeOK, Provenance, WorkTrue, MemberAt, SessionsOf, chat
<1>6. WorkTrue'
  <2>1. ASSUME NEW s \in Sessions, NEW t \in Tasks, NEW why, Begin(t, s, why) PROVE WorkTrue'
    <3> DEFINE work == [at |-> "fetching", why |-> why, user |-> UserOf[s], todo |-> {s},
                        on |-> {}, hint |-> 0, seen |-> Unread, id |-> 0]
    <3>1. work.hint = 0 /\ ~work.seen.in /\ work.todo \subseteq SessionsOf(work.user)
      BY DEF Unread, SessionsOf
    <3>2. task' = [task EXCEPT ![t] = work]
      BY <2>1 DEF Begin
    <3> HIDE DEF work
    <3> QED BY <1>5, <3>1, <3>2
  <2>2. ASSUME NEW s \in Sessions, NEW t \in Tasks, CloseSession(t, s) PROVE WorkTrue'
    <3> DEFINE work == [at |-> "revoking", why |-> "cleanup", user |-> UserOf[s], todo |-> {},
                        on |-> {s}, hint |-> 0, seen |-> Unread,
                        id |-> IF lease[s].status = "active" THEN lease[s].id ELSE 0]
    <3>1. work.hint = 0 /\ ~work.seen.in /\ work.todo \subseteq SessionsOf(work.user)
      BY DEF Unread
    <3>2. task' = [task EXCEPT ![t] = work]
      BY <2>2 DEF CloseSession
    <3> HIDE DEF work
    <3> QED BY <1>5, <3>1, <3>2
  <2>3. ASSUME UNCHANGED task PROVE WorkTrue'
    BY <1>1, <2>3 DEF IInv, Provenance, WorkTrue, MemberAt, SessionsOf, chat
  <2> QED BY <2>1, <2>2, <2>3
          DEF SessionStep, Connect, Disconnect, LiveStart, Heartbeat, WebSocketClose, CloseExpired
<1> QED BY <1>1, <1>2, <1>4, <1>6, LeakLocal

\* A handler that goes on with the work it has keeps WorkTrue.
LEMMA WorkGoesOn ==
  ASSUME IInv, UNCHANGED chat, NEW t \in Tasks, NEW work,
         task' = [task EXCEPT ![t] = work],
         work # Idle => /\ work.user = task[t].user
                        /\ work.hint = task[t].hint
                        /\ work.seen = task[t].seen
                        /\ work.todo \subseteq SessionsOf(task[t].user),
         task[t] # Idle
  PROVE  WorkTrue'
BY DEF IInv, LTypeOK, Provenance, WorkTrue, MemberAt, SessionsOf, chat

\* The sessions a handler visits are its user's.
LEMMA TodoOwn ==
  ASSUME IInv, NEW t \in Tasks, task[t] # Idle
  PROVE  Todo(task[t]) \subseteq SessionsOf(task[t].user)
BY DEF IInv, Provenance, WorkTrue, Todo, SessionsOf

LEMMA VisitedTrue ==
  ASSUME IInv, UNCHANGED chat, NEW t \in Tasks, NEW s \in Sessions, task[t].at # "idle",
         Visited(t, s)
  PROVE  WorkTrue'
<1> DEFINE rest == Todo(task[t]) \ {s}
           next == [task[t] EXCEPT !.at = "syncing", !.todo = rest, !.on = {}, !.id = 0]
           work == IF rest = {} THEN Idle ELSE next
<1>1. task[t] \in Work /\ task[t] # Idle
  BY WorkOfTask DEF IInv, Idle
<1>2. rest \subseteq SessionsOf(task[t].user)
  BY <1>1, TodoOwn
<1> HIDE DEF rest
<1>3. /\ next.user = task[t].user /\ next.hint = task[t].hint
      /\ next.seen = task[t].seen /\ next.todo = rest
  BY <1>1 DEF Work
<1>4. task' = [task EXCEPT ![t] = work]
  BY <1>1 DEF Visited, rest, IInv, LTypeOK
<1> HIDE DEF next
<1> QED BY <1>1, <1>2, <1>3, <1>4, WorkGoesOn

LEMMA AwaitTrue ==
  ASSUME IInv, UNCHANGED chat, NEW t \in Tasks, NEW s \in Sessions, NEW step, NEW id,
         task[t].at # "idle", Await(t, s, step, id)
  PROVE  WorkTrue'
<1> DEFINE rest == Todo(task[t]) \ {s}
           work == [task[t] EXCEPT !.at = step, !.todo = rest, !.on = {s}, !.id = id]
<1>1. task[t] \in Work /\ task[t] # Idle
  BY WorkOfTask DEF IInv, Idle
<1>2. rest \subseteq SessionsOf(task[t].user)
  BY <1>1, TodoOwn
<1> HIDE DEF rest
<1>3. /\ work.user = task[t].user /\ work.hint = task[t].hint
      /\ work.seen = task[t].seen /\ work.todo = rest
  BY <1>1 DEF Work
<1>4. task' = [task EXCEPT ![t] = work]
  BY <1>1 DEF Await, rest, IInv, LTypeOK
<1> HIDE DEF work
<1> QED BY <1>1, <1>2, <1>3, <1>4, WorkGoesOn

LEMMA LeakSync == IInv /\ SyncStep => IInv'
<1> SUFFICES ASSUME IInv, SyncStep PROVE IInv'
  OBVIOUS
<1>1. /\ LTypeOK'
      /\ UNCHANGED <<chat, my_channels, queue, calls, last_frame>>
  BY TypeSync
     DEF IInv, SyncStep, ReadDirectory, NobodyLive, UpsertFails, CloseUnlisted, OpenLease,
         NothingToDo, Upserted, Revoked, deliveries
<1>2. DirectoryTrue' /\ CallsTrue' /\ NoLeak'
  BY <1>1 DEF IInv, Provenance, DirectoryTrue, CallsTrue, NoLeak, MemberAt, MemberSince, chat
<1>3. SUFFICES LeaseVersionsTrue' /\ WorkTrue'
  BY <1>1, <1>2, LeakLocal
<1>4. ASSUME \A s \in Sessions : lease'[s].mv = lease[s].mv PROVE LeaseVersionsTrue'
  BY <1>1, <1>4 DEF IInv, LeaseVersionsTrue, MemberAt, chat
<1>5. ASSUME NEW t \in Tasks, ReadDirectory(t) PROVE LeaseVersionsTrue' /\ WorkTrue'
  <2> DEFINE held == my_channels[task[t].user]
             seen == IF Listed(held) THEN [in |-> TRUE, mv |-> held.mv]
                     ELSE [in |-> task[t].hint > 0, mv |-> task[t].hint]
             at == IF task[t].why = "notify" THEN "notified" ELSE "syncing"
             work == [task[t] EXCEPT !.at = at, !.seen = seen]
  <2>1. task[t] \in Work /\ task[t] # Idle
    BY <1>5, WorkOfTask DEF ReadDirectory, IInv, Idle
  <2>2. seen.in => MemberAt(task[t].user, seen.mv)
    BY <2>1 DEF IInv, Provenance, WorkTrue, DirectoryTrue, Work
  <2> HIDE DEF seen, at
  <2>3. /\ work.user = task[t].user /\ work.hint = task[t].hint /\ work.seen = seen
        /\ work.todo = task[t].todo
    BY <2>1 DEF Work
  <2>4. task' = [task EXCEPT ![t] = work]
    BY <1>5, <2>1 DEF ReadDirectory, seen, at, IInv, LTypeOK
  <2> HIDE DEF work
  <2>5. WorkTrue'
    BY <1>1, <2>1, <2>2, <2>3, <2>4
       DEF IInv, LTypeOK, Provenance, WorkTrue, MemberAt, SessionsOf, chat
  <2> QED BY <1>4, <1>5, <2>5 DEF ReadDirectory, local
<1>6. ASSUME NEW t \in Tasks, NobodyLive(t) \/ UpsertFails(t)
      PROVE  LeaseVersionsTrue' /\ WorkTrue'
  <2>1. task[t] # Idle /\ task' = [task EXCEPT ![t] = Idle]
    BY <1>6 DEF NobodyLive, UpsertFails, Idle
  <2>2. WorkTrue'
    BY <1>1, <2>1, WorkGoesOn
  <2> QED BY <1>4, <1>6, <2>2 DEF NobodyLive, UpsertFails, local
<1>7. ASSUME NEW t \in Tasks, NEW s \in Sessions, CloseUnlisted(t, s)
      PROVE  LeaseVersionsTrue' /\ WorkTrue'
  <2>1. WorkTrue'
    BY <1>1, <1>7, AwaitTrue DEF CloseUnlisted, Syncs
  <2>2. \A r \in Sessions : lease'[r].mv = lease[r].mv
    BY <1>7 DEF CloseUnlisted, CloseLocalLease, IInv, LTypeOK, LeaseRow
  <2> QED BY <1>4, <2>1, <2>2
<1>8. ASSUME NEW t \in Tasks, NEW s \in Sessions, OpenLease(t, s)
      PROVE  LeaseVersionsTrue' /\ WorkTrue'
  <2>1. WorkTrue'
    BY <1>1, <1>8, AwaitTrue DEF OpenLease, Syncs
  <2>2. task[t] # Idle /\ s \in Todo(task[t]) /\ task[t].seen.in
    BY <1>8 DEF OpenLease, Syncs, Idle
  <2>3. UserOf[s] = task[t].user /\ MemberAt(UserOf[s], task[t].seen.mv)
    BY <2>2, TodoOwn DEF SessionsOf, IInv, Provenance, WorkTrue
  <2> DEFINE row == [status |-> "active",
                     id |-> IF lease[s].status = "active" THEN lease[s].id ELSE last_id + 1,
                     mv |-> task[t].seen.mv, expired |-> FALSE]
  <2>4. lease' = [lease EXCEPT ![s] = row]
    BY <1>8 DEF OpenLease
  <2>5. row.mv = task[t].seen.mv
    OBVIOUS
  <2> HIDE DEF row
  <2>6. LeaseVersionsTrue'
    BY <1>1, <2>3, <2>4, <2>5 DEF IInv, LTypeOK, LeaseVersionsTrue, MemberAt, chat
  <2> QED BY <2>1, <2>6
<1>9. ASSUME NEW t \in Tasks, NEW s \in Sessions,
             NothingToDo(t, s) \/ Upserted(t, s) \/ Revoked(t, s)
      PROVE  LeaseVersionsTrue' /\ WorkTrue'
  <2>1. WorkTrue'
    BY <1>1, <1>9, VisitedTrue DEF NothingToDo, Upserted, Revoked, Syncs
  <2> QED BY <1>4, <1>9, <2>1 DEF NothingToDo, Upserted, Revoked
<1> QED BY <1>5, <1>6, <1>7, <1>8, <1>9 DEF SyncStep

LEMMA LeakDelivery == IInv /\ DeliveryStep => IInv'
<1> SUFFICES ASSUME IInv, DeliveryStep PROVE IInv'
  OBVIOUS
<1>1. LTypeOK' /\ UNCHANGED <<chat, my_channels, task>>
  BY TypeDelivery
     DEF IInv, DeliveryStep, FanoutEnqueue, QueueAlarm, Refuse, Send, AskMembership, Summary,
         NoteMember, SendRenewed, DropStranger, DeleteStale, DeliverFails
<1>2. DirectoryTrue' /\ WorkTrue'
  BY <1>1 DEF IInv, Provenance, DirectoryTrue, WorkTrue, MemberAt, SessionsOf, chat
<1>3. SUFFICES CallsTrue' /\ LeaseVersionsTrue' /\ NoLeak'
  BY <1>1, <1>2, LeakLocal
<1>4. ASSUME UNCHANGED lease PROVE LeaseVersionsTrue'
  BY <1>1, <1>4 DEF IInv, LeaseVersionsTrue, MemberAt, chat
<1>5. ASSUME UNCHANGED last_frame PROVE NoLeak'
  BY <1>1, <1>5 DEF IInv, NoLeak, MemberSince, chat
<1>6. version \in Nat /\ \A d \in calls : d \in Call
  BY DEF IInv, LTypeOK
\* A step that removes calls, or adds ones that tell the truth.
<1>7. ASSUME \A q \in queue' : q \in queue \/ q.mv <= version,
             \A d \in calls' : \/ d \in calls
                               \/ /\ d.mv <= version
                                  /\ d.at \in {"member", "renewing"} =>
                                       MemberSince(UserOf[d.session], d.mv)
      PROVE  CallsTrue'
  BY <1>1, <1>7 DEF IInv, Provenance, CallsTrue, MemberSince, chat
<1>8. ASSUME NEW mv \in 1 .. version, FanoutEnqueue(mv)
      PROVE  CallsTrue' /\ LeaseVersionsTrue' /\ NoLeak'
  BY <1>4, <1>5, <1>7, <1>8 DEF FanoutEnqueue, Calls, local
<1>9. ASSUME NEW q \in queue, QueueAlarm(q) PROVE CallsTrue' /\ LeaseVersionsTrue' /\ NoLeak'
  BY <1>4, <1>5, <1>7, <1>9 DEF QueueAlarm, Calls, local, IInv, Provenance, CallsTrue
<1>10. ASSUME NEW d \in calls, NEW step, Goes(d, step), queue' \subseteq queue,
              step \in {"member", "renewing"} => MemberSince(UserOf[d.session], d.mv)
       PROVE  CallsTrue'
  <2> DEFINE e == [d EXCEPT !.at = step]
  <2>1. e.mv = d.mv /\ e.session = d.session /\ e.at = step
    BY <1>6 DEF Call
  <2>2. calls' = (calls \ {d}) \cup {e}
    BY <1>10 DEF Goes
  <2> HIDE DEF e
  <2> QED BY <1>7, <1>10, <2>1, <2>2 DEF IInv, Provenance, CallsTrue
<1>11. ASSUME NEW d \in calls, calls' = calls \ {d}, queue' \subseteq queue \cup {Row(d)}
       PROVE  CallsTrue'
  <2>1. Row(d).mv <= version
    BY DEF Row, IInv, Provenance, CallsTrue
  <2> QED BY <1>7, <1>11, <2>1
<1>12. ASSUME NEW d \in calls, Sent(d), MemberSince(UserOf[d.session], d.mv) \/ d.mv = 0
       PROVE  CallsTrue' /\ NoLeak'
  <2>1. CallsTrue'
    BY <1>11, <1>12 DEF Sent, Enqueue, Settles
  <2>2. NoLeak'
    BY <1>1, <1>6, <1>12 DEF Sent, IInv, NoLeak, MemberSince, LTypeOK, chat
  <2> QED BY <2>1, <2>2
<1>13. ASSUME NEW d \in calls, Refuse(d) \/ AskMembership(d)
       PROVE  CallsTrue' /\ LeaseVersionsTrue' /\ NoLeak'
  BY <1>4, <1>5, <1>10, <1>13 DEF Refuse, AskMembership, local
<1>14. ASSUME NEW d \in calls, Send(d) PROVE CallsTrue' /\ LeaseVersionsTrue' /\ NoLeak'
  <2>1. d.mv \in Nat /\ d.session \in Sessions /\ lease[d.session].mv \in Nat
    BY <1>6 DEF Call, IInv, LTypeOK, LeaseRow
  <2>2. d.mv > 0 => MemberAt(UserOf[d.session], lease[d.session].mv)
    BY <1>14, <2>1 DEF Send, Current, IInv, LeaseVersionsTrue
  <2>3. MemberSince(UserOf[d.session], d.mv) \/ d.mv = 0
    BY <1>14, <2>1, <2>2 DEF Send, Current, MemberAt, MemberSince
  <2> QED BY <1>4, <1>12, <1>14, <2>3 DEF Send, local
<1>15. ASSUME NEW d \in calls, Summary(d) PROVE CallsTrue' /\ LeaseVersionsTrue' /\ NoLeak'
  <2>1. /\ version \in DOMAIN was /\ was[version] = active
        /\ version >= d.mv
    <3>1. version \in DOMAIN was
      BY <1>6 DEF IInv, LTypeOK
    <3>2. d.mv \in Nat /\ d.mv <= version
      BY <1>6 DEF IInv, Provenance, CallsTrue, Call
    <3> QED BY <1>6, <3>1, <3>2 DEF IInv, Provenance
  <2>2. UserOf[d.session] \in active => MemberSince(UserOf[d.session], d.mv)
    BY <2>1 DEF MemberSince
  <2> QED BY <1>4, <1>5, <1>10, <1>15, <2>2 DEF Summary, local
<1>16. ASSUME NEW d \in calls, NoteMember(d) PROVE CallsTrue' /\ LeaseVersionsTrue' /\ NoLeak'
  <2>1. MemberSince(UserOf[d.session], d.mv)
    BY <1>16 DEF NoteMember, IInv, Provenance, CallsTrue
  <2>2. LeaseVersionsTrue'
    BY <1>1, <1>6, <1>16
       DEF NoteMember, IInv, LeaseVersionsTrue, LTypeOK, LeaseRow, MemberAt, Call, chat
  <2> QED BY <1>5, <1>10, <1>16, <2>1, <2>2 DEF NoteMember
<1>17. ASSUME NEW d \in calls, SendRenewed(d) PROVE CallsTrue' /\ LeaseVersionsTrue' /\ NoLeak'
  <2>1. MemberSince(UserOf[d.session], d.mv)
    BY <1>17 DEF SendRenewed, IInv, Provenance, CallsTrue
  <2> QED BY <1>4, <1>5, <1>10, <1>12, <1>17, <2>1 DEF SendRenewed, local
<1>18. ASSUME NEW d \in calls, DropStranger(d) PROVE CallsTrue' /\ LeaseVersionsTrue' /\ NoLeak'
  <2>1. LeaseVersionsTrue'
    BY <1>1, <1>6, <1>18
       DEF DropStranger, CloseLocalLease, IInv, LeaseVersionsTrue, LTypeOK, LeaseRow, MemberAt, Call, chat
  <2> QED BY <1>5, <1>10, <1>18, <2>1 DEF DropStranger
<1>19. ASSUME NEW d \in calls, DeleteStale(d) \/ DeliverFails(d)
       PROVE  CallsTrue' /\ LeaseVersionsTrue' /\ NoLeak'
  BY <1>4, <1>5, <1>11, <1>19 DEF DeleteStale, DeliverFails, Enqueue, Settles, local
<1> QED BY <1>8, <1>9, <1>13, <1>14, <1>15, <1>16, <1>17, <1>18, <1>19 DEF DeliveryStep

LEMMA LeakTime == IInv /\ TimeStep => IInv'
<1> SUFFICES ASSUME IInv, TimeStep PROVE IInv'
  OBVIOUS
<1>1. LTypeOK' /\ UNCHANGED <<chat, my_channels, task, queue, calls, last_frame>>
  BY TypeTime DEF IInv, TimeStep, LeaseExpires, FanoutLeaseExpires, deliveries
<1>2. \A s \in Sessions : lease'[s].mv = lease[s].mv
  <2>1. ASSUME NEW s \in Sessions, LeaseExpires(s)
        PROVE  \A r \in Sessions : lease'[r].mv = lease[r].mv
    BY <2>1 DEF IInv, LTypeOK, LeaseRow, LeaseExpires
  <2>2. ASSUME UNCHANGED lease PROVE \A s \in Sessions : lease'[s].mv = lease[s].mv
    BY <2>2
  <2> QED BY <2>1, <2>2 DEF TimeStep, FanoutLeaseExpires, local
<1> QED BY <1>1, <1>2, LeakLocal
        DEF IInv, Provenance, DirectoryTrue, WorkTrue, CallsTrue, LeaseVersionsTrue, NoLeak,
            MemberAt, MemberSince, SessionsOf, chat

LEMMA LeakStutter == IInv /\ UNCHANGED lvars => IInv'
<1> SUFFICES ASSUME IInv, UNCHANGED lvars PROVE IInv'
  OBVIOUS
<1>1. LTypeOK'
  BY TypeStutter DEF IInv
<1> QED BY <1>1, LeakLocal
        DEF IInv, Provenance, DirectoryTrue, WorkTrue, CallsTrue, LeaseVersionsTrue, NoLeak,
            MemberAt, MemberSince, SessionsOf, chat, lvars, local, deliveries

LEMMA Inductive == LSpec => []IInv
<1>1. IInv /\ [LNext]_lvars => IInv'
  BY LeakChannel, LeakOutbox, LeakSession, LeakSync, LeakDelivery, LeakTime, LeakStutter
     DEF LNext
<1> QED BY LeakInit, <1>1, PTL DEF LSpec

\* No event reaches a session whose user was last a member before it, with any
\* number of sessions and handlers, whatever RPCs fail, repeat or come late.
THEOREM NeverLeaks == LSpec => []NoLeak
<1>1. IInv => NoLeak
  BY DEF IInv
<1> QED BY Inductive, <1>1, PTL

\* The version of a lease is always one at which its user was a member, so
\* the gate that compares it with an event's compares memberships.
THEOREM LeasesTellTheTruth == LSpec => []LeaseVersionsTrue
<1>1. IInv => LeaseVersionsTrue
  BY DEF IInv
<1> QED BY Inductive, <1>1, PTL

\* Every copy of a version between the channel and a lease is true.
THEOREM CopiesAreTrue == LSpec => []Provenance
<1>1. IInv => Provenance
  BY DEF IInv
<1> QED BY Inductive, <1>1, PTL

-----------------------------------------------------------------------------
(* The alarm of a lease.  A handler just begun may end without an alarm,   *)
(* so the invariant names the steps that cannot: whoever leaves an active  *)
(* lease without an alarm goes on to an RPC to the fanout, and sets one    *)
(* when that returns.                                                      *)

Schedules(work, u) == /\ work # Idle
                      /\ work.at \in {"upserting", "revoking"}
                      /\ work.user = u

\* An active lease of u is cared for.
Cared(u) == \/ lease_alarm[u]
            \/ \E t \in Tasks : Schedules(task[t], u)
            \/ u \in abandoned

AlarmInv == \A s \in Sessions : lease[s].status = "active" => Cared(UserOf[s])

\* A step that adds no active lease, and ends or begins at t a handler that
\* is to set no alarm.
LEMMA StillCared ==
  ASSUME AlarmInv, NEW t \in Tasks, UNCHANGED <<lease_alarm, abandoned>>,
         \A s \in Sessions : lease'[s].status = "active" => lease[s].status = "active",
         \A r \in Tasks : r # t => task'[r] = task[r],
         \A u : Schedules(task[t], u) => Schedules(task'[t], u)
  PROVE  AlarmInv'
<1>1. \A u : Cared(u) => Cared(u)'
  BY DEF Cared
<1> QED BY <1>1 DEF AlarmInv

\* The alarm is set for every active lease of its user; the other users'
\* leases, alarms and handlers are left alone.
LEMMA ScheduleCares ==
  ASSUME AlarmInv, LTypeOK, NEW u \in Users, Schedule(u),
         \A s \in Sessions : UserOf[s] # u => lease'[s] = lease[s],
         \A t \in Tasks : \A v : v # u /\ Schedules(task[t], v) => Schedules(task'[t], v)
  PROVE  AlarmInv'
<1> SUFFICES ASSUME NEW s \in Sessions, lease'[s].status = "active"
             PROVE  Cared(UserOf[s])'
  BY DEF AlarmInv
<1>1. CASE UserOf[s] = u
  BY <1>1 DEF Schedule, SessionsOf, Cared, LTypeOK
<1>2. CASE UserOf[s] # u
  <2>1. lease_alarm'[UserOf[s]] = lease_alarm[UserOf[s]]
    BY <1>2, LiveAssumption DEF Schedule, LTypeOK
  <2>2. Cared(UserOf[s])
    BY <1>2 DEF AlarmInv
  <2> QED BY <1>2, <2>1, <2>2 DEF Cared, Schedule
<1> QED BY <1>1, <1>2

\* The end of a visit sets the alarm.
LEMMA VisitedCares ==
  ASSUME AlarmInv, IInv, NEW t \in Tasks, NEW s \in Sessions, task[t].at # "idle",
         UNCHANGED lease, Visited(t, s)
  PROVE  AlarmInv'
<1>1. task[t].user \in Users
  BY WorkOfTask DEF IInv, Work
<1>2. \A r \in Tasks : r # t => task'[r] = task[r]
  BY DEF Visited, IInv, LTypeOK
<1>3. Schedule(task[t].user)
  BY DEF Visited
<1>4. \A r \in Tasks : \A v : v # task[t].user /\ Schedules(task[r], v) => Schedules(task'[r], v)
  BY <1>2 DEF Schedules
<1> QED BY <1>1, <1>3, <1>4, ScheduleCares DEF IInv

\* What Await makes of its handler.
LEMMA AwaitSchedules ==
  ASSUME IInv, NEW t \in Tasks, NEW s \in Sessions, NEW step, NEW id,
         task[t].at # "idle", Await(t, s, step, id)
  PROVE  /\ task'[t] # Idle /\ task'[t].at = step /\ task'[t].user = task[t].user
         /\ \A r \in Tasks : r # t => task'[r] = task[r]
<1> DEFINE work == [task[t] EXCEPT !.at = step, !.todo = Todo(task[t]) \ {s},
                                   !.on = {s}, !.id = id]
<1>1. task[t] \in Work
  BY WorkOfTask DEF IInv
<1>2. work.at = step /\ work.user = task[t].user /\ DOMAIN work = DOMAIN task[t]
  BY <1>1 DEF Work
<1>3. work # Idle
  <2>1. "user" \in DOMAIN work /\ "user" \notin DOMAIN Idle
    BY <1>1, <1>2 DEF Work, Idle
  <2> QED BY <2>1
<1>4. task' = [task EXCEPT ![t] = work]
  BY DEF Await, IInv, LTypeOK
<1> HIDE DEF work
<1> QED BY <1>2, <1>3, <1>4 DEF IInv, LTypeOK

LEMMA AlarmSession ==
  ASSUME AlarmInv, IInv, SessionStep
  PROVE  AlarmInv'
<1>1. ASSUME NEW s \in Sessions, Connect(s) \/ Disconnect(s) PROVE AlarmInv'
  BY <1>1 DEF Connect, Disconnect, AlarmInv, Cared, alarms
<1>2. ASSUME NEW s \in Sessions, NEW t \in Tasks, LiveStart(t, s) \/ Heartbeat(t, s)
      PROVE  AlarmInv'
  <2>1. /\ task[t] = Idle
        /\ \A r \in Tasks : r # t => task'[r] = task[r]
        /\ UNCHANGED <<lease, lease_alarm, abandoned>>
    BY <1>2 DEF LiveStart, Heartbeat, Begin, local, alarms, IInv, LTypeOK
  <2> QED BY <2>1, StillCared DEF Schedules
<1>3. ASSUME NEW s \in Sessions, NEW t \in Tasks, CloseSession(t, s)
      PROVE  /\ task[t] = Idle /\ Schedules(task'[t], UserOf[s])
             /\ \A r \in Tasks : r # t => task'[r] = task[r]
             /\ \A r \in Sessions : lease'[r].status = "active" => lease[r].status = "active"
  <2> DEFINE work == [at |-> "revoking", why |-> "cleanup", user |-> UserOf[s], todo |-> {},
                      on |-> {s}, hint |-> 0, seen |-> Unread,
                      id |-> IF lease[s].status = "active" THEN lease[s].id ELSE 0]
  <2>1. work.at = "revoking" /\ work.user = UserOf[s] /\ "user" \in DOMAIN work
    OBVIOUS
  <2>2. Schedules(work, UserOf[s])
    <3>1. "user" \notin DOMAIN Idle
      BY DEF Idle
    <3> HIDE DEF work
    <3> QED BY <2>1, <3>1 DEF Schedules
  <2>3. task' = [task EXCEPT ![t] = work]
    BY <1>3 DEF CloseSession
  <2> HIDE DEF work
  <2>4. task'[t] = work /\ \A r \in Tasks : r # t => task'[r] = task[r]
    BY <2>3 DEF IInv, LTypeOK
  <2>5. \A r \in Sessions : lease'[r].status = "active" => lease[r].status = "active"
    BY <1>3 DEF CloseSession, IInv, LTypeOK, LeaseRow
  <2> QED BY <1>3, <2>2, <2>4, <2>5 DEF CloseSession
<1>4. ASSUME NEW s \in Sessions, NEW t \in Tasks, WebSocketClose(t, s) PROVE AlarmInv'
  BY <1>3, <1>4, StillCared DEF WebSocketClose, alarms, Schedules
<1>5. ASSUME NEW s \in Sessions, NEW t \in Tasks, CloseExpired(t, s) PROVE AlarmInv'
  <2>1. CloseSession(t, s)
    BY <1>5 DEF CloseExpired
  <2>2. \A u : u # UserOf[s] => lease_alarm'[u] = lease_alarm[u]
    BY <1>5 DEF CloseExpired, IInv, LTypeOK
  <2>3. \A u : Cared(u) => Cared(u)'
    <3> SUFFICES ASSUME NEW u, Cared(u) PROVE Cared(u)'
      OBVIOUS
    <3>1. CASE u = UserOf[s]
      BY <1>3, <2>1, <3>1 DEF Cared
    <3>2. CASE u # UserOf[s]
      <4>1. \A r \in Tasks : Schedules(task[r], u) => Schedules(task'[r], u)
        BY <1>3, <2>1 DEF Schedules
      <4> QED BY <1>5, <2>2, <3>2, <4>1 DEF Cared, CloseExpired
    <3> QED BY <3>1, <3>2
  <2> QED BY <1>3, <2>1, <2>3 DEF AlarmInv
<1> QED BY <1>1, <1>2, <1>4, <1>5 DEF SessionStep

LEMMA AlarmSync ==
  ASSUME AlarmInv, IInv, SyncStep
  PROVE  AlarmInv'
<1>1. ASSUME NEW t \in Tasks, ReadDirectory(t) \/ NobodyLive(t) PROVE AlarmInv'
  <2>1. /\ task[t].at \in {"fetching", "notified"}
        /\ \A r \in Tasks : r # t => task'[r] = task[r]
        /\ UNCHANGED <<lease, lease_alarm, abandoned>>
    BY <1>1 DEF ReadDirectory, NobodyLive, local, alarms, IInv, LTypeOK
  <2> QED BY <2>1, StillCared DEF Schedules
<1>2. ASSUME NEW t \in Tasks, UpsertFails(t) PROVE AlarmInv'
  <2>1. /\ \A r \in Tasks : r # t => task'[r] = task[r]
        /\ UNCHANGED <<lease, lease_alarm>>
        /\ abandoned' = abandoned \cup {u \in {task[t].user} : ~lease_alarm[u]}
    BY <1>2 DEF UpsertFails, IInv, LTypeOK
  <2>2. \A u : Cared(u) => Cared(u)'
    BY <2>1 DEF Cared, Schedules
  <2> QED BY <2>1, <2>2 DEF AlarmInv
<1>3. ASSUME NEW t \in Tasks, NEW s \in Sessions, Syncs(t, s)
      PROVE  /\ task[t].at # "idle" /\ task[t] # Idle
             /\ task[t].user \in Users /\ UserOf[s] = task[t].user
  <2>1. task[t].at # "idle" /\ task[t] # Idle /\ s \in Todo(task[t])
    BY <1>3 DEF Syncs, Idle
  <2> QED BY <2>1, TodoOwn, WorkOfTask DEF IInv, Work, SessionsOf
<1>4. ASSUME NEW t \in Tasks, NEW s \in Sessions, CloseUnlisted(t, s) PROVE AlarmInv'
  <2>1. /\ task[t].at # "idle" /\ task[t].user \in Users /\ UserOf[s] = task[t].user
        /\ Schedule(task[t].user) /\ Await(t, s, "revoking", lease[s].id)
    BY <1>3, <1>4 DEF CloseUnlisted
  <2>2. \A r \in Sessions : UserOf[r] # task[t].user => lease'[r] = lease[r]
    BY <1>4, <2>1 DEF CloseUnlisted, CloseLocalLease, IInv, LTypeOK
  <2>3. \A r \in Tasks : \A v : v # task[t].user /\ Schedules(task[r], v) => Schedules(task'[r], v)
    BY <2>1, AwaitSchedules DEF Schedules
  <2> QED BY <2>1, <2>2, <2>3, ScheduleCares DEF IInv
<1>5. ASSUME NEW t \in Tasks, NEW s \in Sessions, OpenLease(t, s) PROVE AlarmInv'
  <2>1. /\ task[t].at # "idle" /\ UserOf[s] = task[t].user
        /\ task[t].at \in {"notified", "syncing"}
        /\ \E id : Await(t, s, "upserting", id)
    BY <1>3, <1>5 DEF OpenLease, Syncs
  <2>2. /\ Schedules(task'[t], UserOf[s])
        /\ \A r \in Tasks : r # t => task'[r] = task[r]
    BY <2>1, AwaitSchedules DEF Schedules
  <2>3. /\ \A r \in Sessions : r # s => lease'[r] = lease[r]
        /\ UNCHANGED <<lease_alarm, abandoned>>
    BY <1>5 DEF OpenLease, IInv, LTypeOK, alarms
  <2>4. Cared(UserOf[s])'
    BY <2>2 DEF Cared
  <2>5. \A u : Cared(u) => Cared(u)'
    BY <2>1, <2>2, <2>3 DEF Cared, Schedules
  <2> QED BY <2>3, <2>4, <2>5 DEF AlarmInv
<1>6. ASSUME NEW t \in Tasks, NEW s \in Sessions,
             NothingToDo(t, s) \/ Upserted(t, s) \/ Revoked(t, s)
      PROVE  AlarmInv'
  <2>1. task[t].at # "idle" /\ UNCHANGED lease /\ Visited(t, s)
    BY <1>6 DEF NothingToDo, Upserted, Revoked, Syncs
  <2> QED BY <2>1, VisitedCares
<1> QED BY <1>1, <1>2, <1>4, <1>5, <1>6 DEF SyncStep

LEMMA AlarmDelivery ==
  ASSUME AlarmInv, IInv, DeliveryStep
  PROVE  AlarmInv'
<1>1. UNCHANGED task /\ \A d \in calls : d.session \in Sessions
  BY DEF DeliveryStep, FanoutEnqueue, QueueAlarm, Refuse, Send, AskMembership, Summary,
         NoteMember, SendRenewed, DropStranger, DeleteStale, DeliverFails, IInv, LTypeOK, Call
<1>2. ASSUME NEW d \in calls, NoteMember(d) PROVE AlarmInv'
  <2>1. \A s \in Sessions : lease'[s].status = lease[s].status
    BY <1>1, <1>2 DEF NoteMember, IInv, LTypeOK, LeaseRow
  <2> QED BY <1>1, <1>2, <2>1 DEF NoteMember, AlarmInv, Cared, alarms
<1>3. ASSUME NEW d \in calls, DropStranger(d) PROVE AlarmInv'
  <2>1. \A s \in Sessions : UserOf[s] # UserOf[d.session] => lease'[s] = lease[s]
    BY <1>1, <1>3 DEF DropStranger, CloseLocalLease, IInv, LTypeOK
  <2>2. UserOf[d.session] \in Users /\ Schedule(UserOf[d.session])
    BY <1>1, <1>3, LiveAssumption DEF DropStranger
  <2> QED BY <1>1, <2>1, <2>2, ScheduleCares DEF IInv
<1>4. ASSUME UNCHANGED local PROVE AlarmInv'
  BY <1>1, <1>4 DEF local, alarms, AlarmInv, Cared
<1> QED BY <1>2, <1>3, <1>4
        DEF DeliveryStep, FanoutEnqueue, QueueAlarm, Refuse, Send, AskMembership, Summary,
            SendRenewed, DeleteStale, DeliverFails

LEMMA AlarmOutbox ==
  ASSUME AlarmInv, IInv, OutboxStep
  PROVE  AlarmInv'
<1>1. UNCHANGED <<lease, lease_alarm, abandoned>>
  BY DEF OutboxStep, UpdateDirectory, LiveMembershipsChanged, UnregisterUser, local, alarms
<1>2. \A r \in Tasks : \A u : Schedules(task[r], u) => Schedules(task'[r], u)
  BY DEF OutboxStep, UpdateDirectory, LiveMembershipsChanged, UnregisterUser, Schedules,
         IInv, LTypeOK
<1> QED BY <1>1, <1>2 DEF AlarmInv, Cared

LEMMA AlarmRest ==
  ASSUME AlarmInv, IInv, ChannelStep \/ TimeStep \/ UNCHANGED lvars
  PROVE  AlarmInv'
<1>1. /\ UNCHANGED <<task, lease_alarm, abandoned>>
      /\ \/ UNCHANGED lease
         \/ \E s \in Sessions : LeaseExpires(s)
  BY DEF ChannelStep, Created, Entered, Exited, Restated, Dissolved, Record,
         TimeStep, LeaseExpires, FanoutLeaseExpires, lvars, local, alarms
<1>2. \A s \in Sessions : lease'[s].status = lease[s].status
  <2>1. ASSUME NEW s \in Sessions, LeaseExpires(s)
        PROVE  \A r \in Sessions : lease'[r].status = lease[r].status
    BY <2>1 DEF LeaseExpires, IInv, LTypeOK, LeaseRow
  <2>2. ASSUME UNCHANGED lease
        PROVE  \A r \in Sessions : lease'[r].status = lease[r].status
    BY <2>2
  <2> QED BY <1>1, <2>1, <2>2
<1> QED BY <1>1, <1>2 DEF AlarmInv, Cared

\* However sessions and handlers of an object interleave and whatever replies
\* are lost, an active lease has the alarm that ends it or a handler that
\* will set it, unless a leaseUpsert was given up for good.
THEOREM LeasesHaveAlarms == LSpec => []LeaseKeepsAlarm
<1>1. LInit => AlarmInv
  BY DEF LInit, AlarmInv, NoLease
<1>2. IInv /\ AlarmInv /\ [LNext]_lvars => AlarmInv'
  BY AlarmSession, AlarmSync, AlarmDelivery, AlarmOutbox, AlarmRest DEF LNext
<1>3. AlarmInv => LeaseKeepsAlarm
  BY DEF AlarmInv, LeaseKeepsAlarm, Cared, Schedules
<1> QED BY <1>1, <1>2, <1>3, Inductive, PTL DEF LSpec

=============================================================================
