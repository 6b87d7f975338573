-------------------------------- MODULE Messages --------------------------------
(***************************************************************************)
(* The messages of one channel: sending, editing, recalling and deleting,  *)
(* and the replay by which a client that was away recovers the events it   *)
(* missed.  Every handler reads tables, awaits the profile service, and    *)
(* then runs one transaction; any other handler, those of Membership       *)
(* included, may run at the await.  A slot of task is a handler at it.     *)
(*                                                                         *)
(* A message has the number of the event that announces it; a text is the  *)
(* request it came with.  Only the events of messages are followed.  Sent  *)
(* by users, of type text; attachments, stickers and mentions are copied   *)
(* in the transaction of their message and left out.                       *)
(***************************************************************************)
EXTENDS Membership

CONSTANTS
  Tasks,      \* slots for handlers under way
  Readers,    \* users with a client that catches up
  MaxEvents   \* bound: the event ids handed out

ASSUME MessagesAssumption == /\ Readers \subseteq Users
                             /\ MaxEvents \in Nat

VARIABLES
  event_seq,  \* the last event id handed out
  messages,   \* id of the message.created event -> row
  events,     \* rows of the events table
  acks,       \* idempotency_keys rows of the message commands
  task,       \* slot -> handler
  cursor,     \* reader -> the client's per-channel cursor
  seen,       \* reader -> events replayed to the client
  past        \* history: version -> who was in

chat == <<event_seq, messages, events, acks>>
client == <<cursor, seen>>
mvars == <<vars, chat, task, client, past>>

Ids == 1 .. MaxEvents
Commands == {"send", "edit", "recall", "delete"}
Command(u, c, k) == [user |-> u, command |-> c, key |-> k]
CommandSet == [user : Users, command : Commands, key : Keys]
NoCommand == [user |-> NoUser, command |-> "none", key |-> "none"]

NoMessage == [status |-> "none", sender |-> NoUser, text |-> NoCommand]
NoAck == [of |-> 0, event |-> 0]
Idle == [at |-> "idle", req |-> NoCommand, of |-> 0, now |-> 0, mv |-> 0,
         event |-> 0, rows |-> {}]

Shown == {"normal", "edited"}
Hidden == {"recalled", "deleted"}

-----------------------------------------------------------------------------
MInit == /\ Init
         /\ event_seq = 0
         /\ messages = [m \in Ids |-> NoMessage]
         /\ events = {}
         /\ acks = [r \in CommandSet |-> NoAck]
         /\ task = [t \in Tasks |-> Idle]
         /\ cursor = [u \in Readers |-> 0]
         /\ seen = [u \in Readers |-> {}]
         /\ past = [v \in 0 .. MaxVersion |-> {}]

\* Mutant: the id is the handler's own time, not pushed past the last id.
IdOfClock(now) == now

\* monotonicUuidV7: the handler's time, or the successor of the last id when
\* ids were handed out since the handler read the clock.
NextEventId(now) == IF now > event_seq THEN now ELSE event_seq + 1

\* Times are counted in ids: a handler that begins now is later than every id.
Now == event_seq + 1

\* An answer is found by the whole request; another body is no answer.
Completed(r, of) == acks[r] # NoAck /\ acks[r].of = of

\* Mutant: the transaction trusts the look-up made before the await.
Unchecked(r) == TRUE

\* The transaction's own look-up: stored with this body or with another one,
\* the request changes nothing.
FirstTime(r) == acks[r] = NoAck

Goes(t, h) == task' = [task EXCEPT ![t] = h]

\* A handler at its first await.
At(at, req, of, mv) == [at |-> at, req |-> req, of |-> of, now |-> Now, mv |-> mv,
                        event |-> 0, rows |-> {}]

\* A send that has its id.
WithId(h, id) == [at |-> "sending", req |-> h.req, of |-> h.of, now |-> h.now,
                  mv |-> h.mv, event |-> id, rows |-> {}]

-----------------------------------------------------------------------------
(* message.send                                                            *)

\* The id is taken, then the stored answers are looked at: a retry that is
\* answered at once leaves a gap in the ids.
TakeId(t, h) ==
  /\ event_seq < MaxEvents   \* bound
  /\ event_seq' = NextEventId(h.now)
  /\ Goes(t, IF Completed(h.req, h.of) THEN Idle
             ELSE WithId(h, NextEventId(h.now)))
  /\ UNCHANGED <<messages, events, acks>>

\* A reply waits for the name of the sender it quotes before it takes its id.
Send(t, u, k, of) ==
  LET h == At("replying", Command(u, "send", k), of, membership_version)
  IN /\ task[t] = Idle
     /\ kind # "none"
     /\ u \in ActiveMembers
     /\ \/ of = 0 /\ TakeId(t, h)
        \/ of # 0 /\ messages[of].status \in Shown /\ Goes(t, h) /\ UNCHANGED chat
     /\ UNCHANGED <<vars, client, past>>

ReplyResolved(t) ==
  /\ task[t].at = "replying"
  /\ TakeId(t, task[t])
  /\ UNCHANGED <<vars, client, past>>

\* Mutant: the version is read in the transaction.
VersionAtCommit(h) == membership_version

\* The version the handler began with, with its check of the sender.
SentAt(h) == h.mv

\* The transaction looks at the channel's status and the stored answers
\* again, and not at the membership.
CommitSend(t) ==
  LET h == task[t]
  IN /\ h.at = "sending"
     /\ Goes(t, Idle)
     /\ \/ /\ status = "active" /\ FirstTime(h.req)
           /\ messages' = [messages EXCEPT ![h.event] =
                [status |-> "normal", sender |-> h.req.user, text |-> h.req]]
           /\ events' = events \cup {[id |-> h.event, type |-> "created",
                message |-> h.event, mv |-> SentAt(h), req |-> h.req]}
           /\ acks' = [acks EXCEPT ![h.req] = [of |-> h.of, event |-> h.event]]
           /\ Emit({FanoutRow(SentAt(h))} \cup Listing(member_count, status))
           /\ UNCHANGED event_seq
        \/ /\ ~(status = "active" /\ FirstTime(h.req))
           /\ UNCHANGED <<chat, outbox, clock>>
     /\ UNCHANGED <<channel, roster, invites, idempotency_keys, outcome, client, past>>

-----------------------------------------------------------------------------
(* message.edit, message.recall, message.delete                            *)

\* UserConnection has asked whether u is a member; the answer may be old, and
\* the channel does not ask again.
Mutate(t, u, c, k, m) ==
  /\ task[t] = Idle
  /\ members[u] # "none"
  /\ messages[m].status # "none"
  /\ ~Completed(Command(u, c, k), m)
  /\ Goes(t, At("mutating", Command(u, c, k), m, 0))
  /\ UNCHANGED <<vars, chat, client, past>>

IsSender(h) == messages[h.of].sender = h.req.user

\* Mutant: whether the text is still shown was checked before the await only.
IsSendersOwn(h) == IsSender(h)

Editable(h) == IsSender(h) /\ messages[h.of].status \in Shown

Deletable(h) ==
  /\ messages[h.of].status # "deleted"
  /\ \/ IsSender(h)
     \/ kind = "channel" /\ members[h.req.user] \in {"owner", "admin"}

Allowed(h) == IF h.req.command = "delete" THEN Deletable(h) ELSE Editable(h)

EventType == [edit |-> "updated", recall |-> "recalled", delete |-> "deleted"]

\* A recalled or deleted row keeps its text; it is the projections that hide it.
Mutated(h) ==
  CASE h.req.command = "edit" ->
         [messages[h.of] EXCEPT !.status = "edited", !.text = h.req]
    [] h.req.command = "recall" -> [messages[h.of] EXCEPT !.status = "recalled"]
    [] h.req.command = "delete" -> [messages[h.of] EXCEPT !.status = "deleted"]

\* The row, the version and the id are read in the transaction; the time the
\* id is made from is the handler's.
CommitMutation(t) ==
  LET h == task[t]
      id == NextEventId(h.now)
  IN /\ h.at = "mutating"
     /\ event_seq < MaxEvents   \* bound
     /\ Goes(t, Idle)
     /\ \/ /\ status = "active" /\ FirstTime(h.req) /\ Allowed(h)
           /\ messages' = [messages EXCEPT ![h.of] = Mutated(h)]
           /\ event_seq' = id
           /\ events' = events \cup {[id |-> id, type |-> EventType[h.req.command],
                message |-> h.of, mv |-> membership_version, req |-> h.req]}
           /\ acks' = [acks EXCEPT ![h.req] = [of |-> h.of, event |-> id]]
           /\ Emit({FanoutRow(membership_version)})
        \/ /\ ~(status = "active" /\ FirstTime(h.req) /\ Allowed(h))
           /\ UNCHANGED <<chat, outbox, clock>>
     /\ UNCHANGED <<channel, roster, invites, idempotency_keys, outcome, client, past>>

\* A handler ends at its await: an attachment or a sticker is refused, or the
\* object is evicted.
Drop(t) == /\ task[t] # Idle
           /\ Goes(t, Idle)
           /\ UNCHANGED <<vars, chat, client, past>>

-----------------------------------------------------------------------------
(* Catching up from a cursor                                               *)

Replaying(u, rows) ==
  [at |-> "replaying", req |-> Command(u, "none", "none"), of |-> 0, now |-> 0, mv |-> 0,
   event |-> 0, rows |-> rows]

\* The rows are read, then the names in them are resolved.  No page is full.
Replay(t, u) ==
  LET rows == {e \in events : e.id > cursor[u]}
  IN /\ task[t] = Idle
     /\ \A s \in Tasks : ~(task[s].at = "replaying" /\ task[s].req.user = u)
     /\ u \in ActiveMembers \/ visibility # "private"
     /\ rows # {}   \* with nothing to resolve there is no await and no news
     /\ Goes(t, Replaying(u, rows))
     /\ UNCHANGED <<vars, chat, client, past>>

Latest(rows) == CHOOSE i \in 0 .. MaxEvents :
                  /\ rows = {} => i = 0
                  /\ rows # {} => \E e \in rows : e.id = i
                  /\ \A e \in rows : e.id <= i

\* Projected from the messages as they are after the await; with no frame
\* left, the cursor is the newest event of the table at that time.
Filtered(e) == e.type = "created" /\ messages[e.message].status \in Hidden

ReplayAnswer(t) ==
  LET u == task[t].req.user
      frames == {e \in task[t].rows : ~Filtered(e)}
  IN /\ task[t].at = "replaying"
     /\ Goes(t, Idle)
     /\ seen' = [seen EXCEPT ![u] = @ \cup frames]
     /\ cursor' = [cursor EXCEPT ![u] = Latest(IF frames = {} THEN events ELSE frames)]
     /\ UNCHANGED <<vars, chat, past>>

-----------------------------------------------------------------------------
Remember == past' = [v \in 0 .. MaxVersion |->
  IF v > membership_version /\ v <= membership_version'
  THEN {u \in Users : members'[u] \in Roles} ELSE past[v]]

MembershipStep == /\ Next
                  /\ Remember
                  /\ UNCHANGED <<chat, task, client>>

SendStep(t) == \/ \E u \in Users, k \in Keys, of \in {0} \cup Ids : Send(t, u, k, of)
               \/ ReplyResolved(t)
               \/ CommitSend(t)

MutationStep(t) ==
  \/ \E u \in Users, c \in Commands \ {"send"}, k \in Keys, m \in Ids : Mutate(t, u, c, k, m)
  \/ CommitMutation(t)

ReplayStep(t) == (\E u \in Readers : Replay(t, u)) \/ ReplayAnswer(t)

MNext == \/ MembershipStep
         \/ \E t \in Tasks : SendStep(t) \/ MutationStep(t) \/ ReplayStep(t) \/ Drop(t)

MSpec == MInit /\ [][MNext]_mvars

-----------------------------------------------------------------------------
Event == [id : Ids, type : {"created", "updated", "recalled", "deleted"},
          message : Ids, mv : 0 .. MaxVersion, req : CommandSet]

\* The tables and the handlers under way hold values of their types.
MTypeOK ==
  /\ event_seq \in 0 .. MaxEvents
  /\ messages \in [Ids -> [status : {"none"} \cup Shown \cup Hidden,
                           sender : Users \cup {NoUser},
                           text : CommandSet \cup {NoCommand}]]
  /\ events \subseteq Event
  /\ acks \in [CommandSet -> [of : 0 .. MaxEvents, event : 0 .. MaxEvents]]
  /\ \A t \in Tasks :
       /\ task[t].at \in {"idle", "replying", "sending", "mutating", "replaying"}
       /\ task[t].at \in {"replying", "sending", "mutating"} => task[t].req \in CommandSet
       /\ task[t].of \in 0 .. MaxEvents
       /\ task[t].mv \in 0 .. MaxVersion
       /\ task[t].event \in 0 .. event_seq
       /\ task[t].rows \subseteq events
  /\ cursor \in [Readers -> 0 .. MaxEvents]
  /\ seen \in [Readers -> SUBSET events]

EventsOf(m) == {e \in events : e.message = m}
StatusAfter == [created |-> "normal", updated |-> "edited",
                recalled |-> "recalled", deleted |-> "deleted"]

\* Read in the order of their ids, the events of a message tell its history:
\* no two share an id, the first created it, the last one left it in the
\* status it has, and the last one with a text left it with its text.  So a
\* client that orders by id ends with what the table holds, although the
\* handlers read the clock before an await and take their ids after it.
HistoryTellsState ==
  \A m \in Ids : messages[m].status # "none" =>
    LET told == EventsOf(m)
        texts == {e \in told : e.type \in {"created", "updated"}}
    IN /\ \A e, f \in told : e.id = f.id => e = f
       /\ \A e \in told : e.type = "created" <=> e.id = m
       /\ \A e \in told : e.id >= m
       /\ \E e \in told : /\ \A f \in told : f.id <= e.id
                          /\ StatusAfter[e.type] = messages[m].status
       /\ \E e \in texts : /\ \A f \in texts : f.id <= e.id
                           /\ e.req = messages[m].text

\* What was recalled or deleted stays so: an edit that was under way at the
\* time does not bring it back, and a recall does not undo a deletion.
HiddenStaysHidden ==
  [][\A m \in Ids : messages[m].status \in Hidden =>
       /\ messages'[m].text = messages[m].text
       /\ messages'[m].status \in {messages[m].status, "deleted"}]_messages

\* A command that is sent again, while the first is still under way or after
\* it has failed to answer, has one effect: one event, whose id the stored
\* answer has, and none while there is no answer.
OncePerCommand ==
  \A r \in CommandSet :
    {e.id : e \in {f \in events : f.req = r}}
      = (IF acks[r] = NoAck THEN {} ELSE {acks[r].event})

\* The version a message carries through the fanout is one at which its
\* sender was a member, whenever it is committed: ChannelFanout and
\* UserConnection compare it with the versions of their leases.
SendersWereMembers ==
  \A e \in events : e.type = "created" => e.req.user \in past[e.mv]

\* A message that is hidden and was never shown to u's client.
Unknown(u, m) == /\ messages[m].status \in Hidden
                 /\ \A e \in seen[u] : e.message # m

\* What the documents promise of replay: a client that comes back and reads
\* on from its cursor loses no committed event (but those of messages it has
\* not seen and may not see any more, and announcements of hidden ones).
NothingMissed ==
  \A u \in Readers : \A e \in events :
    e.id <= cursor[u] => e \in seen[u] \/ Filtered(e) \/ Unknown(u, e.message)

=============================================================================
