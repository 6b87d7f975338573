------------------------------- MODULE DmOpening -------------------------------
(***************************************************************************)
(* Opening a direct message, POST /api/chat/dms.  Three objects take part, *)
(* each with transactions of its own, and the request is lost at any await *)
(* between them: the caller's UserDirectory keeps the operation's key, the *)
(* DMDirectory of the pair mints the channel's id once, and the ChatChannel*)
(* of that id is created with both users as members and projects itself to *)
(* their channel lists.  Whatever stopped half way is taken up by a retry, *)
(* from either user.                                                       *)
(*                                                                         *)
(* The channel's own handlers are in Membership (but for invites, those    *)
(* that would change a DM's members refuse it), retries and dead letters   *)
(* of its outbox in ProjectionOutbox, the archive records in Archive.  A   *)
(* key has an expires_at that nothing looks at.  A refused request (a key  *)
(* used for another recipient) changes nothing and is no step.             *)
(***************************************************************************)
EXTENDS Naturals, FiniteSets

CONSTANTS
  Users,
  Keys,         \* values of the Idempotency-Key header
  Opens,        \* the requests clients send, and send again
  Handlers,     \* requests being handled at the same time
  MaxFailures   \* bound: lost calls, lost replies and evictions

OpenBody == {o \in [user : Users, recipient : Users, key : Keys] : o.user # o.recipient}

ASSUME DmAssumption == Opens \subseteq OpenBody /\ MaxFailures \in Nat

VARIABLES
  idempotency_keys, \* user -> key -> the row of operation dm.open
  dm_pairs,         \* the rows of all DMDirectory objects
  minted,           \* channel ids given out
  channel_meta,     \* the DM channels that exist, with their members
  outbox,           \* <<channel, user>>: join rows on their way
  arming,           \* channels that were committed and have set no alarm yet
  alarm,            \* channels with an alarm set
  my_channels,      \* <<user, channel>>: the users' lists
  handler,          \* handlers at their awaits
  answers,          \* history: the successful answers clients got
  stranded,         \* history: channels evicted before they set their alarm
  failures          \* how many of them there were

channels == <<channel_meta, outbox, arming, alarm, my_channels, stranded>>
dvars == <<idempotency_keys, dm_pairs, minted, channels, handler, answers, failures>>

NoKey == [status |-> "none"]
Idle  == [step |-> "idle"]

\* Mutant: the key names the caller first.
PairAsAsked(a, b) == <<a, b>>

\* canonicalDmPairKey: the two users in their order, whoever asks.
PairKey(a, b) == {a, b}

PairOf(r) == PairKey(r.open.user, r.open.recipient)

DInit == /\ idempotency_keys = [u \in Users |-> [k \in Keys |-> NoKey]]
         /\ dm_pairs = {}
         /\ minted = 0
         /\ channel_meta = {} /\ outbox = {} /\ arming = {} /\ alarm = {}
         /\ my_channels = {} /\ stranded = {}
         /\ handler = [h \in Handlers |-> Idle]
         /\ answers = {}
         /\ failures = 0

-----------------------------------------------------------------------------
(* UserDirectory.openDm and what it calls.                                 *)

Row(o) == idempotency_keys[o.user][o.key]

\* request_hash of the row is that of the request.
SameRequest(row, o) == row.recipient = o.recipient

Answer(o, channel) == answers' = answers \cup {[open |-> o, channel_id |-> channel]}

\* The first transaction: a key that is new is kept for later, after the
\* recipient was looked up.
BeginNew(h, o) == /\ Row(o) = NoKey
                  /\ handler' = [handler EXCEPT ![h] = [step |-> "resolve", open |-> o]]
                  /\ UNCHANGED answers

\* Mutant: an operation under way is not taken up again.
NeverResumed(row, o) == FALSE

Resumed(row, o) == row.status = "creating" /\ SameRequest(row, o)

BeginAgain(h, o) ==
  \/ /\ Row(o) # NoKey /\ Resumed(Row(o), o)
     /\ handler' = [handler EXCEPT ![h] = [step |-> "reserve", open |-> o]]
     /\ UNCHANGED answers
  \/ /\ Row(o).status = "completed" /\ SameRequest(Row(o), o)
     /\ Answer(o, Row(o).channel_id)
     /\ UNCHANGED handler

Begin(h, o) == /\ handler[h] = Idle
               /\ BeginNew(h, o) \/ BeginAgain(h, o)
               /\ UNCHANGED <<idempotency_keys, dm_pairs, minted, channels, failures>>

At(h, step) == handler[h].step = step

\* The recipient exists; the row is inserted.  A request with the same key
\* that was faster makes the INSERT fail.
ReserveKey(h) ==
  /\ At(h, "resolve")
  /\ LET o == handler[h].open
     IN IF Row(o) = NoKey
        THEN /\ idempotency_keys' = [idempotency_keys EXCEPT ![o.user][o.key] =
                                       [status |-> "creating", recipient |-> o.recipient]]
             /\ handler' = [handler EXCEPT ![h].step = "reserve"]
        ELSE /\ handler' = [handler EXCEPT ![h] = Idle]
             /\ UNCHANGED idempotency_keys
  /\ UNCHANGED <<dm_pairs, minted, channels, answers, failures>>

Seen(row) == row.status

\* DMDirectory.getOrCreateDm: the pair's row, or a new one with a new id.
GetOrCreateDm(h) ==
  /\ At(h, "reserve")
  /\ \/ \E row \in dm_pairs :
          /\ row.pair = PairOf(handler[h])
          /\ handler' = [handler EXCEPT ![h] =
               [step |-> "create", open |-> @.open, channel_id |-> row.channel_id,
                status |-> Seen(row), created |-> FALSE]]
          /\ UNCHANGED <<dm_pairs, minted>>
     \/ /\ \A row \in dm_pairs : row.pair # PairOf(handler[h])
        /\ minted' = minted + 1
        /\ dm_pairs' = dm_pairs \cup {[pair |-> PairOf(handler[h]), channel_id |-> minted',
                                       status |-> "creating"]}
        /\ handler' = [handler EXCEPT ![h] =
             [step |-> "create", open |-> @.open, channel_id |-> minted',
              status |-> "creating", created |-> FALSE]]
  /\ UNCHANGED <<idempotency_keys, channels, answers, failures>>

Exists(channel) == \E meta \in channel_meta : meta.channel_id = channel

\* ChatChannel.createDm: one transaction writes the channel, its members and
\* the rows to their directories; a channel that exists answers only.
CreateDm(h) ==
  /\ At(h, "create")
  /\ LET r == handler[h]
         c == r.channel_id
         both == {r.open.user, r.open.recipient}
     IN IF Exists(c)
        THEN UNCHANGED <<channel_meta, outbox, arming>>
        ELSE /\ channel_meta' = channel_meta \cup {[channel_id |-> c, members |-> both]}
             /\ outbox' = outbox \cup ({c} \X both)
             /\ arming' = arming \cup {c}
  /\ handler' = [handler EXCEPT ![h].step = "complete",
                                ![h].created = ~Exists(handler[h].channel_id)]
  /\ UNCHANGED <<idempotency_keys, dm_pairs, minted, alarm, my_channels, answers,
                 stranded, failures>>

\* The request that created the channel waits for its alarm to be set.
Answered(r) == r.step = "complete" /\ ~(r.created /\ r.channel_id \in arming)

\* joined_at of the caller is in the answer, and getSummary finds it a member.
IsMember(r) == \E meta \in channel_meta : /\ meta.channel_id = r.channel_id
                                          /\ r.open.user \in meta.members

Unfinished(r) == r.status = "creating"

\* DMDirectory.completeDm, when the pair's row was found unfinished.
CompleteDm(h) ==
  /\ Answered(handler[h])
  /\ IF IsMember(handler[h])
     THEN /\ dm_pairs' = {IF Unfinished(handler[h]) /\ row.pair = PairOf(handler[h])
                             /\ row.channel_id = handler[h].channel_id
                          THEN [row EXCEPT !.status = "active"] ELSE row : row \in dm_pairs}
          /\ handler' = [handler EXCEPT ![h].step = "summary"]
     ELSE /\ handler' = [handler EXCEPT ![h] = Idle]
          /\ UNCHANGED dm_pairs
  /\ UNCHANGED <<idempotency_keys, minted, channels, answers, failures>>

\* The route reads the channel's summary and the caller's list and stores
\* the answer (completeOpenDm), whoever stored one before.
StoreAnswer(h) ==
  /\ At(h, "summary")
  /\ LET o == handler[h].open
     IN idempotency_keys' = [idempotency_keys EXCEPT ![o.user][o.key] =
          IF @ = NoKey THEN @
          ELSE [status |-> "completed", recipient |-> @.recipient,
                channel_id |-> handler[h].channel_id]]
  /\ handler' = [handler EXCEPT ![h].step = "reply"]
  /\ UNCHANGED <<dm_pairs, minted, channels, answers, failures>>

Reply(h) == /\ At(h, "reply")
            /\ Answer(handler[h].open, handler[h].channel_id)
            /\ handler' = [handler EXCEPT ![h] = Idle]
            /\ UNCHANGED <<idempotency_keys, dm_pairs, minted, channels, failures>>

-----------------------------------------------------------------------------
(* What goes wrong, and the channel's alarm.                               *)

MayFail == failures < MaxFailures /\ failures' = failures + 1      \* bound

\* The recipient is unknown, a call is not answered, the object that handles
\* the request is evicted, or the client is gone: what was done stays.
Lost(h) == /\ handler[h] # Idle
           /\ MayFail
           /\ handler' = [handler EXCEPT ![h] = Idle]
           /\ UNCHANGED <<idempotency_keys, dm_pairs, minted, channels, answers>>

ArmAlarm(c) == /\ c \in arming
               /\ arming' = arming \ {c}
               /\ alarm' = alarm \cup {c}
               /\ UNCHANGED <<idempotency_keys, dm_pairs, minted, channel_meta, outbox,
                              my_channels, handler, answers, stranded, failures>>

\* The channel is evicted between its commit and its alarm: the call fails,
\* the rows wait until something else arms the alarm.
Evicted(c) ==
  /\ c \in arming
  /\ MayFail
  /\ arming' = arming \ {c}
  /\ stranded' = stranded \cup {c}
  /\ handler' = [h \in Handlers |->
                   IF At(h, "complete") /\ handler[h].created /\ handler[h].channel_id = c
                   THEN Idle ELSE handler[h]]
  /\ UNCHANGED <<idempotency_keys, dm_pairs, minted, channel_meta, outbox, alarm,
                 my_channels, answers>>

\* The alarm delivers a row to the directory of its user.
Deliver(c, u) == /\ c \in alarm
                 /\ <<c, u>> \in outbox
                 /\ outbox' = outbox \ {<<c, u>>}
                 /\ my_channels' = my_channels \cup {<<u, c>>}
                 /\ UNCHANGED <<idempotency_keys, dm_pairs, minted, channel_meta, arming,
                                alarm, handler, answers, stranded, failures>>

GoesOn(h) == \/ ReserveKey(h) \/ GetOrCreateDm(h) \/ CreateDm(h)
             \/ CompleteDm(h) \/ StoreAnswer(h) \/ Reply(h)

DNext == \/ \E h \in Handlers : \/ \E o \in Opens : Begin(h, o)
                                \/ GoesOn(h)
                                \/ Lost(h)
         \/ \E c \in 1 .. minted : \/ ArmAlarm(c) \/ Evicted(c)
                                   \/ \E u \in Users : Deliver(c, u)

DSpec == DInit /\ [][DNext]_dvars

Got(o) == \E a \in answers : a.open = o

\* The key stands for this request, and the client has no answer yet.
Standing(o) == Row(o) # NoKey /\ Row(o).recipient = o.recipient

Retries(o) == Standing(o) /\ ~Got(o) /\ \E h \in Handlers : Begin(h, o)

\* Fairness: the runtime goes on with a request after an await and runs a
\* set alarm.  That a client sends a request again until it has an answer is
\* what the liveness property supposes of it; the service has no timer of
\* its own for an operation half done.
DFair ==
  /\ \A h \in Handlers : WF_dvars(GoesOn(h))
  /\ WF_dvars(\E c \in 1 .. minted : ArmAlarm(c))
  /\ WF_dvars(\E c \in 1 .. minted, u \in Users : Deliver(c, u))
  /\ \A o \in Opens : SF_dvars(Retries(o))

DFairSpec == DSpec /\ DFair

-----------------------------------------------------------------------------
(* Properties.                                                             *)

Channels == 1 .. minted

PairRow == [pair : {{o.user, o.recipient} : o \in OpenBody}, channel_id : Channels,
            status : {"creating", "active"}]

KeyRow == [status : {"none"}]
            \cup [status : {"creating"}, recipient : Users]
            \cup [status : {"completed"}, recipient : Users, channel_id : Channels]

Request == [step : {"idle"}]
             \cup [step : {"resolve", "reserve"}, open : Opens]
             \cup [step : {"create", "complete", "summary", "reply"}, open : Opens,
                   channel_id : Channels, status : {"creating", "active"},
                   created : BOOLEAN]

DTypeOK == /\ minted \in Nat
           /\ idempotency_keys \in [Users -> [Keys -> KeyRow]]
           /\ dm_pairs \subseteq PairRow
           /\ channel_meta \subseteq [channel_id : Channels, members : SUBSET Users]
           /\ outbox \subseteq Channels \X Users
           /\ arming \subseteq Channels /\ alarm \subseteq Channels
           /\ my_channels \subseteq Users \X Channels
           /\ handler \in [Handlers -> Request]
           /\ answers \subseteq [open : Opens, channel_id : Channels]
           /\ stranded \subseteq Channels
           /\ failures \in Nat

\* The pair's row names the channel of a request, an answer or a key.
Names(o, channel) ==
  \E row \in dm_pairs : row.pair = {o.user, o.recipient} /\ row.channel_id = channel

\* The channel has been created with these two users as its members.
HasBoth(o, channel) ==
  [channel_id |-> channel, members |-> {o.user, o.recipient}] \in channel_meta

Active(o) == \E row \in dm_pairs : row.pair = {o.user, o.recipient} /\ row.status = "active"

\* A pair has one row, an id one pair.
OneRow == \A row, other \in dm_pairs :
            row.pair = other.pair \/ row.channel_id = other.channel_id => row = other

\* A channel's members are the pair of the row that names it, and an active
\* pair's channel exists.
ChannelsAreNamed ==
  /\ \A meta \in channel_meta :
       \E row \in dm_pairs : row.channel_id = meta.channel_id /\ row.pair = meta.members
  /\ \A row \in dm_pairs :
       row.status = "active" =>
         [channel_id |-> row.channel_id, members |-> row.pair] \in channel_meta

\* What a request carries from one object to the next is true there.
RequestIsTrue(r) ==
  /\ r.step \notin {"idle", "resolve"} => Standing(r.open)
  /\ r.step \in {"create", "complete", "summary", "reply"} => Names(r.open, r.channel_id)
  /\ r.step \in {"complete", "summary", "reply"} => HasBoth(r.open, r.channel_id)
  /\ r.step \in {"create", "complete"} /\ r.status = "active" => Active(r.open)
  /\ r.step \in {"summary", "reply"} => Active(r.open)

\* A stored answer names the pair's channel, which is complete.
StoredIsTrue(o, row) ==
  row.status = "completed" =>
    Names(o, row.channel_id) /\ HasBoth(o, row.channel_id) /\ Active(o)

KeyIsTrue(u, k) ==
  LET row == idempotency_keys[u][k]
  IN row # NoKey => StoredIsTrue([user |-> u, recipient |-> row.recipient, key |-> k], row)

KeysAreTrue == \A u \in Users, k \in Keys : KeyIsTrue(u, k)

\* The three objects and the requests between them agree.
DmInv == /\ DTypeOK
         /\ OneRow
         /\ ChannelsAreNamed
         /\ \A h \in Handlers : RequestIsTrue(handler[h])
         /\ KeysAreTrue
         /\ \A a \in answers : Standing(a.open) /\ Names(a.open, a.channel_id)

\* There is one DM of two users (docs/api-contract.md:974): whoever opened
\* it, under whatever key, with whatever lost on the way, every answer for
\* the pair names one channel, and no two channels have the same members.
OneDmPerPair ==
  /\ \A a, b \in answers :
       ({a.open.user, a.open.recipient} = {b.open.user, b.open.recipient})
         <=> (a.channel_id = b.channel_id)
  /\ \A m, n \in channel_meta : m.members = n.members => m = n

\* An answer is given for a DM that is complete in all three objects: the
\* channel exists with both users in it, and the pair is active.
AnsweredIsOpen ==
  \A a \in answers : HasBoth(a.open, a.channel_id) /\ Active(a.open)

\* One operation key of a user stands for one recipient
\* (docs/api-contract.md:975): no two answers under it differ, however many
\* requests carried it at the same time.
KeyMeansRecipient ==
  \A a, b \in answers :
    a.open.user = b.open.user /\ a.open.key = b.open.key => a = b

Listed(o) == \A u \in {o.user, o.recipient} :
               \E a \in answers : a.open = o /\ <<u, a.channel_id>> \in my_channels

\* An operation that has its key is finished by the retries of its client,
\* whatever was lost: it is answered, and both users come to see the DM in
\* their lists, unless the channel was evicted before it had set its alarm.
OpeningFinishes ==
  \A o \in Opens :
    Standing(o) ~> Got(o) /\ (Listed(o) \/ stranded # {})
=============================================================================
