-------------------------- MODULE ChannelTables_proofs --------------------------
(***************************************************************************)
(* What is built on Membership's tables: the messages of a channel, and    *)
(* the outbox that tells the other objects of its members.                 *)
(*                                                                         *)
(* Messages, for any number of users, handlers, readers and events: type   *)
(* correctness, one effect per command, hidden stays hidden, the version a *)
(* message carries, and the history its events tell.                       *)
(*                                                                         *)
(* ProjectionOutbox, for any number of users, requests, retries and        *)
(* evictions: the outbox keeps an alarm, a directory row is true of its    *)
(* version, every member finds the channel once the rows are delivered,    *)
(* and the public listing settles.                                         *)
(*                                                                         *)
(* What Membership does in between is taken from Membership_proofs.        *)
(***************************************************************************)
EXTENDS Messages, ProjectionOutbox, Membership_proofs, WellFoundedInduction

-----------------------------------------------------------------------------
(*                                MESSAGES                                 *)

Reqs == [user : Users \cup {NoUser}, command : Commands \cup {"none"},
         key : Keys \cup {"none"}]

Handlers == [at : {"idle", "replying", "sending", "mutating", "replaying"},
             req : Reqs, of : 0 .. MaxEvents, now : Nat, mv : 0 .. MaxVersion,
             event : 0 .. MaxEvents, rows : SUBSET Event]

\* The types MTypeOK leaves out, and: no handler's time is ahead of the ids.
Wide == /\ task \in [Tasks -> Handlers]
        /\ past \in [0 .. MaxVersion -> SUBSET Users]
        /\ \A t \in Tasks : task[t].now <= event_seq + 1

\* The last version was recorded as it is, and no event carries a later one;
\* a channel that exists has a version.
PastTrue == /\ kind = "none" <=> membership_version = 0
            /\ past[membership_version] = ActiveMembers
            /\ \A e \in events : e.mv <= membership_version

\* A send that is under way holds the version it began with, at which its
\* user was in, and from its await on an id that no table knows.
Sending(h) ==
  /\ h.at \in {"replying", "sending"} =>
       /\ h.req \in CommandSet
       /\ h.mv <= membership_version
       /\ h.req.user \in past[h.mv]
  /\ h.at = "sending" =>
       /\ h.event \in 1 .. event_seq
       /\ messages[h.event].status = "none"
       /\ \A e \in events : e.id # h.event /\ e.message # h.event

Mutating(h) ==
  h.at = "mutating" =>
    /\ h.req \in CommandSet
    /\ h.req.command \in {"edit", "recall", "delete"}
    /\ h.of \in Ids
    /\ messages[h.of].status # "none"

UnderWay == \A t \in Tasks : Sending(task[t]) /\ Mutating(task[t])

\* Two sends hold two ids.
Apart == \A s, t \in Tasks :
  s # t /\ task[s].at = "sending" /\ task[t].at = "sending" => task[s].event # task[t].event

\* Ids that were not handed out are in no table.
Unused == /\ \A m \in Ids : m > event_seq => messages[m].status = "none"
          /\ \A e \in events : e.id <= event_seq /\ e.message <= event_seq

Core == TypeOK /\ MTypeOK /\ Wide
MInv == Core /\ PastTrue /\ UnderWay /\ Apart /\ Unused
           /\ OncePerCommand /\ SendersWereMembers

-----------------------------------------------------------------------------
(* Small facts.                                                            *)

LEMMA GoesTypes ==
  ASSUME Wide, NEW t \in Tasks, NEW h \in Handlers, Goes(t, h)
  PROVE  /\ task' \in [Tasks -> Handlers]
         /\ task'[t] = h
         /\ \A s \in Tasks : s # t => task'[s] = task[s]
BY DEF Wide, Goes

LEMMA IdleTypes == Idle \in Handlers
BY MembershipAssumption, MessagesAssumption DEF Idle, Handlers, NoCommand, Reqs

LEMMA CommandTypes ==
  ASSUME NEW u \in Users, NEW c \in Commands, NEW k \in Keys
  PROVE  /\ Command(u, c, k) \in CommandSet /\ Command(u, c, k) \in Reqs
         /\ Command(u, c, k).user = u /\ Command(u, c, k).command = c
BY DEF Command, CommandSet, Reqs

\* The next id is the successor of the last one.
LEMMA NextIsSuccessor ==
  ASSUME Core, NEW now \in Nat, now <= event_seq + 1
  PROVE  /\ event_seq \in Nat
         /\ NextEventId(now) = event_seq + 1
BY MessagesAssumption DEF Core, MTypeOK, NextEventId

Less == {ab \in Nat \X Nat : ab[1] < ab[2]}

\* Rows have a newest one.
LEMMA LatestTypes ==
  ASSUME NEW rows \in SUBSET Event
  PROVE  Latest(rows) \in 0 .. MaxEvents
<1>1. CASE rows = {}
  BY <1>1, MessagesAssumption DEF Latest
<1>2. CASE rows # {}
  <2> DEFINE gaps == {MaxEvents - e.id : e \in rows}
  <2>1. \A e \in rows : e.id \in 1 .. MaxEvents
    BY DEF Event, Ids
  <2>2. gaps \subseteq Nat /\ gaps # {}
    BY <1>2, <2>1, MessagesAssumption
  <2>3. PICK x \in gaps : \A y \in gaps : <<y, x>> \notin Less
    <3> HIDE DEF gaps
    <3>1. IsWellFoundedOn(Less, Nat)
      BY NatLessThanWellFounded DEF OpToRel, Less
    <3> QED BY <2>2, <3>1, WFMin
  <2>4. PICK e \in rows : x = MaxEvents - e.id
    OBVIOUS
  <2>5. \A f \in rows : f.id <= e.id
    <3> SUFFICES ASSUME NEW f \in rows PROVE f.id <= e.id
      OBVIOUS
    <3>1. MaxEvents - f.id \in gaps
      OBVIOUS
    <3>2. ~(MaxEvents - f.id < x)
      BY <2>2, <2>3, <3>1 DEF Less
    <3> QED BY <2>1, <2>4, <3>2, MessagesAssumption
  <2> QED BY <1>2, <2>1, <2>5, MessagesAssumption DEF Latest
<1> QED BY <1>1, <1>2

-----------------------------------------------------------------------------
(* Type correctness.                                                       *)

LEMMA CoreInit == MInit => Core
<1> SUFFICES ASSUME MInit PROVE Core
  OBVIOUS
<1>1. TypeOK /\ MaxVersion \in Nat /\ MaxEvents \in Nat
  BY TypeInit, MembershipAssumption, MessagesAssumption DEF MInit
<1>2. Wide
  BY <1>1, IdleTypes DEF MInit, Wide, Idle
<1>3. MTypeOK
  BY <1>1 DEF MInit, MTypeOK, NoMessage, NoAck, Idle
<1> QED BY <1>1, <1>2, <1>3 DEF Core

\* What a step that leaves the tables of the chat alone has to show.
LEMMA HandlerTypes ==
  ASSUME Core, TypeOK', UNCHANGED <<chat, client, past>>,
         NEW t \in Tasks, NEW h \in Handlers, Goes(t, h),
         h.at \in {"replying", "sending", "mutating"} => h.req \in CommandSet,
         h.event <= event_seq, h.now <= event_seq + 1, h.rows \subseteq events
  PROVE  Core'
<1>1. /\ task' \in [Tasks -> Handlers] /\ task'[t] = h
      /\ \A s \in Tasks : s # t => task'[s] = task[s]
  BY GoesTypes DEF Core
<1>2. Wide'
  BY <1>1 DEF Core, Wide, chat
<1>3. event_seq \in Nat /\ h.event \in 0 .. event_seq
  BY MessagesAssumption DEF Core, MTypeOK, Handlers
<1>4. MTypeOK'
  BY <1>1, <1>3 DEF Core, MTypeOK, chat, client, Handlers
<1> QED BY <1>2, <1>4 DEF Core

LEMMA SameRoom ==
  ASSUME Core, UNCHANGED vars
  PROVE  TypeOK' /\ UNCHANGED <<status, kind, membership_version, ActiveMembers>>
BY TypeNext DEF Core, vars, ActiveMembers

\* A message's transaction writes rows of the outbox and nothing else of
\* Membership's tables.
LEMMA EmitKeepsRoom ==
  ASSUME Core, UNCHANGED <<channel, roster, invites, idempotency_keys, outcome>>,
         \/ UNCHANGED <<outbox, clock>>
         \/ \E rows \in SUBSET Rows : Emit(rows)
  PROVE  TypeOK' /\ UNCHANGED <<status, kind, membership_version, ActiveMembers>>
<1>1. outbox' \subseteq Outbox /\ clock' \in Nat
  BY EmitTypes DEF Core, TypeOK, Outbox
<1>2. TypeOK'
  BY <1>1 DEF Core, TypeOK, channel, roster, Outbox, Invite
<1> QED BY <1>2 DEF channel, roster, ActiveMembers

-----------------------------------------------------------------------------
(* Handlers that reach, or give up, an await.                              *)

LEMMA QuietRest ==
  ASSUME MInv, Core', UNCHANGED <<chat, past, kind, membership_version, ActiveMembers>>,
         NEW t \in Tasks, NEW h \in Handlers, Goes(t, h),
         Sending(h), Mutating(h), h.at # "sending"
  PROVE  MInv'
<1>1. /\ task'[t] = h
      /\ \A s \in Tasks : s # t => task'[s] = task[s]
  BY GoesTypes DEF MInv, Core
<1>2. \A g : Sending(g) => Sending(g)'
  BY DEF Sending, chat
<1>3. \A g : Mutating(g) => Mutating(g)'
  BY DEF Mutating, chat
<1>4. UnderWay'
  BY <1>1, <1>2, <1>3 DEF MInv, UnderWay, Sending, Mutating, chat
<1>5. Apart'
  BY <1>1 DEF MInv, Apart
<1>6. PastTrue' /\ Unused' /\ OncePerCommand' /\ SendersWereMembers'
  BY DEF MInv, PastTrue, Unused, OncePerCommand, SendersWereMembers, chat
<1> QED BY <1>4, <1>5, <1>6 DEF MInv

LEMMA SendingIdle == Sending(Idle) /\ Mutating(Idle)
BY DEF Idle, Sending, Mutating

\* The handler of a send, as it begins.
LEMMA BeginsSend ==
  ASSUME MInv, NEW u \in ActiveMembers, NEW k \in Keys, NEW of \in {0} \cup Ids
  PROVE  LET h == At("replying", Command(u, "send", k), of, membership_version)
         IN /\ h \in Handlers /\ Sending(h) /\ Mutating(h)
            /\ h.req \in CommandSet /\ h.now <= event_seq + 1 /\ h.event <= event_seq
            /\ h.rows = {} /\ h.at = "replying"
<1> DEFINE h == At("replying", Command(u, "send", k), of, membership_version)
<1>1. /\ u \in Users /\ Command(u, "send", k) \in CommandSet
      /\ Command(u, "send", k) \in Reqs /\ Command(u, "send", k).user = u
  BY CommandTypes DEF ActiveMembers, Commands
<1>2. /\ event_seq \in Nat /\ membership_version \in 0 .. MaxVersion /\ MaxVersion \in Nat
      /\ MaxEvents \in Nat
  BY MembershipAssumption, MessagesAssumption DEF MInv, Core, TypeOK, MTypeOK
<1>3. h = [at |-> "replying", req |-> Command(u, "send", k), of |-> of, now |-> event_seq + 1,
           mv |-> membership_version, event |-> 0, rows |-> {}]
  BY DEF At, Now
<1> HIDE DEF h
<1>4. h \in Handlers
  BY <1>1, <1>2, <1>3 DEF Handlers, Ids
<1>5. Sending(h) /\ Mutating(h)
  BY <1>1, <1>2, <1>3 DEF Sending, Mutating, MInv, PastTrue
<1> QED BY <1>1, <1>2, <1>3, <1>4, <1>5 DEF h

\* A send that takes its id: nothing knows the id yet.
LEMMA TakesId ==
  ASSUME MInv, UNCHANGED <<vars, client, past>>,
         NEW t \in Tasks, NEW h \in Handlers, TakeId(t, h),
         h.at = "replying", Sending(h), h.now <= event_seq + 1
  PROVE  MInv'
<1>1. /\ event_seq \in Nat /\ event_seq < MaxEvents /\ MaxEvents \in Nat
      /\ event_seq' = event_seq + 1 /\ NextEventId(h.now) = event_seq + 1
  BY NextIsSuccessor, MessagesAssumption DEF MInv, TakeId, Handlers
<1>2. TypeOK' /\ UNCHANGED <<kind, membership_version, ActiveMembers, messages, events, acks, past>>
  BY SameRoom DEF MInv, TakeId
<1>3. PICK g \in Handlers :
        /\ g = WithId(h, event_seq + 1) /\ g.at = "sending" /\ g.event = event_seq + 1
        /\ g.req = h.req /\ g.mv = h.mv /\ g.rows = {} /\ g.now = h.now /\ g.of = h.of
  <2> DEFINE f == WithId(h, event_seq + 1)
  <2>1. f \in Handlers
    BY <1>1 DEF Handlers, WithId
  <2>2. /\ f.at = "sending" /\ f.event = event_seq + 1 /\ f.req = h.req /\ f.mv = h.mv
        /\ f.rows = {} /\ f.now = h.now /\ f.of = h.of
    BY DEF WithId
  <2> QED BY <2>1, <2>2
<1>4. Goes(t, Idle) \/ Goes(t, g)
  BY <1>1, <1>3 DEF TakeId
<1>5. /\ task' \in [Tasks -> Handlers] /\ task'[t] \in {Idle, g}
      /\ \A s \in Tasks : s # t => task'[s] = task[s]
  BY <1>3, <1>4, IdleTypes, GoesTypes DEF MInv, Core
<1>6. Wide'
  <2>1. task'[t].now \in Nat /\ task'[t].now <= event_seq + 1
    BY <1>1, <1>3, <1>5 DEF Idle, Handlers
  <2>2. \A s \in Tasks : task[s].now \in Nat /\ task[s].now <= event_seq + 1
    BY DEF MInv, Core, Wide, Handlers
  <2>3. \A s \in Tasks : task'[s].now <= event_seq' + 1
    BY <1>1, <1>5, <2>1, <2>2
  <2> QED BY <1>2, <1>5, <2>3 DEF MInv, Core, Wide
<1>7. MTypeOK'
  <2>1. /\ task'[t].at \in {"idle", "sending"} /\ task'[t].rows = {}
        /\ task'[t].at = "sending" => task'[t].req \in CommandSet
        /\ task'[t].of \in 0 .. MaxEvents /\ task'[t].mv \in 0 .. MaxVersion
        /\ task'[t].event \in 0 .. event_seq'
    BY <1>1, <1>3, <1>5, MembershipAssumption DEF Idle, Handlers, Sending
  <2> QED BY <1>1, <1>2, <1>5, <2>1 DEF MInv, Core, MTypeOK, client
<1>8. UnderWay'
  <2>1. \A f : Sending(f) => Sending(f)'
    BY <1>1, <1>2 DEF Sending
  <2>2. \A f : Mutating(f) => Mutating(f)'
    BY <1>2 DEF Mutating
  <2>3. Sending(g)'
    <3>1. g.event \in Ids /\ messages[g.event].status = "none"
      BY <1>1, <1>3 DEF MInv, Unused, Ids
    <3>2. \A e \in events : e.id # g.event /\ e.message # g.event
      <4>1. \A e \in events : e.id \in Nat /\ e.message \in Nat
        BY <1>1 DEF MInv, Core, MTypeOK, Event, Ids
      <4> QED BY <1>1, <1>3, <4>1 DEF MInv, Unused
    <3> QED BY <1>1, <1>2, <1>3, <3>1, <3>2 DEF Sending
  <2>4. Mutating(g)'
    BY <1>3 DEF Mutating
  <2> QED BY <1>5, <2>1, <2>2, <2>3, <2>4, SendingIdle DEF MInv, UnderWay
<1>9. Apart'
  <2>1. \A s \in Tasks : s # t /\ task[s].at = "sending" => task[s].event # event_seq + 1
    BY <1>1 DEF MInv, UnderWay, Sending
  <2> QED BY <1>3, <1>5, <2>1 DEF MInv, Apart, Idle
<1>10. Unused'
  <2>1. \A e \in events : e.id \in Nat /\ e.message \in Nat
    BY <1>1 DEF MInv, Core, MTypeOK, Event, Ids
  <2> QED BY <1>1, <1>2, <2>1 DEF MInv, Unused, Ids
<1>11. PastTrue' /\ OncePerCommand' /\ SendersWereMembers'
  BY <1>2 DEF MInv, PastTrue, OncePerCommand, SendersWereMembers
<1> QED BY <1>2, <1>6, <1>7, <1>8, <1>9, <1>10, <1>11 DEF MInv, Core

LEMMA SendKeeps ==
  ASSUME MInv, NEW t \in Tasks, NEW u \in Users, NEW k \in Keys, NEW of \in {0} \cup Ids,
         Send(t, u, k, of)
  PROVE  MInv'
<1>1. PICK h \in Handlers :
        /\ h = At("replying", Command(u, "send", k), of, membership_version)
        /\ Sending(h) /\ Mutating(h) /\ h.req \in CommandSet /\ h.now <= event_seq + 1
        /\ h.event <= event_seq /\ h.rows = {} /\ h.at = "replying"
  BY BeginsSend DEF Send
<1>2. CASE TakeId(t, h)
  BY <1>1, <1>2, TakesId DEF Send
<1>3. CASE Goes(t, h) /\ UNCHANGED chat
  <2>1. UNCHANGED <<chat, client, past, vars>>
    BY <1>3 DEF Send
  <2>2. TypeOK' /\ UNCHANGED <<kind, membership_version, ActiveMembers>>
    BY <2>1, SameRoom DEF MInv
  <2>3. Core'
    BY <1>1, <1>3, <2>1, <2>2, HandlerTypes DEF MInv
  <2> QED BY <1>1, <1>3, <2>1, <2>2, <2>3, QuietRest
<1> QED BY <1>1, <1>2, <1>3 DEF Send

LEMMA ReplyResolvedKeeps ==
  ASSUME MInv, NEW t \in Tasks, ReplyResolved(t)
  PROVE  MInv'
<1>1. PICK h \in Handlers : h = task[t]
  BY DEF MInv, Core, Wide
<1>2. Sending(h) /\ h.now <= event_seq + 1 /\ TakeId(t, h) /\ h.at = "replying"
  BY <1>1 DEF MInv, Core, Wide, UnderWay, ReplyResolved
<1> QED BY <1>1, <1>2, TakesId DEF ReplyResolved

LEMMA DropKeeps ==
  ASSUME MInv, NEW t \in Tasks, Drop(t)
  PROVE  MInv'
<1>1. UNCHANGED <<vars, chat, client, past>> /\ Goes(t, Idle)
  BY DEF Drop
<1>2. TypeOK' /\ UNCHANGED <<kind, membership_version, ActiveMembers>>
  BY <1>1, SameRoom DEF MInv
<1>3. /\ Idle.at = "idle" /\ Idle.event <= event_seq /\ Idle.now <= event_seq + 1
      /\ Idle.rows \subseteq events
  BY MessagesAssumption DEF Idle, MInv, Core, MTypeOK
<1>4. Core'
  BY <1>1, <1>2, <1>3, IdleTypes, HandlerTypes DEF MInv
<1> QED BY <1>1, <1>2, <1>3, <1>4, IdleTypes, SendingIdle, QuietRest

-----------------------------------------------------------------------------
(* Transactions.                                                           *)

Row == [status : {"none"} \cup Shown \cup Hidden, sender : Users \cup {NoUser},
        text : CommandSet \cup {NoCommand}]

\* What is common to the transactions of a message: the row of one message,
\* one event with an id no table knows, and the answer to its request.
Commits(t, row, e, of) ==
  /\ Goes(t, Idle)
  /\ messages' = [messages EXCEPT ![e.message] = row]
  /\ events' = events \cup {e}
  /\ acks' = [acks EXCEPT ![e.req] = [of |-> of, event |-> e.id]]
  /\ acks[e.req] = NoAck
  /\ event_seq' \in {event_seq, event_seq + 1} /\ event_seq' <= MaxEvents
  /\ UNCHANGED <<client, past, kind, membership_version, ActiveMembers>>

LEMMA CommitsTypes ==
  ASSUME Core, TypeOK', NEW t \in Tasks, NEW row \in Row, NEW e \in Event,
         NEW of \in 0 .. MaxEvents, Commits(t, row, e, of)
  PROVE  Core'
<1>1. /\ task' \in [Tasks -> Handlers] /\ task'[t] = Idle
      /\ \A s \in Tasks : s # t => task'[s] = task[s]
  BY IdleTypes, GoesTypes DEF Core, Commits
<1>2. /\ event_seq \in Nat /\ event_seq' \in 0 .. MaxEvents /\ event_seq <= event_seq'
      /\ MaxEvents \in Nat /\ MaxVersion \in Nat
  BY MembershipAssumption, MessagesAssumption DEF Core, MTypeOK, Commits
<1>3. Wide'
  <2>1. \A s \in Tasks : task[s].now \in Nat /\ task[s].now <= event_seq + 1
    BY DEF Core, Wide, Handlers
  <2>2. \A s \in Tasks : task'[s].now <= event_seq' + 1
    BY <1>1, <1>2, <2>1 DEF Idle
  <2> QED BY <1>1, <2>2 DEF Core, Wide, Commits
<1>4. MTypeOK'
  <2>1. events' \subseteq Event /\ events \subseteq events'
    BY DEF Core, MTypeOK, Commits
  <2>2. messages' \in [Ids -> Row]
    BY DEF Core, MTypeOK, Commits, Row
  <2>3. acks' \in [CommandSet -> [of : 0 .. MaxEvents, event : 0 .. MaxEvents]]
    BY DEF Core, MTypeOK, Commits, Event, Ids
  <2>4. \A s \in Tasks : /\ task[s].event \in 0 .. event_seq'
                         /\ task[s].rows \subseteq events'
    BY <1>2, <2>1 DEF Core, MTypeOK
  <2>5. \A s \in Tasks :
          /\ task'[s].at \in {"idle", "replying", "sending", "mutating", "replaying"}
          /\ task'[s].at \in {"replying", "sending", "mutating"} => task'[s].req \in CommandSet
          /\ task'[s].of \in 0 .. MaxEvents /\ task'[s].mv \in 0 .. MaxVersion
          /\ task'[s].event \in 0 .. event_seq' /\ task'[s].rows \subseteq events'
    <3> TAKE s \in Tasks
    <3>1. CASE s = t
      BY <1>1, <1>2, <3>1 DEF Idle
    <3>2. CASE s # t
      BY <1>1, <2>4, <3>2 DEF Core, MTypeOK
    <3> QED BY <3>1, <3>2
  <2>6. cursor' \in [Readers -> 0 .. MaxEvents] /\ seen' \in [Readers -> SUBSET events']
    BY <2>1 DEF Core, MTypeOK, Commits, client
  <2> QED BY <1>2, <2>1, <2>2, <2>3, <2>5, <2>6 DEF MTypeOK, Row
<1> QED BY <1>3, <1>4 DEF Core

LEMMA CommitsKeeps ==
  ASSUME MInv, TypeOK', NEW t \in Tasks, NEW row \in Row, NEW e \in Event,
         NEW of \in 0 .. MaxEvents, Commits(t, row, e, of),
         row.status # "none",
         e.id <= event_seq', e.message <= event_seq', e.mv <= membership_version,
         \A f \in events : f.id # e.id,
         \A s \in Tasks : s # t /\ task[s].at = "sending" =>
           task[s].event # e.id /\ task[s].event # e.message,
         e.type = "created" => e.req.user \in past[e.mv]
  PROVE  MInv'
<1>1. /\ task'[t] = Idle
      /\ \A s \in Tasks : s # t => task'[s] = task[s]
  BY IdleTypes, GoesTypes DEF MInv, Core, Commits
<1>2. Core'
  BY CommitsTypes DEF MInv
<1>3. /\ event_seq \in Nat /\ event_seq' \in Nat /\ event_seq <= event_seq'
      /\ MaxEvents \in Nat
  BY MessagesAssumption DEF MInv, Core, MTypeOK, Commits
<1>4. /\ e.id \in Ids /\ e.message \in Ids /\ e.req \in CommandSet
      /\ messages \in [Ids -> Row] /\ messages' \in [Ids -> Row]
      /\ messages'[e.message].status # "none"
      /\ \A m \in Ids : m # e.message => messages'[m] = messages[m]
  BY DEF Event, MInv, Core, MTypeOK, Row, Commits
<1>5. UnderWay'
  <2> SUFFICES ASSUME NEW s \in Tasks PROVE (Sending(task[s]) /\ Mutating(task[s]))'
    BY DEF UnderWay
  <2>1. CASE s = t
    BY <1>1, <2>1 DEF Sending, Mutating, Idle
  <2>2. CASE s # t
    <3>1. task'[s] = task[s] /\ Sending(task[s]) /\ Mutating(task[s])
      BY <1>1, <2>2 DEF MInv, UnderWay
    <3>2. task[s].at = "sending" => /\ task[s].event \in 1 .. event_seq'
                                    /\ task[s].event \in Ids
      BY <1>3, <3>1 DEF Sending, Ids, MInv, Core, MTypeOK
    <3>3. Sending(task[s])'
      BY <1>4, <2>2, <3>1, <3>2 DEF Sending, Commits
    <3>4. Mutating(task[s])'
      BY <1>4, <3>1 DEF Mutating
    <3> QED BY <3>3, <3>4
  <2> QED BY <2>1, <2>2
<1>6. Apart'
  BY <1>1 DEF MInv, Apart, Idle
<1>7. Unused'
  <2>1. \A m \in Ids : m > event_seq' => messages'[m].status = "none"
    BY <1>3, <1>4 DEF MInv, Unused, Ids
  <2>2. \A f \in events : f.id \in Nat /\ f.message \in Nat
    BY <1>3 DEF MInv, Core, MTypeOK, Event, Ids
  <2>3. \A f \in events' : f.id <= event_seq' /\ f.message <= event_seq'
    BY <1>3, <2>2 DEF MInv, Unused, Commits
  <2> QED BY <2>1, <2>3 DEF Unused
<1>8. OncePerCommand'
  <2> SUFFICES ASSUME NEW r \in CommandSet
               PROVE  {f.id : f \in {g \in events' : g.req = r}}
                        = (IF acks'[r] = NoAck THEN {} ELSE {acks'[r].event})
    BY DEF OncePerCommand
  <2>1. {f.id : f \in {g \in events : g.req = r}}
          = (IF acks[r] = NoAck THEN {} ELSE {acks[r].event})
    BY DEF MInv, OncePerCommand
  <2>2. CASE r = e.req
    <3>1. acks'[r] = [of |-> of, event |-> e.id]
      BY <1>4, <2>2 DEF MInv, Core, MTypeOK, Commits
    <3>2. acks'[r] # NoAck /\ acks'[r].event = e.id
      BY <1>4, <3>1 DEF NoAck, Ids
    <3>3. {g \in events : g.req = r} = {}
      BY <2>1, <2>2 DEF Commits
    <3>4. {g \in events' : g.req = r} = {e}
      BY <2>2, <3>3 DEF Commits
    <3> QED BY <3>2, <3>4
  <2>3. CASE r # e.req
    <3>1. acks'[r] = acks[r]
      BY <1>4, <2>3 DEF MInv, Core, MTypeOK, Commits
    <3>2. {g \in events' : g.req = r} = {g \in events : g.req = r}
      BY <2>3 DEF Commits
    <3> QED BY <2>1, <3>1, <3>2
  <2> QED BY <2>2, <2>3
<1>9. PastTrue' /\ SendersWereMembers'
  BY DEF MInv, PastTrue, SendersWereMembers, Commits
<1> QED BY <1>2, <1>5, <1>6, <1>7, <1>8, <1>9 DEF MInv

\* The transaction of a send.
LEMMA SendCommits ==
  ASSUME MInv, NEW t \in Tasks, CommitSend(t), NEW h \in Handlers, h = task[t],
         status = "active", FirstTime(h.req)
  PROVE  \E row \in Row, e \in Event :
           /\ row = [status |-> "normal", sender |-> h.req.user, text |-> h.req]
           /\ e = [id |-> h.event, type |-> "created", message |-> h.event,
                   mv |-> h.mv, req |-> h.req]
           /\ Commits(t, row, e, h.of)
           /\ UNCHANGED event_seq
           /\ TypeOK'
<1>1. h.req \in CommandSet /\ h.event \in 1 .. event_seq
  BY DEF MInv, UnderWay, Sending, CommitSend
<1>2. h.event \in Ids /\ h.event <= event_seq /\ event_seq <= MaxEvents
  BY <1>1, MessagesAssumption DEF MInv, Core, MTypeOK, Ids
<1>3. UNCHANGED <<channel, roster, invites, idempotency_keys, outcome, client, past>>
  BY DEF CommitSend
<1>4. PICK row : row = [status |-> "normal", sender |-> h.req.user, text |-> h.req]
  OBVIOUS
<1>5. PICK e : e = [id |-> h.event, type |-> "created", message |-> h.event,
                    mv |-> h.mv, req |-> h.req]
  OBVIOUS
<1>6. row \in Row
  BY <1>1, <1>4 DEF Row, Shown, CommandSet
<1>7. e \in Event
  BY <1>1, <1>2, <1>5 DEF Event, Handlers
<1>8. /\ Goes(t, Idle)
      /\ messages' = [messages EXCEPT ![h.event] = row]
      /\ events' = events \cup {e}
      /\ acks' = [acks EXCEPT ![h.req] = [of |-> h.of, event |-> h.event]]
      /\ event_seq' = event_seq
  BY <1>4, <1>5 DEF CommitSend, SentAt
<1>9. TypeOK' /\ UNCHANGED <<kind, membership_version, ActiveMembers>>
  <2> DEFINE rows == {FanoutRow(h.mv)} \cup Listing(member_count, status)
  <2>1. Emit(rows)
    BY DEF CommitSend, SentAt
  <2>2. rows \in SUBSET Rows
    <3>1. h.mv \in Nat /\ member_count \in Nat /\ status \in {"active", "dissolved"}
      BY MembershipAssumption DEF Handlers, MInv, Core, TypeOK
    <3> QED BY <3>1, RowTypes, ListingTypes
  <2> HIDE DEF rows
  <2> QED BY <1>3, <2>1, <2>2, EmitKeepsRoom DEF MInv
<1>10. Commits(t, row, e, h.of)
  BY <1>2, <1>3, <1>5, <1>8, <1>9 DEF Commits, FirstTime
<1> QED BY <1>4, <1>5, <1>6, <1>7, <1>8, <1>9, <1>10

LEMMA CommitSendKeeps ==
  ASSUME MInv, NEW t \in Tasks, CommitSend(t)
  PROVE  MInv'
<1>1. PICK h \in Handlers : h = task[t]
  BY DEF MInv, Core, Wide
<1>2. /\ h.at = "sending" /\ Sending(h)
      /\ h.req \in CommandSet /\ h.mv <= membership_version /\ h.req.user \in past[h.mv]
      /\ h.event \in 1 .. event_seq /\ messages[h.event].status = "none"
      /\ \A e \in events : e.id # h.event /\ e.message # h.event
  BY <1>1 DEF MInv, UnderWay, Sending, CommitSend
<1>3. h.event \in Ids /\ h.event <= event_seq /\ event_seq <= MaxEvents
  BY <1>2, MessagesAssumption DEF MInv, Core, MTypeOK, Ids
<1>4. UNCHANGED <<channel, roster, invites, idempotency_keys, outcome, client, past>>
  BY DEF CommitSend
<1>5. CASE ~(status = "active" /\ FirstTime(h.req))
  <2>1. UNCHANGED <<chat, outbox, clock>> /\ Goes(t, Idle)
    BY <1>1, <1>5 DEF CommitSend
  <2>2. TypeOK' /\ UNCHANGED <<kind, membership_version, ActiveMembers>>
    BY <1>4, <2>1, EmitKeepsRoom DEF MInv
  <2>3. /\ Idle.at = "idle" /\ Idle.event <= event_seq /\ Idle.now <= event_seq + 1
        /\ Idle.rows \subseteq events
    BY MessagesAssumption DEF Idle, MInv, Core, MTypeOK
  <2>4. Core'
    BY <1>4, <2>1, <2>2, <2>3, IdleTypes, HandlerTypes DEF MInv
  <2> QED BY <1>4, <2>1, <2>2, <2>3, <2>4, IdleTypes, SendingIdle, QuietRest
<1>6. CASE status = "active" /\ FirstTime(h.req)
  <2>1. PICK row \in Row, e \in Event :
          /\ row = [status |-> "normal", sender |-> h.req.user, text |-> h.req]
          /\ e = [id |-> h.event, type |-> "created", message |-> h.event,
                  mv |-> h.mv, req |-> h.req]
          /\ Commits(t, row, e, h.of)
          /\ UNCHANGED event_seq
          /\ TypeOK'
    BY <1>1, <1>6, SendCommits
  <2>2. \A s \in Tasks : s # t /\ task[s].at = "sending" => task[s].event # h.event
    BY <1>1, <1>2 DEF MInv, Apart
  <2>3. /\ row.status # "none" /\ h.of \in 0 .. MaxEvents
        /\ e.id = h.event /\ e.message = h.event /\ e.mv = h.mv /\ e.req = h.req
    BY <2>1 DEF Handlers
  <2> QED BY <1>2, <1>3, <2>1, <2>2, <2>3, CommitsKeeps
<1> QED BY <1>5, <1>6

LEMMA MutateKeeps ==
  ASSUME MInv, NEW t \in Tasks, NEW u \in Users, NEW c \in Commands \ {"send"},
         NEW k \in Keys, NEW m \in Ids, Mutate(t, u, c, k, m)
  PROVE  MInv'
<1>1. PICK h : h = At("mutating", Command(u, c, k), m, 0)
  OBVIOUS
<1>2. /\ Command(u, c, k) \in CommandSet /\ Command(u, c, k) \in Reqs
      /\ Command(u, c, k).command = c /\ c \in {"edit", "recall", "delete"}
  BY CommandTypes DEF Commands
<1>3. /\ h.at = "mutating" /\ h.req = Command(u, c, k) /\ h.of = m /\ h.mv = 0
      /\ h.event = 0 /\ h.rows = {} /\ h.now = event_seq + 1
  BY <1>1 DEF At, Now
<1>4. /\ event_seq \in Nat /\ MaxEvents \in Nat /\ MaxVersion \in Nat
  BY MembershipAssumption, MessagesAssumption DEF MInv, Core, MTypeOK
<1>5. h \in Handlers
  BY <1>1, <1>2, <1>4 DEF At, Now, Handlers, Ids
<1>6. UNCHANGED <<vars, chat, client, past>> /\ Goes(t, h) /\ messages[m].status # "none"
  BY <1>1 DEF Mutate
<1>7. TypeOK' /\ UNCHANGED <<kind, membership_version, ActiveMembers>>
  BY <1>6, SameRoom DEF MInv
<1>8. Sending(h) /\ Mutating(h)
  BY <1>2, <1>3, <1>6 DEF Sending, Mutating
<1>9. Core'
  BY <1>2, <1>3, <1>4, <1>5, <1>6, <1>7, HandlerTypes DEF MInv
<1> QED BY <1>3, <1>5, <1>6, <1>7, <1>8, <1>9, QuietRest

\* The transaction of a mutation: its id is the successor of the last one.
LEMMA MutationCommits ==
  ASSUME MInv, NEW t \in Tasks, CommitMutation(t), NEW h \in Handlers, h = task[t],
         status = "active", FirstTime(h.req), Allowed(h)
  PROVE  \E row \in Row, e \in Event :
           /\ row = Mutated(h) /\ row.status # "none"
           /\ e = [id |-> event_seq + 1, type |-> EventType[h.req.command],
                   message |-> h.of, mv |-> membership_version, req |-> h.req]
           /\ e.type # "created"
           /\ Commits(t, row, e, h.of)
           /\ event_seq' = event_seq + 1
           /\ TypeOK'
<1>1. /\ h.req \in CommandSet /\ h.of \in Ids
      /\ h.req.command \in {"edit", "recall", "delete"}
      /\ messages[h.of].status # "none"
      /\ h.now \in Nat /\ h.now <= event_seq + 1
  BY DEF MInv, Core, Wide, UnderWay, Mutating, CommitMutation, Handlers
<1>2. /\ event_seq \in Nat /\ event_seq < MaxEvents /\ MaxEvents \in Nat
      /\ NextEventId(h.now) = event_seq + 1
  BY <1>1, NextIsSuccessor, MessagesAssumption DEF MInv, CommitMutation
<1>3. UNCHANGED <<channel, roster, invites, idempotency_keys, outcome, client, past>>
  BY DEF CommitMutation
<1>4. PICK row : row = Mutated(h)
  OBVIOUS
<1>5. PICK e : e = [id |-> event_seq + 1, type |-> EventType[h.req.command],
                    message |-> h.of, mv |-> membership_version, req |-> h.req]
  OBVIOUS
<1>6. row \in Row /\ row.status # "none"
  BY <1>1, <1>4, ZenonT(60) DEF Row, Shown, Hidden, Mutated, MInv, Core, MTypeOK
<1>7. /\ e \in Event /\ e.type # "created" /\ membership_version \in Nat
  BY <1>1, <1>2, <1>5, MembershipAssumption
     DEF Event, Handlers, EventType, Ids, MInv, Core, TypeOK
<1>8. /\ Goes(t, Idle)
      /\ messages' = [messages EXCEPT ![h.of] = row]
      /\ events' = events \cup {e}
      /\ acks' = [acks EXCEPT ![h.req] = [of |-> h.of, event |-> event_seq + 1]]
      /\ event_seq' = event_seq + 1
      /\ Emit({FanoutRow(membership_version)})
  BY <1>2, <1>4, <1>5 DEF CommitMutation
<1>9. TypeOK' /\ UNCHANGED <<kind, membership_version, ActiveMembers>>
  <2>1. {FanoutRow(membership_version)} \in SUBSET Rows
    BY <1>7, RowTypes
  <2> QED BY <1>3, <1>8, <2>1, EmitKeepsRoom DEF MInv
<1>10. Commits(t, row, e, h.of)
  BY <1>2, <1>3, <1>5, <1>8, <1>9 DEF Commits, FirstTime
<1> QED BY <1>4, <1>5, <1>6, <1>7, <1>8, <1>9, <1>10

LEMMA CommitMutationKeeps ==
  ASSUME MInv, NEW t \in Tasks, CommitMutation(t)
  PROVE  MInv'
<1>1. PICK h \in Handlers : h = task[t]
  BY DEF MInv, Core, Wide
<1>2. /\ h.at = "mutating" /\ h.of \in Ids /\ messages[h.of].status # "none"
      /\ event_seq \in Nat /\ event_seq < MaxEvents /\ MaxEvents \in Nat
  BY <1>1, MessagesAssumption
     DEF MInv, Core, Wide, MTypeOK, UnderWay, Mutating, CommitMutation, Handlers
<1>3. /\ UNCHANGED <<channel, roster, invites, idempotency_keys, outcome, client, past>>
      /\ Goes(t, Idle)
  BY DEF CommitMutation
<1>4. CASE ~(status = "active" /\ FirstTime(h.req) /\ Allowed(h))
  <2>1. UNCHANGED <<chat, outbox, clock>>
    BY <1>1, <1>4 DEF CommitMutation
  <2>2. TypeOK' /\ UNCHANGED <<kind, membership_version, ActiveMembers>>
    BY <1>3, <2>1, EmitKeepsRoom DEF MInv
  <2>3. /\ Idle.at = "idle" /\ Idle.event <= event_seq /\ Idle.now <= event_seq + 1
        /\ Idle.rows \subseteq events
    BY <1>2 DEF Idle
  <2>4. Core'
    BY <1>3, <2>1, <2>2, <2>3, IdleTypes, HandlerTypes DEF MInv
  <2> QED BY <1>3, <2>1, <2>2, <2>3, <2>4, IdleTypes, SendingIdle, QuietRest
<1>5. CASE status = "active" /\ FirstTime(h.req) /\ Allowed(h)
  <2>1. PICK row \in Row, e \in Event :
          /\ row = Mutated(h) /\ row.status # "none"
          /\ e = [id |-> event_seq + 1, type |-> EventType[h.req.command],
                  message |-> h.of, mv |-> membership_version, req |-> h.req]
          /\ e.type # "created"
          /\ Commits(t, row, e, h.of)
          /\ event_seq' = event_seq + 1
          /\ TypeOK'
    BY <1>1, <1>5, MutationCommits
  <2>2. h.of <= event_seq /\ \A f \in events : f.id # event_seq + 1
    <3>1. \A f \in events : f.id \in Nat
      BY <1>2 DEF MInv, Core, MTypeOK, Event, Ids
    <3> QED BY <1>2, <3>1 DEF MInv, Unused, Ids
  <2>3. \A s \in Tasks : task[s].at = "sending" =>
          task[s].event # event_seq + 1 /\ task[s].event # h.of
    BY <1>2 DEF MInv, UnderWay, Sending
  <2>4. /\ e.id = event_seq + 1 /\ e.message = h.of /\ e.mv = membership_version
        /\ h.of \in Nat /\ h.of \in 0 .. MaxEvents /\ membership_version \in Nat
    BY <2>1, MembershipAssumption DEF Handlers, MInv, Core, TypeOK
  <2> QED BY <1>2, <2>1, <2>2, <2>3, <2>4, CommitsKeeps
<1> QED BY <1>4, <1>5

-----------------------------------------------------------------------------
(* Replay.                                                                 *)

LEMMA ReplayKeeps ==
  ASSUME MInv, NEW t \in Tasks, NEW u \in Readers, Replay(t, u)
  PROVE  MInv'
<1>1. PICK h : h = Replaying(u, {e \in events : e.id > cursor[u]})
  OBVIOUS
<1>2. /\ h.at = "replaying" /\ h.event = 0 /\ h.now = 0 /\ h.rows \subseteq events
      /\ h.of = 0 /\ h.mv = 0 /\ h.req = [user |-> u, command |-> "none", key |-> "none"]
  BY <1>1 DEF Replaying, Command
<1>3. events \subseteq Event /\ u \in Users /\ MaxEvents \in Nat /\ MaxVersion \in Nat
      /\ event_seq \in Nat
  BY MembershipAssumption, MessagesAssumption DEF MInv, Core, MTypeOK
<1>4. h \in Handlers
  BY <1>1, <1>2, <1>3 DEF Replaying, Command, Handlers, Reqs
<1>5. UNCHANGED <<vars, chat, client, past>> /\ Goes(t, h)
  BY <1>1 DEF Replay
<1>6. TypeOK' /\ UNCHANGED <<kind, membership_version, ActiveMembers>>
  BY <1>5, SameRoom DEF MInv
<1>7. Core'
  BY <1>2, <1>3, <1>4, <1>5, <1>6, HandlerTypes DEF MInv
<1>8. Sending(h) /\ Mutating(h)
  BY <1>2 DEF Sending, Mutating
<1> QED BY <1>2, <1>4, <1>5, <1>6, <1>7, <1>8, QuietRest

LEMMA ReplayAnswerKeeps ==
  ASSUME MInv, NEW t \in Tasks, ReplayAnswer(t)
  PROVE  MInv'
<1>1. /\ task' \in [Tasks -> Handlers] /\ task'[t] = Idle
      /\ \A s \in Tasks : s # t => task'[s] = task[s]
  BY IdleTypes, GoesTypes DEF MInv, Core, ReplayAnswer
<1>2. TypeOK' /\ UNCHANGED <<kind, membership_version, ActiveMembers>>
      /\ UNCHANGED <<event_seq, messages, events, acks, past>>
  BY SameRoom DEF MInv, ReplayAnswer, chat
<1>3. /\ event_seq \in Nat /\ events \subseteq Event /\ MaxEvents \in Nat /\ MaxVersion \in Nat
      /\ task[t].rows \subseteq events
  BY MembershipAssumption, MessagesAssumption DEF MInv, Core, MTypeOK
<1>4. cursor' \in [Readers -> 0 .. MaxEvents] /\ seen' \in [Readers -> SUBSET events']
  <2> DEFINE frames == {e \in task[t].rows : ~Filtered(e)}
             to == Latest(IF frames = {} THEN events ELSE frames)
  <2>1. frames \subseteq events /\ frames \in SUBSET Event
    BY <1>3
  <2>2. to \in 0 .. MaxEvents
    <3>1. (IF frames = {} THEN events ELSE frames) \in SUBSET Event
      BY <1>3, <2>1
    <3> QED BY <3>1, LatestTypes
  <2>3. /\ seen' = [seen EXCEPT ![task[t].req.user] = @ \cup frames]
        /\ cursor' = [cursor EXCEPT ![task[t].req.user] = to]
    BY DEF ReplayAnswer
  <2> HIDE DEF frames, to
  <2> QED BY <1>2, <2>1, <2>2, <2>3 DEF MInv, Core, MTypeOK
<1>5. Wide'
  <2>1. \A s \in Tasks : task'[s].now <= event_seq + 1
    BY <1>1, <1>3 DEF MInv, Core, Wide, Idle
  <2> QED BY <1>1, <1>2, <2>1 DEF MInv, Core, Wide
<1>6. MTypeOK'
  <2>1. \A s \in Tasks :
          /\ task'[s].at \in {"idle", "replying", "sending", "mutating", "replaying"}
          /\ task'[s].at \in {"replying", "sending", "mutating"} => task'[s].req \in CommandSet
          /\ task'[s].of \in 0 .. MaxEvents /\ task'[s].mv \in 0 .. MaxVersion
          /\ task'[s].event \in 0 .. event_seq /\ task'[s].rows \subseteq events
    <3> TAKE s \in Tasks
    <3>1. CASE s = t
      BY <1>1, <1>3, <3>1 DEF Idle
    <3>2. CASE s # t
      BY <1>1, <3>2 DEF MInv, Core, MTypeOK
    <3> QED BY <3>1, <3>2
  <2> QED BY <1>2, <1>4, <2>1 DEF MInv, Core, MTypeOK
<1>7. UnderWay' /\ Apart'
  <2>1. \A f : Sending(f) => Sending(f)'
    BY <1>2 DEF Sending
  <2>2. \A f : Mutating(f) => Mutating(f)'
    BY <1>2 DEF Mutating
  <2>3. UnderWay'
    BY <1>1, <2>1, <2>2, SendingIdle DEF MInv, UnderWay
  <2>4. Apart'
    BY <1>1 DEF MInv, Apart, Idle
  <2> QED BY <2>3, <2>4
<1>8. PastTrue' /\ Unused' /\ OncePerCommand' /\ SendersWereMembers'
  BY <1>2 DEF MInv, PastTrue, Unused, OncePerCommand, SendersWereMembers
<1> QED BY <1>2, <1>5, <1>6, <1>7, <1>8 DEF MInv, Core

-----------------------------------------------------------------------------
(* Between two steps of a handler: Membership's own.                       *)

\* The version never goes back, and new members come with a new version.
LEMMA VersionsGrow ==
  ASSUME TypeOK, Numbered, Next
  PROVE  /\ Numbered'
         /\ membership_version <= membership_version'
         /\ membership_version' = membership_version => ActiveMembers' = ActiveMembers
<1>1. Effect /\ Numbered'
  BY StepEffect, NumberedAlways
<1>2. membership_version \in Nat
  BY MembershipAssumption DEF TypeOK
<1>3. ASSUME NEW first \in SUBSET Users, Opens(first)
      PROVE  membership_version < membership_version'
  BY <1>2, <1>3 DEF Opens, Numbered
<1>4. ASSUME NEW u \in Users, LetsIn(u) \/ LetsOut(u)
      PROVE  membership_version < membership_version'
  BY <1>2, <1>4 DEF LetsIn, LetsOut
<1>5. ASSUME ChangesRoles \/ Closes PROVE membership_version < membership_version'
  BY <1>2, <1>5 DEF ChangesRoles, Closes
<1>6. \/ membership_version < membership_version'
      \/ UNCHANGED <<membership_version, ActiveMembers>>
  BY <1>1, <1>3, <1>4, <1>5 DEF Effect, LeavesRoster
<1>7. membership_version' \in Nat
  BY TypeNext, MembershipAssumption DEF TypeOK
<1> QED BY <1>1, <1>2, <1>6, <1>7

LEMMA MembershipKeeps ==
  ASSUME MInv, MembershipStep
  PROVE  MInv'
<1>1. TypeOK' /\ UNCHANGED <<chat, task, client>>
  BY TypeNext DEF MInv, Core, MembershipStep
<1>2. /\ membership_version <= membership_version'
      /\ membership_version' = membership_version => ActiveMembers' = ActiveMembers
      /\ kind' = "none" <=> membership_version' = 0
  BY VersionsGrow DEF MInv, Core, PastTrue, Numbered, MembershipStep
<1>3. /\ membership_version \in 0 .. MaxVersion /\ membership_version' \in 0 .. MaxVersion
      /\ MaxVersion \in Nat
  BY <1>1, MembershipAssumption DEF MInv, Core, TypeOK
<1>4. past' \in [0 .. MaxVersion -> SUBSET Users]
  BY DEF MInv, Core, Wide, MembershipStep, Remember
<1>5. \A v \in 0 .. MaxVersion : v <= membership_version => past'[v] = past[v]
  BY <1>3 DEF MembershipStep, Remember
<1>6. past'[membership_version'] = ActiveMembers'
  <2>1. CASE membership_version' = membership_version
    BY <1>2, <1>3, <1>5, <2>1 DEF MInv, PastTrue
  <2>2. CASE membership_version' > membership_version
    BY <1>3, <2>2 DEF MembershipStep, Remember, ActiveMembers
  <2> QED BY <1>2, <1>3, <2>1, <2>2
<1>7. Core'
  BY <1>1, <1>4 DEF MInv, Core, MTypeOK, Wide, chat, client
<1>8. PastTrue' /\ SendersWereMembers'
  <2>1. \A e \in events : e.mv \in 0 .. MaxVersion
    BY DEF MInv, Core, MTypeOK, Event
  <2>2. PastTrue'
    BY <1>1, <1>2, <1>3, <1>6, <2>1 DEF MInv, PastTrue, chat
  <2>3. SendersWereMembers'
    BY <1>1, <1>5, <2>1 DEF MInv, PastTrue, SendersWereMembers, chat
  <2> QED BY <2>2, <2>3
<1>9. UnderWay'
  <2> SUFFICES ASSUME NEW t \in Tasks PROVE (Sending(task[t]) /\ Mutating(task[t]))'
    BY DEF UnderWay
  <2>1. Sending(task[t]) /\ Mutating(task[t]) /\ task'[t] = task[t] /\ task[t].mv \in 0 .. MaxVersion
    BY <1>1 DEF MInv, Core, MTypeOK, UnderWay
  <2>2. Sending(task[t])'
    BY <1>1, <1>2, <1>3, <1>5, <2>1 DEF Sending, chat
  <2>3. Mutating(task[t])'
    BY <1>1, <2>1 DEF Mutating, chat
  <2> QED BY <2>2, <2>3
<1>10. Apart' /\ Unused' /\ OncePerCommand'
  BY <1>1 DEF MInv, Apart, Unused, OncePerCommand, chat
<1> QED BY <1>7, <1>8, <1>9, <1>10 DEF MInv

-----------------------------------------------------------------------------
(* The theorems.                                                           *)

LEMMA InitInv == MInit => MInv
<1> SUFFICES ASSUME MInit PROVE MInv
  OBVIOUS
<1>1. Core /\ MaxVersion \in Nat
  BY CoreInit, MembershipAssumption
<1>2. PastTrue
  BY <1>1 DEF MInit, Init, PastTrue, ActiveMembers, Roles
<1>3. UnderWay /\ Apart
  BY SendingIdle DEF MInit, UnderWay, Apart, Idle
<1>4. Unused /\ OncePerCommand /\ SendersWereMembers
  BY DEF MInit, Unused, OncePerCommand, SendersWereMembers, NoMessage
<1> QED BY <1>1, <1>2, <1>3, <1>4 DEF MInv

LEMMA StepInv == MInv /\ [MNext]_mvars => MInv'
<1> SUFFICES ASSUME MInv, [MNext]_mvars PROVE MInv'
  OBVIOUS
<1>1. CASE UNCHANGED mvars
  <2>1. TypeOK' /\ UNCHANGED <<kind, membership_version, ActiveMembers>>
    BY <1>1, SameRoom DEF MInv, mvars
  <2>2. UNCHANGED <<chat, task, client, past>>
    BY <1>1 DEF mvars
  <2>3. Core'
    BY <2>1, <2>2 DEF MInv, Core, MTypeOK, Wide, chat, client
  <2>4. PastTrue' /\ SendersWereMembers' /\ Apart' /\ Unused' /\ OncePerCommand'
    BY <2>1, <2>2 DEF MInv, PastTrue, SendersWereMembers, Apart, Unused, OncePerCommand, chat
  <2>5. UnderWay'
    BY <2>1, <2>2 DEF MInv, UnderWay, Sending, Mutating, chat
  <2> QED BY <2>3, <2>4, <2>5 DEF MInv
<1>2. CASE MembershipStep
  BY <1>2, MembershipKeeps
<1>3. ASSUME NEW t \in Tasks, SendStep(t) PROVE MInv'
  BY <1>3, SendKeeps, ReplyResolvedKeeps, CommitSendKeeps DEF SendStep
<1>4. ASSUME NEW t \in Tasks, MutationStep(t) PROVE MInv'
  BY <1>4, MutateKeeps, CommitMutationKeeps DEF MutationStep
<1>5. ASSUME NEW t \in Tasks, ReplayStep(t) PROVE MInv'
  BY <1>5, ReplayKeeps, ReplayAnswerKeeps DEF ReplayStep
<1>6. ASSUME NEW t \in Tasks, Drop(t) PROVE MInv'
  BY <1>6, DropKeeps
<1> QED BY <1>1, <1>2, <1>3, <1>4, <1>5, <1>6 DEF MNext

\* The tables of the messages and the handlers at their awaits hold values of
\* their types, whatever Membership does meanwhile.
THEOREM MessagesTypeCorrect == MSpec => []MTypeOK
<1>1. MInv => MTypeOK
  BY DEF MInv, Core
<1> QED BY <1>1, InitInv, StepInv, PTL DEF MSpec

\* A message command has one effect, however often and with whatever body it
\* is sent, and however its handlers interleave.
THEOREM CommandsHaveOneEffect == MSpec => []OncePerCommand
<1>1. MInv => OncePerCommand
  BY DEF MInv
<1> QED BY <1>1, InitInv, StepInv, PTL DEF MSpec

\* The version a message carries to the fanout is one at which its sender was
\* in, although the membership may change while the send is under way.
THEOREM VersionsVouchForSenders == MSpec => []SendersWereMembers
<1>1. MInv => SendersWereMembers
  BY DEF MInv
<1> QED BY <1>1, InitInv, StepInv, PTL DEF MSpec

Kept == \A m \in Ids : messages[m].status \in Hidden =>
          /\ messages'[m].text = messages[m].text
          /\ messages'[m].status \in {messages[m].status, "deleted"}

LEMMA SendHides ==
  ASSUME MInv, NEW t \in Tasks, CommitSend(t)
  PROVE  [Kept]_messages
<1>1. task[t].at = "sending" /\ messages[task[t].event].status = "none"
  BY DEF MInv, UnderWay, Sending, CommitSend
<1>2. \/ UNCHANGED messages
      \/ \A m \in Ids : m # task[t].event => messages'[m] = messages[m]
  BY DEF CommitSend, chat, MInv, Core, MTypeOK
<1> QED BY <1>1, <1>2 DEF Kept, Hidden

LEMMA MutationHides ==
  ASSUME MInv, NEW t \in Tasks, CommitMutation(t)
  PROVE  [Kept]_messages
<1>1. PICK h : h = task[t]
  OBVIOUS
<1>2. h.req.command \in {"edit", "recall", "delete"} /\ h.of \in Ids
  BY <1>1 DEF MInv, UnderWay, Mutating, CommitMutation
<1>3. CASE UNCHANGED messages
  BY <1>3
<1>4. CASE Allowed(h) /\ messages' = [messages EXCEPT ![h.of] = Mutated(h)]
  <2>1. messages \in [Ids -> Row]
    BY DEF MInv, Core, MTypeOK, Row
  <2>2. \A m \in Ids : m # h.of => messages'[m] = messages[m]
    BY <1>4, <2>1
  <2>3. messages'[h.of] = Mutated(h)
    BY <1>2, <1>4, <2>1
  <2>4. messages[h.of].status \in Hidden => h.req.command = "delete"
    BY <1>2, <1>4 DEF Allowed, Editable, Shown, Hidden
  <2>5. h.req.command = "delete" => Mutated(h) = [messages[h.of] EXCEPT !.status = "deleted"]
    BY DEF Mutated
  <2>6. messages[h.of] \in Row
    BY <1>2, <2>1
  <2> QED BY <2>2, <2>3, <2>4, <2>5, <2>6 DEF Kept, Row
<1> QED BY <1>1, <1>3, <1>4 DEF CommitMutation, chat

\* Only transactions of messages write their table and their events.
LEMMA OthersKeepEvents ==
  ASSUME [MNext]_mvars, \A t \in Tasks : ~CommitSend(t) /\ ~CommitMutation(t)
  PROVE  UNCHANGED <<messages, events>>
<1>1. CASE UNCHANGED mvars \/ MembershipStep
  BY <1>1 DEF mvars, chat, MembershipStep
<1>2. ASSUME NEW t \in Tasks, SendStep(t) PROVE UNCHANGED <<messages, events>>
  BY <1>2 DEF SendStep, Send, ReplyResolved, TakeId, chat
<1>3. ASSUME NEW t \in Tasks, MutationStep(t) PROVE UNCHANGED <<messages, events>>
  BY <1>3 DEF MutationStep, Mutate, chat
<1>4. ASSUME NEW t \in Tasks, ReplayStep(t) \/ Drop(t) PROVE UNCHANGED <<messages, events>>
  BY <1>4 DEF ReplayStep, Replay, ReplayAnswer, Drop, chat
<1> QED BY <1>1, <1>2, <1>3, <1>4 DEF MNext

\* No handler brings a recalled or deleted message back.
THEOREM HiddenForGood == MSpec => HiddenStaysHidden
<1>1. ASSUME MInv, [MNext]_mvars PROVE [Kept]_messages
  BY <1>1, SendHides, MutationHides, OthersKeepEvents
<1>2. MSpec => [][Kept]_messages
  BY <1>1, InitInv, StepInv, PTL DEF MSpec
<1> QED BY <1>2 DEF HiddenStaysHidden, Kept

-----------------------------------------------------------------------------
(* The history of a message.                                               *)

\* What HistoryTellsState says of one message, of its row and its events.
Story(m, row, told) ==
  LET texts == {e \in told : e.type \in {"created", "updated"}}
  IN /\ \A e, f \in told : e.id = f.id => e = f
     /\ \A e \in told : e.type = "created" <=> e.id = m
     /\ \A e \in told : e.id >= m
     /\ \E e \in told : /\ \A f \in told : f.id <= e.id
                        /\ StatusAfter[e.type] = row.status
     /\ \E e \in texts : /\ \A f \in texts : f.id <= e.id
                         /\ e.req = row.text

LEMMA HistoryIsTold ==
  HistoryTellsState
    <=> \A m \in Ids : messages[m].status # "none" => Story(m, messages[m], EventsOf(m))
BY DEF HistoryTellsState, Story

\* A transaction tells the history of its own message; it is in no other's.
LEMMA CommitsTell ==
  ASSUME MInv, HistoryTellsState, NEW t \in Tasks, NEW row \in Row, NEW e \in Event,
         NEW of \in 0 .. MaxEvents, Commits(t, row, e, of),
         Story(e.message, row, EventsOf(e.message) \cup {e})
  PROVE  HistoryTellsState'
<1>1. messages \in [Ids -> Row] /\ e.message \in Ids
  BY DEF MInv, Core, MTypeOK, Row, Event
<1>2. messages'[e.message] = row /\ EventsOf(e.message)' = EventsOf(e.message) \cup {e}
  BY <1>1 DEF Commits, EventsOf
<1>3. ASSUME NEW m \in Ids, m # e.message
      PROVE  messages'[m] = messages[m] /\ EventsOf(m)' = EventsOf(m)
  BY <1>1, <1>3 DEF Commits, EventsOf
<1>4. \A m \in Ids : messages'[m].status # "none" => Story(m, messages'[m], EventsOf(m)')
  BY <1>1, <1>2, <1>3, HistoryIsTold
<1> QED BY <1>4 DEF HistoryTellsState, Story

\* A message begins with the event that has its number.
LEMMA FirstEventTells ==
  ASSUME NEW e \in Event, NEW row, e.type = "created", e.id = e.message,
         row.status = "normal", row.text = e.req
  PROVE  Story(e.message, row, {e})
BY DEF Story, StatusAfter, Event, Ids

\* An event with a new id comes last, and leaves what it says.
LEMMA NextEventTells ==
  ASSUME NEW told \in SUBSET Event, NEW e \in Event, NEW old, NEW row,
         Story(e.message, old, told),
         \A f \in told : f.id < e.id, e.message < e.id, e.type # "created",
         row.status = StatusAfter[e.type],
         row.text = (IF e.type = "updated" THEN e.req ELSE old.text)
  PROVE  Story(e.message, row, told \cup {e})
<1> DEFINE all == told \cup {e}
           Texts(es) == {f \in es : f.type \in {"created", "updated"}}
<1>1. /\ e.id \in Nat /\ e.message \in Nat
      /\ \A f \in told : f.id \in Nat
  BY DEF Event, Ids
<1>2. \A f, g \in all : f.id = g.id => f = g
  BY <1>1 DEF Story
<1>3. \A f \in all : (f.type = "created" <=> f.id = e.message) /\ f.id >= e.message
  BY <1>1 DEF Story
<1>4. \E f \in all : (\A g \in all : g.id <= f.id) /\ StatusAfter[f.type] = row.status
  BY <1>1
<1>5. \E f \in Texts(all) : (\A g \in Texts(all) : g.id <= f.id) /\ f.req = row.text
  <2>1. CASE e.type = "updated"
    BY <1>1, <2>1
  <2>2. CASE e.type # "updated"
    <3>1. Texts(all) = Texts(told)
      BY <2>2
    <3>2. \E f \in Texts(told) : (\A g \in Texts(told) : g.id <= f.id) /\ f.req = old.text
      BY DEF Story
    <3> QED BY <2>2, <3>1, <3>2
  <2> QED BY <2>1, <2>2
<1> QED BY <1>2, <1>3, <1>4, <1>5 DEF Story

LEMMA SendTells ==
  ASSUME MInv, HistoryTellsState, NEW t \in Tasks, CommitSend(t)
  PROVE  HistoryTellsState'
<1>1. PICK h \in Handlers : h = task[t]
  BY DEF MInv, Core, Wide
<1>2. CASE UNCHANGED chat
  BY <1>2 DEF HistoryTellsState, EventsOf, chat
<1>3. CASE status = "active" /\ FirstTime(h.req)
  <2>1. PICK row \in Row, e \in Event :
          /\ row = [status |-> "normal", sender |-> h.req.user, text |-> h.req]
          /\ e = [id |-> h.event, type |-> "created", message |-> h.event,
                  mv |-> h.mv, req |-> h.req]
          /\ Commits(t, row, e, h.of)
    BY <1>1, <1>3, SendCommits
  <2>2. EventsOf(e.message) = {}
    BY <1>1, <2>1 DEF MInv, UnderWay, Sending, CommitSend, EventsOf
  <2>3. Story(e.message, row, EventsOf(e.message) \cup {e})
    BY <2>1, <2>2, FirstEventTells
  <2> QED BY <2>1, <2>3, CommitsTell DEF Handlers
<1> QED BY <1>1, <1>2, <1>3 DEF CommitSend

LEMMA MutationTells ==
  ASSUME MInv, HistoryTellsState, NEW t \in Tasks, CommitMutation(t)
  PROVE  HistoryTellsState'
<1>1. PICK h \in Handlers : h = task[t]
  BY DEF MInv, Core, Wide
<1>2. CASE UNCHANGED chat
  BY <1>2 DEF HistoryTellsState, EventsOf, chat
<1>3. CASE status = "active" /\ FirstTime(h.req) /\ Allowed(h)
  <2>1. PICK row \in Row, e \in Event :
          /\ row = Mutated(h)
          /\ e = [id |-> event_seq + 1, type |-> EventType[h.req.command],
                  message |-> h.of, mv |-> membership_version, req |-> h.req]
          /\ Commits(t, row, e, h.of)
    BY <1>1, <1>3, MutationCommits
  <2>2. /\ h.of \in Ids /\ messages[h.of].status # "none"
        /\ h.req.command \in {"edit", "recall", "delete"}
        /\ messages[h.of] \in Row
    BY <1>1 DEF MInv, UnderWay, Mutating, CommitMutation, Core, MTypeOK, Row
  <2>3. Story(h.of, messages[h.of], EventsOf(h.of)) /\ EventsOf(h.of) \in SUBSET Event
    BY <2>2, HistoryIsTold DEF EventsOf, MInv, Core, MTypeOK
  <2>4. (\A f \in EventsOf(h.of) : f.id < e.id) /\ h.of < e.id
    <3>1. event_seq \in Nat /\ \A f \in events : f.id \in Nat
      BY MessagesAssumption DEF MInv, Core, MTypeOK, Event, Ids
    <3> QED BY <2>1, <2>2, <3>1 DEF MInv, Unused, Ids, EventsOf
  <2>5. /\ e.type # "created" /\ row.status = StatusAfter[e.type]
        /\ row.text = (IF e.type = "updated" THEN e.req ELSE messages[h.of].text)
    BY <2>1, <2>2 DEF Mutated, EventType, StatusAfter, Row
  <2>6. Story(e.message, row, EventsOf(e.message) \cup {e})
    BY <2>1, <2>3, <2>4, <2>5, NextEventTells
  <2> QED BY <2>1, <2>6, CommitsTell DEF Handlers
<1> QED BY <1>1, <1>2, <1>3 DEF CommitMutation

\* Whatever the order in which handlers read the clock and commit, the events
\* of a message, ordered by their ids, tell the row the table holds.
THEOREM HistoriesAreTrue == MSpec => []HistoryTellsState
<1>1. MInit => HistoryTellsState
  BY DEF MInit, HistoryTellsState, NoMessage
<1>2. MInv /\ HistoryTellsState /\ [MNext]_mvars => HistoryTellsState'
  <2> SUFFICES ASSUME MInv, HistoryTellsState, [MNext]_mvars PROVE HistoryTellsState'
    OBVIOUS
  <2>1. CASE UNCHANGED <<messages, events>>
    BY <2>1 DEF HistoryTellsState, EventsOf
  <2> QED BY <2>1, SendTells, MutationTells, OthersKeepEvents
<1> QED BY <1>1, <1>2, InitInv, StepInv, PTL DEF MSpec

-----------------------------------------------------------------------------
(*                           PROJECTION OUTBOX                             *)
(*                                                                         *)
(* The invariant says what the rows on their way still have to tell, and   *)
(* in which order.                                                         *)

-----------------------------------------------------------------------------
(* The inductive invariant.                                                *)

DirectoryRow(row) == row.target = "user_directory"
ListingRow(row) == row.target = "channel_directory"

\* What a member reads of a version: in the channel, open or dissolved.
TrueAt(u, held, v) ==
  CASE held = "active" -> u \in once[v].in /\ ~once[v].closed
    [] held = "dissolved" -> u \in once[v].in /\ once[v].closed
    [] OTHER -> u \notin once[v].in

\* The last version remembered is the channel as it is.
PastIsNow ==
  once[membership_version] = [in |-> ActiveMembers, closed |-> status = "dissolved"]

\* A pending directory row says what was so at its version.
RowsAreTrue ==
  \A e \in outbox : DirectoryRow(e.row) =>
    /\ e.row.mv \in 1 .. membership_version
    /\ TrueAt(e.row.user, Becomes[e.row.action], e.row.mv)

\* So does what a directory holds.
HeldIsTrue ==
  \A u \in Users : my_channels[u] # NoRow =>
    /\ my_channels[u].mv \in 1 .. membership_version
    /\ my_channels[u].status # "none"
    /\ TrueAt(u, my_channels[u].status, my_channels[u].mv)

\* u has been in the channel, and the channel as open as it is, since v.
Since(u, v) ==
  \A w \in v .. membership_version :
    u \in once[w].in /\ once[w].closed = (status = "dissolved")

\* u's directory knows what is so now, or a row that says it is on its way.
Told(u) == my_channels[u] # NoRow /\ Since(u, my_channels[u].mv)

OnItsWay(u) == \E e \in outbox : /\ DirectoryRow(e.row) /\ e.row.user = u
                                 /\ Since(u, e.row.mv)

MembersTold ==
  "user_directory" \in Tracked /\ (\A row \in dead : ~DirectoryRow(row)) =>
    \A u \in ActiveMembers : Told(u) \/ OnItsWay(u)

\* The public directory ought to list the channel, and what it lists is right.
OnList == kind = "channel" /\ status = "active" /\ visibility = "public_listed"

Lists(l) == /\ l.status = "active" <=> OnList
            /\ l.status = "active" => l.count = member_count

Listings == {e \in outbox : ListingRow(e.row)}

\* Without retries rows become due in the order they were written in, and
\* the alarm's snapshot is the beginning of the outbox.
InOrder ==
  /\ \A e \in outbox : e.due <= clock
  /\ failures["retry"] = 0 =>
       /\ \A e \in outbox : e.due # Later
       /\ \A e \in batch : \A o \in outbox \ batch : e.due < o.due
       /\ \A e, o \in Listings : e.due = o.due => e = o

\* The last of the listing's rows says what is so now.
LastListing ==
  "channel_directory" \in Tracked /\ failures["retry"] = 0 /\ (\A row \in dead : ~ListingRow(row)) =>
    IF Listings = {} THEN Lists(listing)
    ELSE \E e \in Listings : /\ \A o \in Listings : o.due <= e.due
                             /\ Lists(ApplyProjection(e.row))

OnlyChannelsListed == kind # "channel" => visibility = "private" /\ status = "active"

BatchIsDue == \A e \in batch : e.due # Later

Bookkeeping == OTypeOK /\ BatchIsDue /\ PendingHasAlarm
History == Numbered /\ OnlyChannelsListed /\ PastIsNow
Truth == RowsAreTrue /\ HeldIsTrue

PInv == Bookkeeping /\ History /\ Truth /\ MembersTold /\ InOrder /\ LastListing

-----------------------------------------------------------------------------
(* Reading rows.                                                           *)

LEMMA RowReads ==
  /\ \A v : ~DirectoryRow(FanoutRow(v)) /\ ~ListingRow(FanoutRow(v))
  /\ \A u : ~DirectoryRow(UnregisterRow(u)) /\ ~ListingRow(UnregisterRow(u))
  /\ \A u, limit : ~DirectoryRow(InviteRow(u, limit)) /\ ~ListingRow(InviteRow(u, limit))
  /\ \A u, act, v : /\ DirectoryRow(UserRow(u, act, v)) /\ ~ListingRow(UserRow(u, act, v))
                    /\ UserRow(u, act, v).user = u /\ UserRow(u, act, v).mv = v
                    /\ UserRow(u, act, v).action = act
  /\ \A count, st : /\ ~DirectoryRow(ListingUpsert(count, st))
                    /\ ListingRow(ListingUpsert(count, st))
                    /\ ApplyProjection(ListingUpsert(count, st)) = [status |-> st, count |-> count]
  /\ ~DirectoryRow(ListingDelete) /\ ListingRow(ListingDelete)
  /\ ApplyProjection(ListingDelete) = Unlisted
BY DEF DirectoryRow, ListingRow, FanoutRow, UnregisterRow, InviteRow, UserRow, ListingUpsert,
       ListingDelete, ApplyProjection

LEMMA DirectoryRows ==
  ASSUME NEW row \in Rows, DirectoryRow(row)
  PROVE  /\ row.user \in Users /\ row.mv \in Nat
         /\ row.action \in {"join", "leave", "dissolve"}
BY DEF Rows, DirectoryRow

LEMMA Becoming ==
  Becomes["join"] = "active" /\ Becomes["leave"] = "left" /\ Becomes["dissolve"] = "dissolved"
BY DEF Becomes

ListingType == [status : {"none", "active", "dissolved"}, count : Nat]

LEMMA ListingRows ==
  ASSUME NEW row \in Rows, ListingRow(row)
  PROVE  ApplyProjection(row) \in ListingType
<1>1. CASE row \in [target : {"channel_directory"}, action : {"upsert"}, count : Nat,
                    status : {"active", "dissolved"}]
  BY <1>1 DEF ApplyProjection, ListingType
<1>2. CASE row \in [target : {"channel_directory"}, action : {"delete"}]
  BY <1>2 DEF ApplyProjection, ListingType, Unlisted
<1> QED
  BY <1>1, <1>2 DEF Rows, ListingRow

-----------------------------------------------------------------------------
(* What the handlers write: the rows tell every user whose state changes   *)
(* and, when the listing changes, one row tells the public directory.      *)

NowAt(u, held) == CASE held = "active" -> u \in ActiveMembers /\ status = "active"
                    [] held = "dissolved" -> u \in ActiveMembers /\ status = "dissolved"
                    [] OTHER -> u \notin ActiveMembers

NewVersions == (membership_version + 1) .. membership_version'

TellUsers(rows) ==
  /\ \A r \in rows : DirectoryRow(r) => r.mv \in NewVersions /\ NowAt(r.user, Becomes[r.action])'
  /\ \A u \in ActiveMembers' :
       \/ u \in ActiveMembers /\ status' = status
       \/ \E r \in rows : DirectoryRow(r) /\ r.user = u /\ r.mv \in NewVersions

TellListing(rows) ==
  \/ /\ \A r \in rows : ~ListingRow(r)
     /\ OnList' <=> OnList
     /\ OnList => member_count' = member_count
  \/ \E r \in rows : /\ ListingRow(r)
                     /\ \A o \in rows : ListingRow(o) => o = r
                     /\ Lists(ApplyProjection(r))'

Tells == /\ OnlyChannelsListed'
         /\ \E rows \in SUBSET Rows : Emit(rows) /\ TellUsers(rows) /\ TellListing(rows)

LEMMA AnswerOnlyTells ==
  ASSUME TypeOK, OnlyChannelsListed, NEW r, AnswerOnly(r)
  PROVE  Tells
<1>1. UNCHANGED <<channel, roster, outbox, clock>>
  BY DEF AnswerOnly
<1>2. Emit({})
  BY <1>1 DEF Emit
<1>3. ActiveMembers' = ActiveMembers /\ status' = status
  BY <1>1 DEF ActiveMembers, channel, roster
<1>4. TellUsers({}) /\ TellListing({})
  BY <1>1, <1>3 DEF TellUsers, TellListing, OnList, channel, roster
<1>5. OnlyChannelsListed'
  BY <1>1 DEF OnlyChannelsListed, channel
<1> QED
  BY <1>2, <1>4, <1>5 DEF Tells

\* Of two rows for the listing and others, one is for the listing.
LEMMA OneListing ==
  ASSUME TypeOK, NEW rows, NEW count \in Nat, NEW st \in {"active", "dissolved"},
         \A r \in rows : ~ListingRow(r),
         kind' = kind, visibility' = visibility, status' = status, st = status,
         member_count' = count, OnlyChannelsListed
  PROVE  TellListing(rows \cup Listing(count, st))
<1>1. CASE visibility = "public_listed"
  <2>1. Listing(count, st) = {ListingUpsert(count, st)} /\ ListingRow(ListingUpsert(count, st))
    BY <1>1, RowReads DEF Listing
  <2>2. ApplyProjection(ListingUpsert(count, st)) = [status |-> st, count |-> count]
    BY RowReads
  <2>3. kind = "channel"
    BY <1>1 DEF OnlyChannelsListed
  <2>4. [status |-> st, count |-> count].status = st /\ [status |-> st, count |-> count].count = count
    OBVIOUS
  <2>5. Lists(ApplyProjection(ListingUpsert(count, st)))'
    BY <1>1, <2>2, <2>3, <2>4 DEF Lists, OnList, ApplyProjection, ListingUpsert
  <2> QED
    BY <2>1, <2>5 DEF TellListing
<1>2. CASE visibility # "public_listed"
  BY <1>2 DEF TellListing, Listing, OnList
<1> QED
  BY <1>1, <1>2

LEMMA AdmitTells ==
  ASSUME TypeOK, OnlyChannelsListed, NEW u \in Users, NEW role \in {"member", "admin"},
         status = "active", u \notin ActiveMembers, Admit(u, role)
  PROVE  Tells
<1> DEFINE two == {FanoutRow(membership_version + 1), UserRow(u, "join", membership_version + 1)}
           rows == two \cup Listing(CountWith, status)
<1>1. membership_version + 1 \in Nat /\ CountWith \in Nat /\ status \in {"active", "dissolved"}
  BY DEF TypeOK, CountWith
<1>2. rows \in SUBSET Rows /\ Emit(rows)
  BY <1>1, RowTypes, ListingTypes DEF Admit
<1>3. /\ kind' = kind /\ status' = status /\ visibility' = visibility
      /\ membership_version' = membership_version + 1 /\ member_count' = CountWith
  BY DEF Admit, channel
<1>4. ActiveMembers' = ActiveMembers \cup {u}
  BY DEF Admit, TypeOK, ActiveMembers, Roles
<1>5. TellUsers(rows)
  <2>1. \A r \in rows : DirectoryRow(r) => r = UserRow(u, "join", membership_version + 1)
    BY RowReads DEF Listing
  <2>2. membership_version + 1 \in NewVersions
    BY <1>1, <1>3 DEF NewVersions
  <2>3. NowAt(u, "active")'
    BY <1>3, <1>4 DEF NowAt
  <2>4. UserRow(u, "join", membership_version + 1) \in rows
    OBVIOUS
  <2> HIDE DEF rows
  <2>5. \A r \in rows : DirectoryRow(r) => r.mv \in NewVersions /\ NowAt(r.user, Becomes[r.action])'
    BY <2>1, <2>2, <2>3, RowReads, Becoming
  <2>6. \A w \in ActiveMembers' :
          \/ w \in ActiveMembers /\ status' = status
          \/ \E r \in rows : DirectoryRow(r) /\ r.user = w /\ r.mv \in NewVersions
    BY <1>3, <1>4, <2>2, <2>4, RowReads
  <2> QED
    BY <2>5, <2>6 DEF TellUsers
<1>6. TellListing(rows)
  <2>1. \A r \in two : ~ListingRow(r)
    BY RowReads
  <2> QED
    BY <1>1, <1>3, <2>1, OneListing
<1>7. OnlyChannelsListed'
  BY <1>3 DEF OnlyChannelsListed
<1> HIDE DEF rows
<1> QED
  BY <1>2, <1>5, <1>6, <1>7 DEF Tells

LEMMA CreateChannelTells ==
  ASSUME TypeOK, Numbered, OnlyChannelsListed, NEW o \in Users, NEW initial \in SUBSET Users,
         NEW vis \in Visibilities, NEW role \in [initial -> {"member", "admin"}],
         CreateChannel(o, initial, role, vis)
  PROVE  Tells
<1> DEFINE last == 1 + Cardinality(initial)
           listed == IF vis = "public_listed" THEN {ListingUpsert(last, "active")} ELSE {}
           told == {UserRow(o, "join", 1)} \cup {UserRow(u, "join", last) : u \in initial}
           rows == {FanoutRow(v) : v \in 1 .. last}
                   \cup {UserRow(o, "join", 1)}
                   \cup {UserRow(u, "join", last) : u \in initial}
                   \cup listed
<1>1. Cardinality(initial) \in Nat /\ last \in Nat /\ last >= 1
  BY ActiveFinite
<1>2. rows \in SUBSET Rows /\ Emit(rows)
  <2>1. \A v \in 1 .. last : FanoutRow(v) \in Rows
    BY <1>1, RowTypes
  <2>2. UserRow(o, "join", 1) \in Rows /\ \A u \in initial : UserRow(u, "join", last) \in Rows
    BY <1>1, RowTypes
  <2>3. listed \subseteq Rows
    BY <1>1, RowTypes
  <2> QED BY <2>1, <2>2, <2>3 DEF CreateChannel
<1>3. /\ kind = "none" /\ kind' = "channel" /\ visibility' = vis /\ status' = status
      /\ membership_version' = last /\ member_count' = last
  BY DEF CreateChannel
<1>4. status = "active" /\ membership_version = 0
  BY <1>3 DEF OnlyChannelsListed, Numbered
<1>5. ActiveMembers' = initial \cup {o}
  <2>1. \A u \in Users : members'[u] = CASE u = o -> "owner"
                                         [] u \in initial -> role[u]
                                         [] OTHER -> "none"
    BY DEF CreateChannel
  <2>2. \A u \in Users : members'[u] \in Roles <=> u \in initial \cup {o}
    BY <2>1 DEF Roles
  <2> QED BY <2>2 DEF ActiveMembers
<1> HIDE DEF last
<1>6. TellUsers(rows)
  <2>1. \A r \in rows : DirectoryRow(r) =>
          r = UserRow(o, "join", 1) \/ \E u \in initial : r = UserRow(u, "join", last)
    BY RowReads
  <2>2. 1 \in NewVersions /\ last \in NewVersions
    BY <1>1, <1>3, <1>4 DEF NewVersions
  <2>3. \A u \in initial \cup {o} : NowAt(u, "active")'
    BY <1>3, <1>4, <1>5 DEF NowAt
  <2>4. UserRow(o, "join", 1) \in rows /\ \A u \in initial : UserRow(u, "join", last) \in rows
    OBVIOUS
  <2> HIDE DEF rows
  <2>5. \A r \in rows : DirectoryRow(r) => r.mv \in NewVersions /\ NowAt(r.user, Becomes[r.action])'
    <3> SUFFICES ASSUME NEW r \in rows, DirectoryRow(r)
                 PROVE  r.mv \in NewVersions /\ NowAt(r.user, Becomes[r.action])'
      OBVIOUS
    <3>1. CASE r = UserRow(o, "join", 1)
      BY <3>1, <2>2, <2>3, RowReads, Becoming
    <3>2. CASE \E u \in initial : r = UserRow(u, "join", last)
      <4>1. PICK u \in initial : r = UserRow(u, "join", last)
        BY <3>2
      <4> QED BY <4>1, <2>2, <2>3, RowReads, Becoming
    <3> QED BY <2>1, <3>1, <3>2
  <2>6. \A w \in ActiveMembers' :
          \E r \in rows : DirectoryRow(r) /\ r.user = w /\ r.mv \in NewVersions
    BY <1>5, <2>2, <2>4, RowReads
  <2> QED
    BY <2>5, <2>6 DEF TellUsers
<1>7. TellListing(rows)
  <2>1. CASE vis = "public_listed"
    <3> DEFINE r == ListingUpsert(last, "active")
    <3>1. r \in rows /\ ListingRow(r) /\ \A x \in rows : ListingRow(x) => x = r
      BY <2>1, RowReads
    <3>2. ApplyProjection(r) = [status |-> "active", count |-> last]
      BY RowReads
    <3>3. OnList' /\ member_count' = last
      BY <1>3, <1>4, <2>1 DEF OnList
    <3>4. Lists(ApplyProjection(r))'
      BY <1>1, <3>2, <3>3 DEF Lists, ApplyProjection, ListingUpsert
    <3> HIDE DEF rows, r
    <3> QED
      BY <3>1, <3>4 DEF TellListing
  <2>2. CASE vis # "public_listed"
    <3>1. \A r \in rows : ~ListingRow(r)
      BY <2>2, RowReads
    <3>2. ~OnList' /\ ~OnList
      BY <1>3, <2>2 DEF OnList
    <3> QED BY <3>1, <3>2 DEF TellListing
  <2> QED
    BY <2>1, <2>2
<1>8. OnlyChannelsListed'
  BY <1>3 DEF OnlyChannelsListed
<1> HIDE DEF rows
<1> QED
  BY <1>2, <1>6, <1>7, <1>8 DEF Tells

LEMMA CreateDmTells ==
  ASSUME TypeOK, Numbered, OnlyChannelsListed, NEW a \in Users, NEW b \in Users, CreateDm(a, b)
  PROVE  Tells
<1> DEFINE rows == {UserRow(u, "join", 1) : u \in {a, b}}
<1>1. rows \in SUBSET Rows /\ Emit(rows)
  BY RowTypes DEF CreateDm
<1>2. /\ kind = "none" /\ kind' = "dm" /\ visibility' = visibility /\ status' = status
      /\ membership_version' = 1
  BY DEF CreateDm
<1>3. status = "active" /\ membership_version = 0 /\ visibility = "private"
  BY <1>2 DEF OnlyChannelsListed, Numbered
<1>4. ActiveMembers' = {a, b}
  BY DEF CreateDm, ActiveMembers, Roles
<1>5. TellUsers(rows)
  <2>1. 1 \in NewVersions
    BY <1>2, <1>3 DEF NewVersions
  <2>2. \A u \in {a, b} : NowAt(u, "active")'
    BY <1>2, <1>3, <1>4 DEF NowAt
  <2>3. \A r \in rows : r.mv \in NewVersions /\ NowAt(r.user, Becomes[r.action])'
    BY <2>1, <2>2, RowReads, Becoming
  <2>4. \A w \in ActiveMembers' :
          \E r \in rows : DirectoryRow(r) /\ r.user = w /\ r.mv \in NewVersions
    BY <1>4, <2>1, RowReads
  <2> QED
    BY <2>3, <2>4 DEF TellUsers
<1>6. TellListing(rows)
  BY <1>2, <1>3, RowReads DEF TellListing, OnList
<1>7. OnlyChannelsListed'
  BY <1>2, <1>3 DEF OnlyChannelsListed
<1> HIDE DEF rows
<1> QED
  BY <1>1, <1>5, <1>6, <1>7 DEF Tells

LEMMA RemoveMemberTells ==
  ASSUME TypeOK, OnlyChannelsListed, NEW a \in Users, NEW u \in Users, NEW k \in Keys,
         RemoveMember(a, u, k)
  PROVE  Tells
<1> DEFINE count == IF member_count > 0 THEN member_count - 1 ELSE 0
           three == {UnregisterRow(u), FanoutRow(membership_version + 1),
                     UserRow(u, "leave", membership_version + 1)}
           rows == three \cup Listing(count, status)
<1>1. membership_version + 1 \in Nat /\ count \in Nat /\ status \in {"active", "dissolved"}
  BY DEF TypeOK
<1>2. rows \in SUBSET Rows /\ Emit(rows)
  BY <1>1, RowTypes, ListingTypes DEF RemoveMember
<1>3. /\ kind' = kind /\ status' = status /\ visibility' = visibility
      /\ membership_version' = membership_version + 1 /\ member_count' = count
  BY DEF RemoveMember, channel
<1> HIDE DEF count
<1>4. ActiveMembers' = ActiveMembers \ {u}
  BY DEF RemoveMember, MarkLeft, TypeOK, ActiveMembers, Roles
<1>5. TellUsers(rows)
  <2>1. \A r \in rows : DirectoryRow(r) => r = UserRow(u, "leave", membership_version + 1)
    BY RowReads DEF Listing
  <2>2. membership_version + 1 \in NewVersions
    BY <1>1, <1>3 DEF NewVersions
  <2>3. NowAt(u, "left")'
    BY <1>4 DEF NowAt
  <2> HIDE DEF rows
  <2>4. \A r \in rows : DirectoryRow(r) => r.mv \in NewVersions /\ NowAt(r.user, Becomes[r.action])'
    BY <2>1, <2>2, <2>3, RowReads, Becoming
  <2> QED
    BY <1>3, <1>4, <2>4 DEF TellUsers
<1>6. TellListing(rows)
  <2>1. \A r \in three : ~ListingRow(r)
    BY RowReads
  <2> QED
    BY <1>1, <1>3, <2>1, OneListing
<1>7. OnlyChannelsListed'
  BY <1>3 DEF OnlyChannelsListed
<1> HIDE DEF rows
<1> QED
  BY <1>2, <1>5, <1>6, <1>7 DEF Tells

LEMMA UpdateMemberRoleTells ==
  ASSUME TypeOK, OnlyChannelsListed, NEW a \in Users, NEW u \in Users,
         NEW role \in {"member", "admin"}, NEW k \in Keys, UpdateMemberRole(a, u, role, k)
  PROVE  Tells
<1> DEFINE rows == {FanoutRow(membership_version + 1), UserRow(u, "join", membership_version + 1)}
<1>1. membership_version + 1 \in Nat
  BY DEF TypeOK
<1>2. rows \in SUBSET Rows /\ Emit(rows)
  BY <1>1, RowTypes DEF UpdateMemberRole
<1>3. /\ kind' = kind /\ status' = status /\ visibility' = visibility /\ member_count' = member_count
      /\ membership_version' = membership_version + 1 /\ status = "active" /\ u \in ActiveMembers
  BY DEF UpdateMemberRole, OpenChannel, channel
<1>4. ActiveMembers' = ActiveMembers
  BY <1>3 DEF UpdateMemberRole, TypeOK, ActiveMembers, Roles
<1>5. TellUsers(rows)
  <2>1. membership_version + 1 \in NewVersions
    BY <1>1, <1>3 DEF NewVersions
  <2>2. NowAt(u, "active")'
    BY <1>3, <1>4 DEF NowAt
  <2>3. \A r \in rows : DirectoryRow(r) => r.mv \in NewVersions /\ NowAt(r.user, Becomes[r.action])'
    BY <2>1, <2>2, RowReads, Becoming
  <2> QED
    BY <1>3, <1>4, <2>3 DEF TellUsers
<1>6. TellListing(rows)
  BY <1>3, RowReads DEF TellListing, OnList
<1>7. OnlyChannelsListed'
  BY <1>3 DEF OnlyChannelsListed
<1> HIDE DEF rows
<1> QED
  BY <1>2, <1>5, <1>6, <1>7 DEF Tells

LEMMA TransferOwnerTells ==
  ASSUME TypeOK, OnlyChannelsListed, NEW a \in Users, NEW u \in Users,
         NEW role \in {"member", "admin"}, NEW k \in Keys, TransferOwner(a, u, role, k)
  PROVE  Tells
<1> DEFINE rows == {FanoutRow(membership_version + 1), FanoutRow(membership_version + 2)}
<1>1. rows \in SUBSET Rows /\ Emit(rows)
  BY RowTypes DEF TransferOwner, TypeOK
<1>2. /\ kind' = kind /\ status' = status /\ visibility' = visibility /\ member_count' = member_count
  BY DEF TransferOwner
<1>3. ActiveMembers' = ActiveMembers
  BY DEF TransferOwner, HandOver, TypeOK, ActiveMembers, Roles
<1>4. TellUsers(rows)
  BY <1>2, <1>3, RowReads DEF TellUsers
<1>5. TellListing(rows)
  BY <1>2, RowReads DEF TellListing, OnList
<1>6. OnlyChannelsListed'
  BY <1>2 DEF OnlyChannelsListed
<1> HIDE DEF rows
<1> QED
  BY <1>1, <1>4, <1>5, <1>6 DEF Tells

LEMMA DissolveChannelTells ==
  ASSUME TypeOK, OnlyChannelsListed, NEW a \in Users, NEW k \in Keys, DissolveChannel(a, k)
  PROVE  Tells
<1> DEFINE delisted == IF visibility = "public_listed" THEN {ListingDelete} ELSE {}
           told == {UserRow(u, "dissolve", membership_version + 1) : u \in ActiveMembers}
           rows == {FanoutRow(membership_version + 1)} \cup told \cup delisted
<1>1. CASE AnswerOnly(<<a, "dissolve", k>>)
  BY <1>1, AnswerOnlyTells
<1>2. CASE ~AnswerOnly(<<a, "dissolve", k>>)
  <2>1. /\ kind = "channel" /\ status' = "dissolved" /\ membership_version' = membership_version + 1
        /\ Emit(rows) /\ UNCHANGED <<kind, visibility, members, member_count>>
    BY <1>2 DEF DissolveChannel
  <2>2. membership_version + 1 \in Nat
    BY DEF TypeOK
  <2>3. rows \in SUBSET Rows
    <3>1. \A u \in ActiveMembers : UserRow(u, "dissolve", membership_version + 1) \in Rows
      BY <2>2, RowTypes DEF ActiveMembers
    <3> QED BY <2>2, <3>1, RowTypes
  <2>4. ActiveMembers' = ActiveMembers
    BY <2>1 DEF ActiveMembers
  <2>5. TellUsers(rows)
    <3>1. membership_version + 1 \in NewVersions
      BY <2>1, <2>2 DEF NewVersions
    <3>2. \A u \in ActiveMembers : NowAt(u, "dissolved")'
      BY <2>1, <2>4 DEF NowAt
    <3>3. \A r \in rows : DirectoryRow(r) => r \in told
      BY RowReads
    <3>4. \A r \in told : r.mv \in NewVersions /\ NowAt(r.user, Becomes[r.action])'
      BY <3>1, <3>2, RowReads, Becoming
    <3>5. \A w \in ActiveMembers' :
            \E r \in rows : DirectoryRow(r) /\ r.user = w /\ r.mv \in NewVersions
      BY <2>4, <3>1, RowReads
    <3> HIDE DEF rows, told
    <3> QED
      BY <3>3, <3>4, <3>5 DEF TellUsers
  <2>6. TellListing(rows)
    <3>1. ~OnList'
      BY <2>1 DEF OnList
    <3>2. CASE visibility = "public_listed"
      <4>1. ListingDelete \in rows /\ \A o \in rows : ListingRow(o) => o = ListingDelete
        BY <3>2, RowReads
      <4>2. Lists(ApplyProjection(ListingDelete))'
        BY <3>1, RowReads DEF Lists, ApplyProjection, ListingDelete, Unlisted
      <4> HIDE DEF rows
      <4> QED
        BY <4>1, <4>2, RowReads DEF TellListing
    <3>3. CASE visibility # "public_listed"
      BY <3>1, <3>3, RowReads DEF TellListing, OnList
    <3> QED
      BY <3>2, <3>3
  <2>7. OnlyChannelsListed'
    BY <2>1 DEF OnlyChannelsListed
  <2> HIDE DEF rows
  <2> QED
    BY <2>1, <2>3, <2>5, <2>6, <2>7 DEF Tells
<1> QED
  BY <1>1, <1>2

LEMMA UpdateChannelTells ==
  ASSUME TypeOK, OnlyChannelsListed, NEW a \in Users, NEW vis \in Visibilities,
         NEW retitled \in BOOLEAN, NEW k \in Keys, UpdateChannel(a, vis, retitled, k)
  PROVE  Tells
<1> DEFINE rows == {FanoutRow(membership_version)} \cup Relisting(vis)
<1>1. CASE AnswerOnly(<<a, "update", k>>)
  BY <1>1, AnswerOnlyTells
<1>2. CASE ~AnswerOnly(<<a, "update", k>>)
  <2>1. /\ kind = "channel" /\ status = "active" /\ visibility' = vis
        /\ Emit(rows) /\ UNCHANGED <<kind, status, roster>>
    BY <1>2 DEF UpdateChannel, OpenChannel
  <2>2. rows \in SUBSET Rows
    BY RowTypes DEF TypeOK, Relisting
  <2>3. ActiveMembers' = ActiveMembers /\ member_count' = member_count
    BY <2>1 DEF ActiveMembers, roster
  <2>4. TellUsers(rows)
    BY <2>1, <2>3, RowReads DEF TellUsers, Relisting
  <2>5. TellListing(rows)
    <3>1. CASE vis = "public_listed"
      <4> PICK r : r = ListingUpsert(member_count, status)
        OBVIOUS
      <4>1. r \in rows /\ ListingRow(r) /\ \A o \in rows : ListingRow(o) => o = r
        BY <3>1, RowReads DEF Relisting
      <4>2. ApplyProjection(r) = [status |-> status, count |-> member_count]
        BY RowReads
      <4>3. Lists(ApplyProjection(r))'
        BY <2>1, <2>3, <3>1, <4>2 DEF Lists, OnList
      <4> HIDE DEF rows
      <4> QED
        BY <4>1, <4>3 DEF TellListing
    <3>2. CASE vis # "public_listed" /\ visibility = "public_listed"
      <4>1. ListingDelete \in rows /\ \A o \in rows : ListingRow(o) => o = ListingDelete
        BY <3>2, RowReads DEF Relisting
      <4>2. Lists(ApplyProjection(ListingDelete))'
        BY <2>1, <3>2, RowReads DEF Lists, OnList, ApplyProjection, ListingDelete, Unlisted
      <4> HIDE DEF rows
      <4> QED
        BY <4>1, <4>2, RowReads DEF TellListing
    <3>3. CASE vis # "public_listed" /\ visibility # "public_listed"
      BY <2>1, <3>3, RowReads DEF TellListing, OnList, Relisting
    <3> QED
      BY <3>1, <3>2, <3>3
  <2>6. OnlyChannelsListed'
    BY <2>1 DEF OnlyChannelsListed
  <2> HIDE DEF rows
  <2> QED
    BY <2>1, <2>2, <2>4, <2>5, <2>6 DEF Tells
<1> QED
  BY <1>1, <1>2

LEMMA CreateInviteTells ==
  ASSUME TypeOK, OnlyChannelsListed, NEW u \in Users, NEW limit \in UseLimits, NEW k \in Keys,
         CreateInvite(u, limit, k)
  PROVE  Tells
<1>1. {InviteRow(u, limit)} \in SUBSET Rows /\ Emit({InviteRow(u, limit)})
  BY RowTypes DEF CreateInvite
<1>2. /\ UNCHANGED <<kind, status, visibility, member_count>> /\ ActiveMembers' = ActiveMembers
  BY DEF CreateInvite, ActiveMembers, channel, roster
<1>3. TellUsers({InviteRow(u, limit)}) /\ TellListing({InviteRow(u, limit)})
  BY <1>2, RowReads DEF TellUsers, TellListing, OnList
<1>4. OnlyChannelsListed'
  BY <1>2 DEF OnlyChannelsListed
<1> QED
  BY <1>1, <1>3, <1>4 DEF Tells

\* Whatever a handler changes, its rows tell.
LEMMA HandlersTell ==
  ASSUME TypeOK, Numbered, OnlyChannelsListed, Create \/ Handler
  PROVE  Tells
<1>1. ASSUME NEW u \in Users, NEW k \in Keys, Join(u, k) PROVE Tells
  BY <1>1, AdmitTells, AnswerOnlyTells DEF Join, OpenChannel
<1>2. ASSUME NEW a \in Users, NEW u \in Users, NEW role \in {"member", "admin"}, NEW k \in Keys,
             AddMember(a, u, role, k)
      PROVE  Tells
  BY <1>2, AdmitTells, AnswerOnlyTells DEF AddMember, OpenChannel
<1>3. ASSUME NEW u \in Users, NEW c \in Users, NEW k \in Keys, AcceptInvite(u, c, k)
      PROVE  Tells
  BY <1>3, AdmitTells, AnswerOnlyTells DEF AcceptInvite
<1>4. Create => Tells
  BY CreateChannelTells, CreateDmTells DEF Create
<1>5. Handler => Tells
  BY <1>1, <1>2, <1>3, RemoveMemberTells, UpdateMemberRoleTells, TransferOwnerTells,
     DissolveChannelTells, UpdateChannelTells, CreateInviteTells DEF Handler
<1> QED
  BY <1>4, <1>5

-----------------------------------------------------------------------------
(* A handler commits.                                                      *)

\* Versions only grow, and while one stands nothing it stands for changes.
LEMMA VersionsTell ==
  ASSUME TypeOK, Numbered, Create \/ Handler
  PROVE  /\ membership_version \in Nat /\ membership_version' \in Nat
         /\ membership_version <= membership_version'
         /\ membership_version' = membership_version =>
              ActiveMembers' = ActiveMembers /\ status' = status
<1>1. membership_version \in Nat
  BY MembershipAssumption DEF TypeOK
<1>2. Effect
  BY CreateEffect, HandlerEffect
<1>3. CASE \E first \in SUBSET Users : Opens(first)
  BY <1>1, <1>3, ActiveFinite DEF Opens, Numbered
<1>4. CASE \E u \in Users : LetsIn(u) \/ LetsOut(u)
  BY <1>1, <1>4 DEF LetsIn, LetsOut
<1>5. CASE ChangesRoles \/ Closes \/ LeavesRoster
  BY <1>1, <1>5 DEF ChangesRoles, Closes, LeavesRoster
<1> QED
  BY <1>2, <1>3, <1>4, <1>5 DEF Effect

\* What is remembered stays, and the new versions are the channel as it is.
LEMMA PastGrows ==
  ASSUME OTypeOK, History, Commit
  PROVE  /\ \A w \in 0 .. membership_version : once'[w] = once[w]
         /\ \A w \in NewVersions :
              once'[w] = [in |-> ActiveMembers', closed |-> status' = "dissolved"]
         /\ PastIsNow'
         /\ once' \in [0 .. membership_version' -> [in : SUBSET Users, closed : BOOLEAN]]
<1> DEFINE now == [in |-> ActiveMembers', closed |-> status' = "dissolved"]
<1>1. /\ membership_version \in Nat /\ membership_version' \in Nat
      /\ membership_version <= membership_version'
      /\ membership_version' = membership_version => ActiveMembers' = ActiveMembers /\ status' = status
  BY VersionsTell DEF OTypeOK, History, Commit
<1>2. DOMAIN once = 0 .. membership_version
      /\ once \in [0 .. membership_version -> [in : SUBSET Users, closed : BOOLEAN]]
  BY DEF OTypeOK
<1>3. once' = [v \in 0 .. membership_version' |->
                 IF v \in 0 .. membership_version THEN once[v] ELSE now]
  BY <1>2 DEF Commit, Record
<1>4. now \in [in : SUBSET Users, closed : BOOLEAN]
  BY DEF ActiveMembers
<1> HIDE DEF now
<1>5. \A w \in 0 .. membership_version : once'[w] = once[w]
  BY <1>1, <1>3
<1>6. \A w \in NewVersions : once'[w] = now
  BY <1>1, <1>3 DEF NewVersions
<1>7. once'[membership_version'] = now
  <2>1. CASE membership_version' = membership_version
    BY <1>1, <1>5, <2>1 DEF now, History, PastIsNow
  <2>2. CASE membership_version' # membership_version
    BY <1>1, <1>6, <2>2 DEF NewVersions
  <2> QED BY <2>1, <2>2
<1>8. once' \in [0 .. membership_version' -> [in : SUBSET Users, closed : BOOLEAN]]
  BY <1>2, <1>3, <1>4
<1> QED
  BY <1>5, <1>6, <1>7, <1>8 DEF now, PastIsNow

\* The entries that rows make in the outbox.
Written(rows) == {[row |-> r, due |-> clock + 1, attempts |-> 0] :
                    r \in {x \in rows : x.target \in Tracked}}

LEMMA WrittenEntries ==
  ASSUME OTypeOK, NEW rows \in SUBSET Rows, Emit(rows)
  PROVE  /\ outbox' = outbox \cup Written(rows)
         /\ clock \in Nat /\ clock' \in Nat /\ clock <= clock'
         /\ Written(rows) # {} => clock' = clock + 1
         /\ \A e \in Written(rows) : e.row \in rows /\ e.due = clock + 1
         /\ \A e, o \in Written(rows) : e.row = o.row => e = o
         /\ \A r \in rows : r.target \in Tracked => \E e \in Written(rows) : e.row = r
<1>1. clock \in Nat
  BY DEF OTypeOK, TypeOK
<1>2. outbox' = outbox \cup Written(rows)
      /\ clock' = IF {x \in rows : x.target \in Tracked} = {} THEN clock ELSE clock + 1
  BY DEF Emit, Written
<1>3. Written(rows) # {} => {x \in rows : x.target \in Tracked} # {}
  BY DEF Written
<1>4. \A r \in rows : r.target \in Tracked => \E e \in Written(rows) : e.row = r
  <2>1. \A r \in rows : r.target \in Tracked =>
          [row |-> r, due |-> clock + 1, attempts |-> 0] \in Written(rows)
    BY DEF Written
  <2> QED BY <2>1
<1>5. \A e \in Written(rows) :
        e.row \in rows /\ e.due = clock + 1 /\ e = [row |-> e.row, due |-> clock + 1, attempts |-> 0]
  BY DEF Written
<1> QED
  BY <1>1, <1>2, <1>3, <1>4, <1>5

LEMMA CommitKeepsTypes ==
  ASSUME PInv, Commit
  PROVE  Bookkeeping'
<1>1. TypeOK'
  BY TypeNext DEF PInv, Bookkeeping, OTypeOK, Commit, Next
<1>2. PICK rows \in SUBSET Rows : Emit(rows)
  BY HandlersTell DEF PInv, Bookkeeping, OTypeOK, History, Commit, Tells
<1>3. outbox \subseteq outbox'
  BY <1>2, WrittenEntries DEF PInv, Bookkeeping
<1>4. UNCHANGED <<alarm, flushing, batch, dead, my_channels, listing, failures>>
      /\ arming' = (arming \/ outbox' # outbox)
  BY DEF Commit, projections
<1>5. once' \in [0 .. membership_version' -> [in : SUBSET Users, closed : BOOLEAN]]
  BY PastGrows DEF PInv, Bookkeeping
<1>6. OTypeOK'
  <2>1. OTypeOK
    BY DEF PInv, Bookkeeping
  <2> QED
    BY <1>1, <1>3, <1>4, <1>5, <2>1 DEF OTypeOK
<1>7. PendingHasAlarm'
  BY <1>4 DEF PInv, Bookkeeping, PendingHasAlarm, Stranded
<1>8. BatchIsDue'
  BY <1>4 DEF PInv, Bookkeeping, BatchIsDue
<1> QED
  BY <1>6, <1>7, <1>8 DEF Bookkeeping

LEMMA CommitKeepsTruth ==
  ASSUME PInv, Commit, NEW rows \in SUBSET Rows, Emit(rows), TellUsers(rows)
  PROVE  Truth'
<1>1. /\ \A w \in 0 .. membership_version : once'[w] = once[w]
      /\ \A w \in NewVersions : once'[w] = [in |-> ActiveMembers', closed |-> status' = "dissolved"]
  BY PastGrows DEF PInv, Bookkeeping
<1>2. /\ membership_version \in Nat /\ membership_version' \in Nat
      /\ membership_version <= membership_version'
  BY VersionsTell DEF PInv, Bookkeeping, OTypeOK, History, Commit
<1>3. \A u, held : \A w \in 1 .. membership_version : TrueAt(u, held, w) => TrueAt(u, held, w)'
  BY <1>1, <1>2 DEF TrueAt
<1>4. \A u, held : \A w \in NewVersions : NowAt(u, held)' => TrueAt(u, held, w)'
  <2> SUFFICES ASSUME NEW u, NEW held, NEW w \in NewVersions, NowAt(u, held)'
               PROVE  TrueAt(u, held, w)'
    OBVIOUS
  <2>1. once'[w].in = ActiveMembers' /\ once'[w].closed = (status' = "dissolved")
    BY <1>1
  <2>2. status' \in {"active", "dissolved"}
    BY CommitKeepsTypes DEF Bookkeeping, OTypeOK, TypeOK
  <2> QED
    BY <2>1, <2>2 DEF TrueAt, NowAt
<1>5. /\ outbox' = outbox \cup Written(rows)
      /\ \A e \in Written(rows) : e.row \in rows
  BY WrittenEntries DEF PInv, Bookkeeping
<1>6. RowsAreTrue'
  <2> SUFFICES ASSUME NEW e \in outbox', DirectoryRow(e.row)
               PROVE  /\ e.row.mv \in 1 .. membership_version'
                      /\ TrueAt(e.row.user, Becomes[e.row.action], e.row.mv)'
    BY DEF RowsAreTrue
  <2>1. CASE e \in outbox
    <3>1. e.row.mv \in 1 .. membership_version /\ TrueAt(e.row.user, Becomes[e.row.action], e.row.mv)
      BY <2>1 DEF PInv, Truth, RowsAreTrue
    <3> QED
      BY <1>2, <1>3, <3>1
  <2>2. CASE e \in Written(rows)
    <3>1. e.row.mv \in NewVersions /\ NowAt(e.row.user, Becomes[e.row.action])'
      BY <1>5, <2>2 DEF TellUsers
    <3>2. e.row.mv \in 1 .. membership_version'
      BY <1>2, <3>1 DEF NewVersions
    <3> QED
      BY <1>4, <3>1, <3>2
  <2> QED
    BY <1>5, <2>1, <2>2
<1>7. HeldIsTrue'
  <2>1. my_channels' = my_channels
    BY DEF Commit, projections
  <2>2. ASSUME NEW u \in Users, my_channels[u] # NoRow
        PROVE  \E h : /\ h = my_channels[u] /\ h.mv \in 1 .. membership_version'
                      /\ h.status # "none" /\ TrueAt(u, h.status, h.mv)'
    <3>1. PICK h : h = my_channels[u]
      OBVIOUS
    <3>2. h.mv \in 1 .. membership_version /\ h.status # "none" /\ TrueAt(u, h.status, h.mv)
      BY <2>2, <3>1 DEF PInv, Truth, HeldIsTrue
    <3>3. h.mv \in 1 .. membership_version'
      BY <1>2, <3>2
    <3> QED
      BY <1>3, <3>1, <3>2, <3>3
  <2>3. ASSUME NEW u \in Users, my_channels'[u] # NoRow
        PROVE  /\ my_channels'[u].mv \in 1 .. membership_version'
               /\ my_channels'[u].status # "none"
               /\ TrueAt(u, my_channels[u].status, my_channels[u].mv)'
    <3>1. PICK h : /\ h = my_channels'[u] /\ h.mv \in 1 .. membership_version'
                   /\ h.status # "none" /\ TrueAt(u, h.status, h.mv)'
      BY <2>1, <2>2, <2>3
    <3> QED
      BY <3>1
  <2> QED
    BY <2>3 DEF HeldIsTrue
<1> QED
  BY <1>6, <1>7 DEF Truth

LEMMA CommitTells ==
  ASSUME PInv, Commit, NEW rows \in SUBSET Rows, Emit(rows), TellUsers(rows)
  PROVE  MembersTold'
<1>1. /\ \A w \in 0 .. membership_version : once'[w] = once[w]
      /\ \A w \in NewVersions : once'[w] = [in |-> ActiveMembers', closed |-> status' = "dissolved"]
  BY PastGrows DEF PInv, Bookkeeping
<1>2. /\ membership_version \in Nat /\ membership_version' \in Nat
      /\ membership_version <= membership_version'
  BY VersionsTell DEF PInv, Bookkeeping, OTypeOK, History, Commit
<1>3. /\ outbox' = outbox \cup Written(rows)
      /\ \A r \in rows : r.target \in Tracked => \E e \in Written(rows) : e.row = r
  BY WrittenEntries DEF PInv, Bookkeeping
<1>4. dead' = dead /\ my_channels' = my_channels
  BY DEF Commit, projections
<1>5. \A u \in ActiveMembers' : \A v \in NewVersions : Since(u, v)'
  <2> SUFFICES ASSUME NEW u \in ActiveMembers', NEW v \in NewVersions,
                      NEW w \in v .. membership_version'
               PROVE  u \in once'[w].in /\ once'[w].closed = (status' = "dissolved")
    BY DEF Since
  <2>1. w \in NewVersions
    BY <1>2 DEF NewVersions
  <2> QED
    BY <1>1, <2>1
<1>6. \A u \in ActiveMembers' : \A v \in 1 .. membership_version :
        status' = status /\ Since(u, v) => Since(u, v)'
  <2> SUFFICES ASSUME NEW u \in ActiveMembers', NEW v \in 1 .. membership_version,
                      status' = status, Since(u, v), NEW w \in v .. membership_version'
               PROVE  u \in once'[w].in /\ once'[w].closed = (status' = "dissolved")
    BY DEF Since
  <2>1. CASE w <= membership_version
    <3>1. w \in v .. membership_version /\ w \in 0 .. membership_version
      BY <1>2, <2>1
    <3> QED
      BY <1>1, <3>1 DEF Since
  <2>2. CASE w > membership_version
    <3>1. w \in NewVersions
      BY <1>2, <2>2 DEF NewVersions
    <3> QED
      BY <1>1, <3>1
  <2> QED
    BY <1>2, <2>1, <2>2
<1> SUFFICES ASSUME "user_directory" \in Tracked, \A row \in dead : ~DirectoryRow(row),
                    NEW u \in ActiveMembers'
             PROVE  Told(u)' \/ OnItsWay(u)'
  BY <1>4 DEF MembersTold
<1>7. CASE u \in ActiveMembers /\ status' = status
  <2>1. CASE Told(u)
    <3>1. my_channels[u].mv \in 1 .. membership_version
      BY <1>7, <2>1 DEF PInv, Truth, HeldIsTrue, Told, ActiveMembers
    <3>2. Since(u, my_channels[u].mv)'
      BY <1>4, <1>6, <1>7, <2>1, <3>1 DEF Told, Since
    <3> QED
      BY <1>4, <2>1, <3>2 DEF Told
  <2>2. CASE OnItsWay(u)
    <3>1. PICK e \in outbox : DirectoryRow(e.row) /\ e.row.user = u /\ Since(u, e.row.mv)
      BY <2>2 DEF OnItsWay
    <3>2. e.row.mv \in 1 .. membership_version
      BY <3>1 DEF PInv, Truth, RowsAreTrue
    <3>3. Since(u, e.row.mv)'
      BY <1>6, <1>7, <3>1, <3>2
    <3> QED
      BY <1>3, <3>1, <3>3 DEF OnItsWay
  <2> QED
    BY <1>7, <2>1, <2>2 DEF PInv, MembersTold
<1>8. CASE \E r \in rows : DirectoryRow(r) /\ r.user = u /\ r.mv \in NewVersions
  <2>1. PICK r \in rows : DirectoryRow(r) /\ r.user = u /\ r.mv \in NewVersions
    BY <1>8
  <2>2. PICK e \in Written(rows) : e.row = r
    BY <1>3, <2>1 DEF DirectoryRow
  <2> QED
    BY <1>3, <1>5, <2>1, <2>2 DEF OnItsWay
<1> QED
  BY <1>7, <1>8 DEF TellUsers

LEMMA CommitKeepsOrder ==
  ASSUME PInv, Commit, NEW rows \in SUBSET Rows, Emit(rows), TellListing(rows)
  PROVE  InOrder' /\ LastListing'
<1>1. /\ outbox' = outbox \cup Written(rows)
      /\ clock \in Nat /\ clock' \in Nat /\ clock <= clock'
      /\ Written(rows) # {} => clock' = clock + 1
      /\ \A e \in Written(rows) : e.row \in rows /\ e.due = clock + 1
      /\ \A e, o \in Written(rows) : e.row = o.row => e = o
      /\ \A r \in rows : r.target \in Tracked => \E e \in Written(rows) : e.row = r
  BY WrittenEntries DEF PInv, Bookkeeping
<1>2. UNCHANGED <<batch, dead, listing, failures>>
  BY DEF Commit, projections
<1>3. /\ \A e \in outbox : e.due \in Int /\ e.due <= clock
      /\ batch \subseteq outbox
  BY DEF PInv, Bookkeeping, OTypeOK, TypeOK, InOrder
<1>4. \A e \in outbox : \A n \in Written(rows) : e.due < n.due
  BY <1>1, <1>3
<1>5. Listings' = Listings \cup {e \in Written(rows) : ListingRow(e.row)}
  BY <1>1 DEF Listings
<1>6. \A e, o \in Written(rows) : ListingRow(e.row) /\ ListingRow(o.row) => e = o
  <2> SUFFICES ASSUME NEW e \in Written(rows), NEW o \in Written(rows),
                      ListingRow(e.row), ListingRow(o.row)
               PROVE  e = o
    OBVIOUS
  <2>1. e.row \in rows /\ o.row \in rows
    BY <1>1
  <2>2. e.row = o.row
    BY <2>1 DEF TellListing
  <2> QED
    BY <1>1, <2>2
<1>7. InOrder'
  <2>1. \A e \in outbox' : e.due <= clock'
    <3>1. \A e \in outbox : e.due <= clock'
      BY <1>1, <1>3
    <3>2. \A e \in Written(rows) : e.due <= clock'
      BY <1>1
    <3> QED BY <1>1, <3>1, <3>2
  <2>2. ASSUME failures["retry"] = 0
        PROVE  /\ \A e \in outbox' : e.due # Later
               /\ \A e \in batch : \A o \in outbox' \ batch : e.due < o.due
               /\ \A e, o \in Listings' : e.due = o.due => e = o
    <3>1. /\ \A e \in outbox : e.due # Later
          /\ \A e \in batch : \A o \in outbox \ batch : e.due < o.due
          /\ \A e, o \in Listings : e.due = o.due => e = o
      BY <2>2 DEF PInv, InOrder
    <3>2. \A e \in Written(rows) : e.due # Later
      BY <1>1 DEF Later
    <3>3. \A e \in outbox' : e.due # Later
      BY <1>1, <3>1, <3>2
    <3>4. \A e \in batch : \A o \in outbox' \ batch : e.due < o.due
      BY <1>1, <1>3, <1>4, <3>1
    <3>5. \A e, o \in Listings' : e.due = o.due => e = o
      <4> SUFFICES ASSUME NEW e \in Listings', NEW o \in Listings', e.due = o.due PROVE e = o
        OBVIOUS
      <4>1. CASE e \in Listings /\ o \in Listings
        BY <3>1, <4>1
      <4>2. CASE e \in Listings /\ o \in Written(rows)
        BY <1>1, <1>3, <4>2 DEF Listings
      <4>3. CASE e \in Written(rows) /\ o \in Listings
        BY <1>1, <1>3, <4>3 DEF Listings
      <4>4. CASE e \in Written(rows) /\ o \in Written(rows)
        BY <1>6, <4>4 DEF Listings
      <4> QED
        BY <1>5, <4>1, <4>2, <4>3, <4>4
    <3> QED BY <3>3, <3>4, <3>5
  <2> QED
    BY <1>2, <2>1, <2>2 DEF InOrder
<1>8. LastListing'
  <2> SUFFICES ASSUME "channel_directory" \in Tracked, failures["retry"] = 0,
                      \A row \in dead : ~ListingRow(row)
               PROVE  IF Listings' = {} THEN Lists(listing)'
                      ELSE \E e \in Listings' : /\ \A o \in Listings' : o.due <= e.due
                                                /\ Lists(ApplyProjection(e.row))'
    BY <1>2 DEF LastListing
  <2>1. IF Listings = {} THEN Lists(listing)
        ELSE \E e \in Listings : /\ \A o \in Listings : o.due <= e.due
                                 /\ Lists(ApplyProjection(e.row))
    BY DEF PInv, LastListing
  <2>2. CASE /\ \A r \in rows : ~ListingRow(r)
             /\ OnList' <=> OnList
             /\ OnList => member_count' = member_count
    <3>1. Listings' = Listings
      BY <1>1, <1>5, <2>2
    <3>2. \A l : Lists(l) => ((l.status = "active" <=> OnList') /\ (l.status = "active" => l.count = member_count'))
      BY <2>2 DEF Lists
    <3>3. CASE Listings = {}
      BY <1>2, <2>1, <3>1, <3>2, <3>3 DEF Lists
    <3>4. CASE Listings # {}
      <4>1. PICK e \in Listings : (\A o \in Listings : o.due <= e.due) /\ Lists(ApplyProjection(e.row))
        BY <2>1, <3>4
      <4>2. Lists(ApplyProjection(e.row))'
        BY <3>2, <4>1 DEF Lists, ApplyProjection
      <4> QED
        BY <3>1, <3>4, <4>1, <4>2
    <3> QED
      BY <3>3, <3>4
  <2>3. CASE \E r \in rows : /\ ListingRow(r)
                             /\ \A o \in rows : ListingRow(o) => o = r
                             /\ Lists(ApplyProjection(r))'
    <3>1. PICK r \in rows : ListingRow(r) /\ Lists(ApplyProjection(r))'
      BY <2>3
    <3>2. PICK e \in Written(rows) : e.row = r
      BY <1>1, <3>1 DEF ListingRow
    <3>3. e \in Listings'
      BY <1>5, <3>1, <3>2
    <3>4. \A o \in Listings' : o.due <= e.due
      <4> SUFFICES ASSUME NEW o \in Listings' PROVE o.due <= e.due
        OBVIOUS
      <4>1. CASE o \in Listings
        BY <1>1, <1>3, <4>1 DEF Listings
      <4>2. CASE o \in Written(rows)
        BY <1>1, <4>2
      <4> QED BY <1>5, <4>1, <4>2
    <3> QED
      BY <3>1, <3>2, <3>3, <3>4
  <2> QED
    BY <2>2, <2>3 DEF TellListing
<1> QED
  BY <1>7, <1>8

LEMMA CommitKeeps ==
  ASSUME PInv, Commit
  PROVE  PInv'
<1>1. PICK rows \in SUBSET Rows : Emit(rows) /\ TellUsers(rows) /\ TellListing(rows)
  BY HandlersTell DEF PInv, Bookkeeping, OTypeOK, History, Commit, Tells
<1>2. OnlyChannelsListed'
  BY HandlersTell DEF PInv, Bookkeeping, OTypeOK, History, Commit, Tells
<1>3. Numbered'
  BY NumberedAlways, CreateEffect, HandlerEffect DEF PInv, Bookkeeping, OTypeOK, History, Commit
<1>4. PastIsNow'
  BY PastGrows DEF PInv, Bookkeeping
<1> QED
  BY <1>1, <1>2, <1>3, <1>4, CommitKeepsTypes, CommitKeepsTruth, CommitTells, CommitKeepsOrder
     DEF PInv, History

-----------------------------------------------------------------------------
(* A row is applied.                                                       *)

\* What the alarm leaves alone: everything but the outbox and its clock.
ChannelStands == UNCHANGED <<channel, roster, invites, idempotency_keys, outcome, once>>

LEMMA StandingChannel ==
  ASSUME ChannelStands
  PROVE  /\ ActiveMembers' = ActiveMembers /\ status' = status
         /\ membership_version' = membership_version
         /\ \A u, v : Since(u, v)' <=> Since(u, v)
         /\ \A u, held, v : TrueAt(u, held, v)' <=> TrueAt(u, held, v)
         /\ \A l : Lists(l)' <=> Lists(l)
         /\ OnlyChannelsListed => OnlyChannelsListed'
         /\ History => History'
BY DEF ChannelStands, channel, roster, ActiveMembers, Since, TrueAt, Lists, OnList,
       OnlyChannelsListed, History, Numbered, PastIsNow

LEMMA HeldTypes ==
  ASSUME OTypeOK
  PROVE  /\ membership_version \in Nat /\ membership_version <= MaxVersion /\ MaxVersion \in Nat
         /\ \A u \in Users : my_channels[u].status \in Statuses /\ my_channels[u].mv \in Nat
         /\ my_channels \in [Users -> [status : Statuses, mv : 0 .. MaxVersion]]
BY MembershipAssumption DEF OTypeOK, TypeOK

\* The row a directory holds after it was sent row.
LEMMA Upserted ==
  ASSUME OTypeOK, Truth, NEW e \in outbox, DirectoryRow(e.row), NEW u \in Users, u = e.row.user,
         NEW held, held = UpsertChannelProjection(my_channels[u], e.row)
  PROVE  /\ held \in [status : Statuses, mv : 0 .. MaxVersion]
         /\ held # NoRow => /\ held.mv \in 1 .. membership_version
                            /\ held.status # "none"
                            /\ TrueAt(u, held.status, held.mv)
         /\ Told(u) => held # NoRow /\ Since(u, held.mv)
         /\ Since(u, e.row.mv) => held # NoRow /\ Since(u, held.mv)
<1> DEFINE old == my_channels[u]
           row == e.row
<1>1. /\ row \in Rows /\ row.user \in Users /\ row.mv \in Nat
      /\ row.action \in {"join", "leave", "dissolve"}
  BY DirectoryRows DEF OTypeOK, TypeOK
<1>2. /\ row.mv \in 1 .. membership_version
      /\ TrueAt(u, Becomes[row.action], row.mv)
  BY DEF Truth, RowsAreTrue
<1>3. /\ membership_version \in Nat /\ membership_version <= MaxVersion /\ MaxVersion \in Nat
      /\ old \in [status : Statuses, mv : 0 .. MaxVersion]
  BY HeldTypes
<1>4. old # NoRow => /\ old.mv \in 1 .. membership_version /\ old.status # "none"
                     /\ TrueAt(u, old.status, old.mv)
  BY DEF Truth, HeldIsTrue
<1>5. Becomes[row.action] \in {"active", "left", "dissolved"}
      /\ (row.action = "leave" => Becomes[row.action] = "left")
  BY <1>1, Becoming
<1>6. \A v, w \in 0 .. membership_version : v <= w /\ Since(u, v) => Since(u, w)
  BY <1>3 DEF Since
<1>7. CASE Ignored(old, row)
  <2>1. held = old
    BY <1>7 DEF UpsertChannelProjection
  <2>2. Since(u, row.mv) => old # NoRow /\ Since(u, old.mv)
    <3> SUFFICES ASSUME Since(u, row.mv) PROVE old # NoRow /\ Since(u, old.mv)
      OBVIOUS
    <3>1. u \in once[row.mv].in
      BY <1>2, <1>3 DEF Since
    <3>2. row.action # "leave"
      BY <1>2, <1>5, <3>1 DEF TrueAt
    <3>3. old # NoRow /\ old.mv >= row.mv
      BY <1>7, <3>2 DEF Ignored
    <3> QED
      BY <1>2, <1>3, <1>4, <1>6, <3>3
  <2> QED
    BY <1>3, <1>4, <2>1, <2>2 DEF Told
<1>8. CASE ~Ignored(old, row)
  <2>1. held = [status |-> Becomes[row.action], mv |-> row.mv]
    BY <1>8 DEF UpsertChannelProjection
  <2>2. held.status = Becomes[row.action] /\ held.mv = row.mv
    BY <2>1
  <2>3. held \in [status : Statuses, mv : 0 .. MaxVersion]
    BY <1>2, <1>3, <1>5, <2>1 DEF Statuses
  <2>4. held # NoRow
    BY <1>2, <2>2 DEF NoRow
  <2>5. Told(u) => Since(u, row.mv)
    <3> SUFFICES ASSUME Told(u) PROVE Since(u, row.mv)
      OBVIOUS
    <3>1. old # NoRow /\ Since(u, old.mv) /\ ~(old.mv >= row.mv)
      BY <1>8 DEF Told, Ignored
    <3> QED
      BY <1>2, <1>3, <1>4, <1>6, <3>1
  <2>6. held.mv \in 1 .. membership_version /\ held.status # "none"
    BY <1>2, <1>5, <2>2
  <2>7. TrueAt(u, held.status, held.mv)
    BY <1>2, <2>2
  <2>8. (Told(u) => Since(u, held.mv)) /\ (Since(u, row.mv) => Since(u, held.mv))
    BY <2>2, <2>5
  <2> QED
    BY <2>3, <2>4, <2>6, <2>7, <2>8
<1> QED
  BY <1>7, <1>8

LEMMA ApplyKeepsTruth ==
  ASSUME OTypeOK, Truth, NEW e \in outbox, Apply(e.row), ChannelStands,
         \A o \in outbox' : \E x \in outbox : x.row = o.row
  PROVE  /\ my_channels' \in [Users -> [status : Statuses, mv : 0 .. MaxVersion]]
         /\ listing' \in ListingType
         /\ Truth'
         /\ \A u \in Users : Told(u) => Told(u)'
         /\ DirectoryRow(e.row) /\ Since(e.row.user, e.row.mv) => Told(e.row.user)'
<1> DEFINE held(u) == my_channels[u] # NoRow =>
                        /\ my_channels[u].mv \in 1 .. membership_version
                        /\ my_channels[u].status # "none"
                        /\ TrueAt(u, my_channels[u].status, my_channels[u].mv)
<1>1. /\ membership_version' = membership_version
      /\ \A u, v : Since(u, v)' <=> Since(u, v)
      /\ \A u, h, v : TrueAt(u, h, v)' <=> TrueAt(u, h, v)
  BY StandingChannel
<1>2. e.row \in Rows
  BY DEF OTypeOK, TypeOK
<1>3. listing' \in ListingType
  BY <1>2, ListingRows DEF Apply, OTypeOK, ListingType, ListingRow
<1>4. RowsAreTrue'
  <2> SUFFICES ASSUME NEW o \in outbox', DirectoryRow(o.row)
               PROVE  /\ o.row.mv \in 1 .. membership_version
                      /\ TrueAt(o.row.user, Becomes[o.row.action], o.row.mv)
    BY <1>1 DEF RowsAreTrue
  <2>1. PICK x \in outbox : x.row = o.row
    OBVIOUS
  <2> QED
    BY <2>1 DEF Truth, RowsAreTrue
<1>5. my_channels \in [Users -> [status : Statuses, mv : 0 .. MaxVersion]]
  BY HeldTypes
<1>6. ASSUME ~DirectoryRow(e.row) PROVE my_channels' = my_channels
  BY <1>6 DEF Apply, DirectoryRow
<1>7. CASE ~DirectoryRow(e.row)
  <2>1. HeldIsTrue'
    BY <1>1, <1>6, <1>7 DEF Truth, HeldIsTrue, TrueAt, ChannelStands
  <2> QED
    BY <1>1, <1>3, <1>4, <1>5, <1>6, <1>7, <2>1 DEF Truth, Told, Since, ChannelStands
<1>8. CASE DirectoryRow(e.row)
  <2>1. PICK t \in Users : t = e.row.user
    BY <1>2, <1>8, DirectoryRows
  <2>2. PICK h : h = UpsertChannelProjection(my_channels[t], e.row)
    OBVIOUS
  <2>3. my_channels' = [my_channels EXCEPT ![t] = h]
    BY <1>8, <2>1, <2>2 DEF Apply, DirectoryRow
  <2>4. /\ h \in [status : Statuses, mv : 0 .. MaxVersion]
        /\ h # NoRow => /\ h.mv \in 1 .. membership_version
                        /\ h.status # "none"
                        /\ TrueAt(t, h.status, h.mv)
        /\ Told(t) => h # NoRow /\ Since(t, h.mv)
        /\ Since(t, e.row.mv) => h # NoRow /\ Since(t, h.mv)
    BY <1>8, <2>1, <2>2, Upserted
  <2>5. my_channels' \in [Users -> [status : Statuses, mv : 0 .. MaxVersion]]
    BY <1>5, <2>3, <2>4
  <2>6. my_channels'[t] = h /\ \A u \in Users : u # t => my_channels'[u] = my_channels[u]
    BY <1>5, <2>3
  <2>7. \A u \in Users : \E k : /\ k = my_channels'[u]
                                /\ k # NoRow => /\ k.mv \in 1 .. membership_version
                                                /\ k.status # "none"
                                                /\ TrueAt(u, k.status, k.mv)
    BY <2>4, <2>6 DEF Truth, HeldIsTrue
  <2>8. HeldIsTrue'
    BY <1>1, <2>7 DEF HeldIsTrue
  <2>9. Told(t)' <=> h # NoRow /\ Since(t, h.mv)
    BY <1>1, <2>6 DEF Told, Since, ChannelStands
  <2>10. \A u \in Users : u # t => (Told(u)' <=> Told(u))
    BY <1>1, <2>6 DEF Told, Since, ChannelStands
  <2>11. \A u \in Users : Told(u) => Told(u)'
    <3> SUFFICES ASSUME NEW u \in Users, Told(u) PROVE Told(u)'
      OBVIOUS
    <3>1. CASE u = t
      BY <2>4, <2>9, <3>1
    <3>2. CASE u # t
      BY <2>10, <3>2
    <3> QED BY <3>1, <3>2
  <2>12. Since(e.row.user, e.row.mv) => Told(e.row.user)'
    BY <2>1, <2>4, <2>9
  <2> QED
    BY <1>3, <1>4, <2>5, <2>8, <2>11, <2>12 DEF Truth
<1> QED
  BY <1>7, <1>8

LEMMA StayKeepsTruth ==
  ASSUME OTypeOK, Truth, UNCHANGED projections, ChannelStands,
         \A o \in outbox' : \E x \in outbox : x.row = o.row
  PROVE  /\ my_channels' \in [Users -> [status : Statuses, mv : 0 .. MaxVersion]]
         /\ listing' \in ListingType
         /\ Truth'
         /\ \A u \in Users : Told(u) => Told(u)'
<1>1. /\ membership_version' = membership_version
      /\ \A u, v : Since(u, v)' <=> Since(u, v)
      /\ \A u, h, v : TrueAt(u, h, v)' <=> TrueAt(u, h, v)
  BY StandingChannel
<1>2. my_channels' = my_channels /\ listing' = listing
  BY DEF projections
<1>3. RowsAreTrue'
  <2> SUFFICES ASSUME NEW o \in outbox', DirectoryRow(o.row)
               PROVE  /\ o.row.mv \in 1 .. membership_version
                      /\ TrueAt(o.row.user, Becomes[o.row.action], o.row.mv)
    BY <1>1 DEF RowsAreTrue
  <2>1. PICK x \in outbox : x.row = o.row
    OBVIOUS
  <2> QED
    BY <2>1 DEF Truth, RowsAreTrue
<1>4. HeldIsTrue'
  BY <1>1, <1>2 DEF Truth, HeldIsTrue, TrueAt, ChannelStands
<1>5. \A u \in Users : Told(u) => Told(u)'
  BY <1>1, <1>2 DEF Told, Since, ChannelStands
<1>6. my_channels' \in [Users -> [status : Statuses, mv : 0 .. MaxVersion]] /\ listing' \in ListingType
  BY <1>2, HeldTypes DEF OTypeOK, ListingType
<1> QED
  BY <1>3, <1>4, <1>5, <1>6 DEF Truth

\* A step of the alarm that applies the row e or no row, and after which
\* every other row is still on its way or among the dead.
LEMMA RowMoved ==
  ASSUME PInv, NEW e \in outbox, ChannelStands, Apply(e.row) \/ UNCHANGED projections,
         \A o \in outbox' : \E x \in outbox : x.row = o.row,
         dead \subseteq dead',
         \A x \in outbox : \/ \E o \in outbox' : o.row = x.row
                           \/ x.row \in dead'
                           \/ x = e /\ Apply(e.row)
  PROVE  /\ my_channels' \in [Users -> [status : Statuses, mv : 0 .. MaxVersion]]
         /\ listing' \in ListingType
         /\ History' /\ Truth' /\ MembersTold'
<1>1. OTypeOK /\ Truth /\ History
  BY DEF PInv, Bookkeeping
<1>2. /\ my_channels' \in [Users -> [status : Statuses, mv : 0 .. MaxVersion]]
      /\ listing' \in ListingType /\ Truth'
      /\ \A u \in Users : Told(u) => Told(u)'
      /\ Apply(e.row) /\ DirectoryRow(e.row) /\ Since(e.row.user, e.row.mv) => Told(e.row.user)'
  BY <1>1, ApplyKeepsTruth, StayKeepsTruth
<1>3. History' /\ ActiveMembers' = ActiveMembers /\ \A u, v : Since(u, v)' <=> Since(u, v)
  BY <1>1, StandingChannel
<1>4. MembersTold'
  <2> SUFFICES ASSUME "user_directory" \in Tracked, \A row \in dead' : ~DirectoryRow(row),
                      NEW u \in ActiveMembers
               PROVE  Told(u)' \/ OnItsWay(u)'
    BY <1>3 DEF MembersTold
  <2>1. \A row \in dead : ~DirectoryRow(row)
    OBVIOUS
  <2>2. CASE Told(u)
    BY <1>2, <2>2 DEF ActiveMembers
  <2>3. CASE OnItsWay(u)
    <3>1. PICK x \in outbox : DirectoryRow(x.row) /\ x.row.user = u /\ Since(u, x.row.mv)
      BY <2>3 DEF OnItsWay
    <3>2. CASE \E o \in outbox' : o.row = x.row
      <4>1. PICK o \in outbox' : o.row = x.row
        BY <3>2
      <4> QED
        BY <1>3, <3>1, <4>1 DEF OnItsWay
    <3>3. CASE x = e /\ Apply(e.row)
      BY <1>2, <3>1, <3>3
    <3> QED
      BY <3>1, <3>2, <3>3
  <2> QED
    BY <2>1, <2>2, <2>3 DEF PInv, MembersTold
<1> QED
  BY <1>2, <1>3, <1>4

LEMMA StandingTypes ==
  ASSUME OTypeOK, ChannelStands, outbox' \subseteq Outbox, clock' \in Nat,
         alarm' \in BOOLEAN, arming' \in BOOLEAN, flushing' \in BOOLEAN,
         batch' \subseteq outbox', dead' \subseteq Rows,
         my_channels' \in [Users -> [status : Statuses, mv : 0 .. MaxVersion]],
         listing' \in ListingType, failures' \in [FailureKinds -> 0 .. MaxFailures]
  PROVE  OTypeOK'
<1>1. TypeOK'
  BY DEF OTypeOK, TypeOK, ChannelStands, channel, roster, Outbox, Visibilities
<1>2. once' \in [0 .. membership_version' -> [in : SUBSET Users, closed : BOOLEAN]]
  BY DEF OTypeOK, ChannelStands, roster
<1> QED
  BY <1>1, <1>2 DEF OTypeOK, ListingType

LEMMA FailsCounted ==
  ASSUME OTypeOK, NEW how \in FailureKinds, Fails(how)
  PROVE  /\ failures' \in [FailureKinds -> 0 .. MaxFailures]
         /\ failures'[how] > 0
         /\ Stranded => Stranded'
         /\ how # "retry" => failures'["retry"] = failures["retry"]
<1>1. /\ failures["retry"] \in Nat /\ failures["fatal"] \in Nat
      /\ failures["evicted"] \in Nat /\ failures["stranded"] \in Nat
      /\ MaxFailures \in Nat /\ failures \in [FailureKinds -> 0 .. MaxFailures]
  BY OutboxAssumption DEF OTypeOK, FailureKinds
<1>2. failures[how] + 1 \in 0 .. MaxFailures
  BY <1>1 DEF Fails, AllFailures, FailureKinds
<1>3. failures' = [failures EXCEPT ![how] = failures[how] + 1]
  BY DEF Fails
<1>4. failures' \in [FailureKinds -> 0 .. MaxFailures]
  BY <1>1, <1>2, <1>3
<1>5. failures'[how] = failures[how] + 1 /\ \A x \in FailureKinds : x # how => failures'[x] = failures[x]
  BY <1>1, <1>3
<1>6. Stranded => Stranded'
  BY <1>1, <1>5 DEF Stranded, FailureKinds
<1> QED
  BY <1>1, <1>4, <1>5, <1>6 DEF FailureKinds

\* The facts of the invariant that the steps of the alarm read.
LEMMA Tables ==
  ASSUME PInv
  PROVE  /\ OTypeOK /\ outbox \subseteq Outbox /\ clock \in Nat
         /\ alarm \in BOOLEAN /\ arming \in BOOLEAN /\ flushing \in BOOLEAN
         /\ batch \subseteq outbox /\ dead \subseteq Rows
         /\ \A e \in outbox : e.row \in Rows /\ e.due \in Int /\ e.attempts \in Nat
         /\ failures \in [FailureKinds -> 0 .. MaxFailures]
BY DEF PInv, Bookkeeping, OTypeOK, TypeOK, Outbox

-----------------------------------------------------------------------------
(* The steps of the alarm.                                                 *)

\* A step that only moves the alarm's own state.
LEMMA NothingMoved ==
  ASSUME PInv, UNCHANGED <<vars, dead, projections, once>>,
         alarm' \in BOOLEAN, arming' \in BOOLEAN, flushing' \in BOOLEAN,
         batch' \subseteq outbox, failures' \in [FailureKinds -> 0 .. MaxFailures]
  PROVE  OTypeOK' /\ History' /\ Truth' /\ MembersTold'
<1>1. ChannelStands /\ outbox' = outbox /\ clock' = clock /\ dead' = dead /\ UNCHANGED projections
  BY DEF vars, ChannelStands, channel, roster
<1>2. OTypeOK /\ Truth /\ History
  BY DEF PInv, Bookkeeping
<1>3. /\ my_channels' \in [Users -> [status : Statuses, mv : 0 .. MaxVersion]]
      /\ listing' \in ListingType /\ Truth'
      /\ \A u \in Users : Told(u) => Told(u)'
  BY <1>1, <1>2, StayKeepsTruth
<1>4. OTypeOK'
  BY <1>1, <1>3, Tables, StandingTypes
<1>5. History' /\ ActiveMembers' = ActiveMembers /\ \A u, v : Since(u, v)' <=> Since(u, v)
  BY <1>1, <1>2, StandingChannel
<1>6. MembersTold'
  <2>1. \A u \in ActiveMembers : Told(u) => Told(u)'
    BY <1>3 DEF ActiveMembers
  <2>2. \A u : OnItsWay(u) => OnItsWay(u)'
    BY <1>1, <1>5 DEF OnItsWay
  <2> QED
    BY <1>1, <1>5, <2>1, <2>2 DEF PInv, MembersTold
<1> QED
  BY <1>3, <1>4, <1>5, <1>6

LEMMA NothingMovedInOrder ==
  ASSUME PInv, UNCHANGED <<vars, dead, projections, once>>,
         failures'["retry"] = failures["retry"],
         \/ batch' \in {batch, {}}
         \/ batch' = {e \in outbox : e.due # Later}
  PROVE  InOrder' /\ LastListing'
<1>1. ChannelStands /\ outbox' = outbox /\ clock' = clock /\ dead' = dead /\ listing' = listing
  BY DEF vars, ChannelStands, channel, roster, projections
<1>2. Listings' = Listings
  BY <1>1 DEF Listings
<1>3. InOrder'
  BY <1>1, <1>2 DEF PInv, InOrder
<1>4. \A l : Lists(l)' <=> Lists(l)
  BY <1>1, StandingChannel
<1>5. LastListing'
  <2>1. Lists(listing)' <=> Lists(listing)
    BY <1>1, <1>4 DEF Lists
  <2>2. \A e : Lists(ApplyProjection(e.row))' <=> Lists(ApplyProjection(e.row))
    BY <1>4 DEF Lists, ApplyProjection
  <2> QED
    BY <1>1, <1>2, <2>1, <2>2 DEF PInv, LastListing
<1> QED
  BY <1>3, <1>5

LEMMA ArmAlarmKeeps == ASSUME PInv, ArmAlarm PROVE PInv'
<1>1. /\ UNCHANGED <<vars, dead, projections, once, batch, flushing, failures>>
      /\ arming' = FALSE /\ alarm' = (outbox # {})
  BY DEF ArmAlarm
<1>2. OTypeOK' /\ History' /\ Truth' /\ MembersTold'
  BY <1>1, Tables, NothingMoved
<1>3. InOrder' /\ LastListing'
  BY <1>1, NothingMovedInOrder
<1>4. PendingHasAlarm' /\ BatchIsDue'
  BY <1>1 DEF PInv, Bookkeeping, BatchIsDue, PendingHasAlarm, vars
<1> QED
  BY <1>2, <1>3, <1>4 DEF PInv, Bookkeeping

LEMMA AlarmFiresKeeps == ASSUME PInv, AlarmFires PROVE PInv'
<1>1. /\ UNCHANGED <<vars, dead, projections, once, arming, failures>>
      /\ alarm' = FALSE /\ flushing' = TRUE /\ batch' = {e \in outbox : e.due # Later}
  BY DEF AlarmFires
<1>2. OTypeOK' /\ History' /\ Truth' /\ MembersTold'
  BY <1>1, Tables, NothingMoved
<1>3. InOrder' /\ LastListing'
  BY <1>1, NothingMovedInOrder
<1>4. PendingHasAlarm' /\ BatchIsDue'
  BY <1>1 DEF BatchIsDue, PendingHasAlarm
<1> QED
  BY <1>2, <1>3, <1>4 DEF PInv, Bookkeeping

LEMMA AlarmEndsKeeps == ASSUME PInv, AlarmEnds PROVE PInv'
<1>1. /\ UNCHANGED <<vars, dead, projections, once, arming, batch, failures>>
      /\ flushing' = FALSE /\ alarm' = (outbox # {})
  BY DEF AlarmEnds
<1>2. OTypeOK' /\ History' /\ Truth' /\ MembersTold'
  BY <1>1, Tables, NothingMoved
<1>3. InOrder' /\ LastListing'
  BY <1>1, NothingMovedInOrder
<1>4. PendingHasAlarm' /\ BatchIsDue'
  BY <1>1 DEF PInv, Bookkeeping, BatchIsDue, PendingHasAlarm, vars
<1> QED
  BY <1>2, <1>3, <1>4 DEF PInv, Bookkeeping

LEMMA EvictedArmingKeeps == ASSUME PInv, EvictedArming PROVE PInv'
<1>1. /\ UNCHANGED <<vars, dead, projections, once, alarm, flushing, batch>>
      /\ arming' = FALSE /\ Fails("stranded")
  BY DEF EvictedArming
<1>2. /\ failures' \in [FailureKinds -> 0 .. MaxFailures]
      /\ failures'["stranded"] > 0 /\ failures'["retry"] = failures["retry"]
  BY <1>1, Tables, FailsCounted DEF FailureKinds
<1>3. OTypeOK' /\ History' /\ Truth' /\ MembersTold'
  BY <1>1, <1>2, Tables, NothingMoved
<1>4. InOrder' /\ LastListing'
  BY <1>1, <1>2, NothingMovedInOrder
<1>5. PendingHasAlarm' /\ BatchIsDue'
  BY <1>1, <1>2 DEF PInv, Bookkeeping, BatchIsDue, PendingHasAlarm, Stranded
<1> QED
  BY <1>3, <1>4, <1>5 DEF PInv, Bookkeeping

LEMMA BackoffElapsesKeeps ==
  ASSUME PInv, NEW e \in outbox, BackoffElapses(e)
  PROVE  PInv'
<1> DEFINE due == [e EXCEPT !.due = clock + 1]
<1>1. /\ e.due = Later /\ clock' = clock + 1 /\ outbox' = (outbox \ {e}) \cup {due}
      /\ ChannelStands
      /\ UNCHANGED <<alarm, arming, flushing, batch, dead, projections, failures>>
  BY DEF BackoffElapses, ChannelStands, flush
<1>2. e \in Outbox /\ clock \in Nat
  BY Tables
<1>3. due \in Outbox /\ due.row = e.row /\ due.due = clock + 1
  BY <1>2 DEF Outbox
<1> HIDE DEF due
<1>4. /\ \A o \in outbox' : \E x \in outbox : x.row = o.row
      /\ \A x \in outbox : \E o \in outbox' : o.row = x.row
  BY <1>1, <1>3
<1>5. /\ my_channels' \in [Users -> [status : Statuses, mv : 0 .. MaxVersion]]
      /\ listing' \in ListingType /\ History' /\ Truth' /\ MembersTold'
  BY <1>1, <1>4, RowMoved
<1>6. e \notin batch
  BY <1>1 DEF PInv, Bookkeeping, BatchIsDue
<1>7. OTypeOK'
  <2>1. batch \subseteq outbox' /\ outbox' \subseteq Outbox
    BY <1>1, <1>3, <1>6, Tables
  <2> QED
    BY <1>1, <1>2, <1>5, <2>1, Tables, StandingTypes
<1>8. PendingHasAlarm' /\ BatchIsDue'
  BY <1>1 DEF PInv, Bookkeeping, BatchIsDue, PendingHasAlarm, Stranded
<1>9. failures["retry"] # 0
  BY <1>1 DEF PInv, InOrder
<1>10. InOrder' /\ LastListing'
  <2>1. \A o \in outbox : o.due \in Int /\ o.due <= clock
    BY Tables DEF PInv, InOrder
  <2>2. \A o \in outbox' : o.due <= clock'
    BY <1>1, <1>2, <1>3, <2>1
  <2> QED
    BY <1>1, <1>9, <2>2 DEF InOrder, LastListing
<1> QED
  BY <1>5, <1>7, <1>8, <1>10 DEF PInv, Bookkeeping

\* The next row of the snapshot comes before every other pending row.
LEMMA NextIsFirst ==
  ASSUME PInv, failures["retry"] = 0, NEW e \in batch, NextInBatch(e)
  PROVE  \A o \in Listings : ListingRow(e.row) /\ o.due <= e.due => o = e
<1> SUFFICES ASSUME NEW o \in Listings, ListingRow(e.row), o.due <= e.due PROVE o = e
  OBVIOUS
<1>1. o \in outbox /\ e \in outbox /\ e \in Listings /\ o.due \in Int /\ e.due \in Int
  BY Tables DEF Listings
<1>2. CASE o \in batch
  <2>1. e.due <= o.due
    BY <1>2 DEF NextInBatch
  <2> QED
    BY <1>1, <2>1 DEF PInv, InOrder
<1>3. CASE o \notin batch
  <2>1. e.due < o.due
    BY <1>1, <1>3 DEF PInv, InOrder
  <2> QED
    BY <1>1, <2>1
<1> QED
  BY <1>2, <1>3

\* e leaves the outbox, and was applied, or joins the dead.
LEMMA RowGone ==
  ASSUME PInv, NEW e \in batch, NextInBatch(e), ChannelStands,
         outbox' = outbox \ {e}, batch' = batch \ {e},
         UNCHANGED <<clock, alarm, arming, flushing>>,
         \/ Apply(e.row) /\ UNCHANGED <<dead, failures>>
         \/ /\ Apply(e.row) \/ UNCHANGED projections
            /\ dead' = dead \cup {e.row}
            /\ failures' \in [FailureKinds -> 0 .. MaxFailures]
            /\ Stranded => Stranded'
            /\ failures'["retry"] = 0 => failures["retry"] = 0
  PROVE  PInv'
<1>1. e \in outbox /\ e.row \in Rows /\ batch \subseteq outbox
  BY Tables
<1>2. /\ my_channels' \in [Users -> [status : Statuses, mv : 0 .. MaxVersion]]
      /\ listing' \in ListingType /\ History' /\ Truth' /\ MembersTold'
  <2>1. \A o \in outbox' : \E x \in outbox : x.row = o.row
    OBVIOUS
  <2>2. \A x \in outbox : x # e => \E o \in outbox' : o.row = x.row
    OBVIOUS
  <2>3. dead \subseteq dead' /\ (Apply(e.row) \/ UNCHANGED projections)
        /\ (e.row \in dead' \/ Apply(e.row))
    OBVIOUS
  <2> QED
    BY <1>1, <2>1, <2>2, <2>3, RowMoved
<1>3. OTypeOK'
  <2>1. outbox' \subseteq Outbox /\ batch' \subseteq outbox'
    BY Tables
  <2>2. dead' \subseteq Rows /\ failures' \in [FailureKinds -> 0 .. MaxFailures]
    BY <1>1, Tables
  <2> QED
    BY <1>2, <2>1, <2>2, Tables, StandingTypes
<1>4. PendingHasAlarm'
  <2>1. flushing'
    BY DEF NextInBatch
  <2> QED
    BY <2>1 DEF PendingHasAlarm
<1>5. BatchIsDue'
  BY DEF PInv, Bookkeeping, BatchIsDue
<1>6. failures'["retry"] = 0 => failures["retry"] = 0
  OBVIOUS
<1>7. Listings' = Listings \ {e}
  BY DEF Listings
<1>8. InOrder'
  <2>1. \A o \in outbox' : o.due <= clock'
    BY DEF PInv, InOrder
  <2>2. ASSUME failures["retry"] = 0
        PROVE  /\ \A o \in outbox' : o.due # Later
               /\ \A b \in batch' : \A o \in outbox' \ batch' : b.due < o.due
               /\ \A b, o \in Listings' : b.due = o.due => b = o
    BY <1>7, <2>2 DEF PInv, InOrder
  <2> QED
    BY <1>6, <2>1, <2>2 DEF InOrder
<1>9. LastListing'
  <2> SUFFICES ASSUME "channel_directory" \in Tracked, failures["retry"] = 0,
                      \A row \in dead' : ~ListingRow(row)
               PROVE  IF Listings' = {} THEN Lists(listing)'
                      ELSE \E m \in Listings' : /\ \A o \in Listings' : o.due <= m.due
                                                /\ Lists(ApplyProjection(m.row))'
    BY <1>6 DEF LastListing
  <2>1. \A l : Lists(l)' <=> Lists(l)
    BY StandingChannel
  <2>2. IF Listings = {} THEN Lists(listing)
        ELSE \E m \in Listings : /\ \A o \in Listings : o.due <= m.due
                                 /\ Lists(ApplyProjection(m.row))
    <3>1. \A row \in dead : ~ListingRow(row)
      OBVIOUS
    <3> QED BY <3>1 DEF PInv, LastListing
  <2>3. CASE ~ListingRow(e.row)
    <3>1. Listings' = Listings
      BY <1>7, <2>3 DEF Listings
    <3>2. listing' = listing
      BY <2>3 DEF Apply, ListingRow, projections
    <3>3. CASE Listings = {}
      <4>1. Lists(listing)'
        BY <2>1, <2>2, <3>2, <3>3 DEF Lists
      <4> QED BY <3>1, <3>3, <4>1
    <3>4. CASE Listings # {}
      <4>1. PICK m \in Listings : (\A o \in Listings : o.due <= m.due) /\ Lists(ApplyProjection(m.row))
        BY <2>2, <3>4
      <4>2. Lists(ApplyProjection(m.row))'
        BY <2>1, <4>1 DEF Lists, ApplyProjection
      <4> QED BY <3>1, <3>4, <4>1, <4>2
    <3> QED BY <3>3, <3>4
  <2>4. CASE ListingRow(e.row)
    <3>1. e.row \notin dead' /\ Apply(e.row)
      BY <2>4
    <3>2. e \in Listings
      BY <1>1, <2>4 DEF Listings
    <3>3. PICK m \in Listings : (\A o \in Listings : o.due <= m.due) /\ Lists(ApplyProjection(m.row))
      BY <2>2, <3>2
    <3>4. \A o \in Listings : o.due <= e.due => o = e
      BY <2>4, NextIsFirst
    <3>5. CASE m = e
      <4>1. Listings' = {}
        BY <1>7, <3>3, <3>4, <3>5
      <4>2. listing' = ApplyProjection(e.row)
        BY <2>4, <3>1 DEF Apply, ListingRow
      <4>3. Lists(listing)'
        BY <2>1, <3>3, <3>5, <4>2 DEF Lists
      <4> QED BY <4>1, <4>3
    <3>6. CASE m # e
      <4>1. m \in Listings' /\ \A o \in Listings' : o.due <= m.due
        BY <1>7, <3>3, <3>6
      <4>2. Lists(ApplyProjection(m.row))'
        BY <2>1, <3>3 DEF Lists, ApplyProjection
      <4> QED BY <4>1, <4>2
    <3> QED BY <3>5, <3>6
  <2> QED
    BY <2>3, <2>4
<1> QED
  BY <1>2, <1>3, <1>4, <1>5, <1>8, <1>9 DEF PInv, Bookkeeping

LEMMA DeliveredKeeps ==
  ASSUME PInv, NEW e \in batch, Delivered(e)
  PROVE  PInv'
<1>1. ChannelStands
  BY DEF Delivered, ChannelStands
<1> QED
  BY <1>1, RowGone DEF Delivered, DeleteRow, GoOn

\* e stays in the outbox with one more attempt, due after its backoff.
LEMMA RowRetried ==
  ASSUME PInv, NEW e \in batch, NextInBatch(e), ChannelStands,
         outbox' = (outbox \ {e}) \cup {[e EXCEPT !.attempts = @ + 1, !.due = Later]},
         batch' = batch \ {e}, Apply(e.row) \/ UNCHANGED projections,
         UNCHANGED <<clock, alarm, arming, flushing, dead>>,
         failures' \in [FailureKinds -> 0 .. MaxFailures], failures'["retry"] > 0
  PROVE  PInv'
<1> DEFINE again == [e EXCEPT !.attempts = @ + 1, !.due = Later]
<1>1. e \in outbox /\ e \in Outbox
  BY Tables
<1>2. again \in Outbox /\ again.row = e.row /\ again.due = Later
  <2>1. e.row \in Rows /\ e.attempts + 1 \in Nat /\ Later \in Int
    BY <1>1 DEF Outbox, Later
  <2>2. e = [row |-> e.row, due |-> e.due, attempts |-> e.attempts]
    BY <1>1 DEF Outbox
  <2>3. [e EXCEPT !.attempts = e.attempts + 1] = [row |-> e.row, due |-> e.due, attempts |-> e.attempts + 1]
    BY <2>2
  <2>4. again = [[e EXCEPT !.attempts = e.attempts + 1] EXCEPT !.due = Later]
    OBVIOUS
  <2> DEFINE more == [row |-> e.row, due |-> e.due, attempts |-> e.attempts + 1]
  <2>5. again = [more EXCEPT !.due = Later]
    BY <2>3, <2>4
  <2>6. [more EXCEPT !.due = Later] = [row |-> e.row, due |-> Later, attempts |-> e.attempts + 1]
    OBVIOUS
  <2> HIDE DEF again, more
  <2> QED
    BY <2>1, <2>5, <2>6 DEF Outbox
<1>3. outbox' = (outbox \ {e}) \cup {again}
  OBVIOUS
<1> HIDE DEF again
<1>4. /\ \A o \in outbox' : \E x \in outbox : x.row = o.row
      /\ \A x \in outbox : \E o \in outbox' : o.row = x.row
  BY <1>1, <1>2, <1>3
<1>5. /\ my_channels' \in [Users -> [status : Statuses, mv : 0 .. MaxVersion]]
      /\ listing' \in ListingType /\ History' /\ Truth' /\ MembersTold'
  BY <1>1, <1>4, RowMoved
<1>6. OTypeOK'
  <2>1. outbox' \subseteq Outbox /\ batch' \subseteq outbox'
    BY <1>2, <1>3, Tables
  <2> QED
    BY <1>5, <2>1, Tables, StandingTypes
<1>7. PendingHasAlarm' /\ BatchIsDue'
  BY DEF PendingHasAlarm, NextInBatch, PInv, Bookkeeping, BatchIsDue
<1>8. \A o \in outbox' : o.due <= clock'
  BY <1>2, <1>3, Tables DEF PInv, InOrder, Later
<1>9. failures'["retry"] # 0
  BY DEF FailureKinds
<1>10. InOrder' /\ LastListing'
  BY <1>8, <1>9 DEF InOrder, LastListing
<1> QED
  BY <1>5, <1>6, <1>7, <1>10 DEF PInv, Bookkeeping

LEMMA FailedKeeps ==
  ASSUME PInv, NEW e \in batch, NEW applied \in BOOLEAN, Failed(e, applied)
  PROVE  PInv'
<1>1. /\ ChannelStands /\ NextInBatch(e) /\ batch' = batch \ {e}
      /\ Apply(e.row) \/ UNCHANGED projections
      /\ UNCHANGED <<clock, alarm, arming, flushing>>
  BY DEF Failed, ChannelStands, GoOn
<1>2. CASE Fails("retry") /\ BumpRetry(e)
  <2>1. /\ failures' \in [FailureKinds -> 0 .. MaxFailures] /\ failures'["retry"] > 0
        /\ Stranded => Stranded'
    BY <1>2, Tables, FailsCounted DEF FailureKinds
  <2>2. CASE e.attempts + 1 >= MaxAttempts
    <3>1. outbox' = outbox \ {e} /\ dead' = dead \cup {e.row}
      BY <1>2, <2>2 DEF BumpRetry
    <3>2. failures'["retry"] # 0
      BY <2>1
    <3> QED
      BY <1>1, <2>1, <3>1, <3>2, RowGone
  <2>3. CASE ~(e.attempts + 1 >= MaxAttempts)
    <3>1. /\ outbox' = (outbox \ {e}) \cup {[e EXCEPT !.attempts = @ + 1, !.due = Later]}
          /\ dead' = dead
      BY <1>2, <2>3 DEF BumpRetry
    <3> QED
      BY <1>1, <2>1, <3>1, RowRetried
  <2> QED
    BY <2>2, <2>3
<1>3. CASE Fails("fatal") /\ outbox' = outbox \ {e} /\ dead' = dead \cup {e.row}
  <2>1. /\ failures' \in [FailureKinds -> 0 .. MaxFailures] /\ failures'["retry"] = failures["retry"]
        /\ Stranded => Stranded'
    BY <1>3, Tables, FailsCounted DEF FailureKinds
  <2> QED
    BY <1>1, <1>3, <2>1, RowGone
<1> QED
  BY <1>2, <1>3 DEF Failed

LEMMA EvictedFlushingKeeps ==
  ASSUME PInv, NEW e \in batch, NEW applied \in BOOLEAN, EvictedFlushing(e, applied)
  PROVE  PInv'
<1>1. /\ ChannelStands /\ NextInBatch(e) /\ batch' = {}
      /\ Apply(e.row) \/ UNCHANGED projections
      /\ alarm' = TRUE /\ flushing' = FALSE /\ arming' = FALSE
      /\ outbox' = outbox /\ clock' = clock /\ dead' = dead
  BY DEF EvictedFlushing, ChannelStands, vars, channel, roster
<1>2. /\ failures' \in [FailureKinds -> 0 .. MaxFailures]
      /\ failures'["retry"] = failures["retry"]
  <2>1. CASE arming
    BY <2>1, Tables, FailsCounted DEF EvictedFlushing, FailureKinds
  <2>2. CASE ~arming
    BY <2>2, Tables, FailsCounted DEF EvictedFlushing, FailureKinds
  <2> QED BY <2>1, <2>2
<1>3. e \in outbox
  BY Tables
<1>4. /\ my_channels' \in [Users -> [status : Statuses, mv : 0 .. MaxVersion]]
      /\ listing' \in ListingType /\ History' /\ Truth' /\ MembersTold'
  BY <1>1, <1>3, RowMoved
<1>5. OTypeOK'
  BY <1>1, <1>2, <1>4, Tables, StandingTypes
<1>6. PendingHasAlarm' /\ BatchIsDue'
  BY <1>1 DEF PendingHasAlarm, BatchIsDue
<1>7. Listings' = Listings
  BY <1>1 DEF Listings
<1>8. InOrder'
  BY <1>1, <1>2, <1>7 DEF PInv, InOrder
<1>9. LastListing'
  <2>1. \A l : Lists(l)' <=> Lists(l)
    BY <1>1, StandingChannel
  <2>2. Listings = {} => listing' = listing
    <3>1. Listings = {} => ~ListingRow(e.row)
      BY <1>3 DEF Listings
    <3> QED
      BY <1>1, <3>1 DEF Apply, ListingRow, projections
  <2>3. Listings = {} => (Lists(listing)' <=> Lists(listing))
    BY <2>1, <2>2 DEF Lists
  <2>4. \A m : Lists(ApplyProjection(m.row))' <=> Lists(ApplyProjection(m.row))
    BY <2>1 DEF Lists, ApplyProjection
  <2> QED
    BY <1>1, <1>2, <1>7, <2>3, <2>4 DEF PInv, LastListing
<1> QED
  BY <1>4, <1>5, <1>6, <1>8, <1>9 DEF PInv, Bookkeeping

-----------------------------------------------------------------------------
(* The theorems.                                                           *)

LEMMA OutboxInit == OInit => PInv
<1> SUFFICES ASSUME OInit PROVE PInv
  OBVIOUS
<1>1. TypeOK
  BY TypeInit DEF OInit
<1>2. /\ membership_version = 0 /\ outbox = {} /\ batch = {} /\ clock = 0
      /\ kind = "none" /\ status = "active" /\ visibility = "private"
      /\ ActiveMembers = {} /\ Listings = {}
  BY DEF OInit, Init, ActiveMembers, Roles, Listings
<1>3. /\ \A u \in Users : my_channels[u] = NoRow
      /\ my_channels \in [Users -> [status : Statuses, mv : 0 .. MaxVersion]]
  BY MembershipAssumption DEF OInit, NoRow, Statuses
<1>4. once = [v \in {0} |-> [in |-> {}, closed |-> FALSE]] /\ 0 .. membership_version = {0}
  BY <1>2 DEF OInit
<1>5. OTypeOK
  <2>1. once \in [0 .. membership_version -> [in : SUBSET Users, closed : BOOLEAN]]
    BY <1>4
  <2>2. failures \in [FailureKinds -> 0 .. MaxFailures]
    BY OutboxAssumption DEF OInit
  <2>3. listing \in [status : {"none", "active", "dissolved"}, count : Nat]
    BY DEF OInit, Unlisted
  <2>4. alarm \in BOOLEAN /\ arming \in BOOLEAN /\ flushing \in BOOLEAN /\ batch = {} /\ dead = {}
    BY DEF OInit
  <2> QED
    BY <1>1, <1>3, <2>1, <2>2, <2>3, <2>4 DEF OTypeOK
<1>6. BatchIsDue /\ PendingHasAlarm
  BY <1>2 DEF BatchIsDue, PendingHasAlarm
<1>7. History
  BY <1>2, <1>4 DEF History, Numbered, OnlyChannelsListed, PastIsNow
<1>8. Truth /\ MembersTold
  BY <1>2, <1>3 DEF Truth, RowsAreTrue, HeldIsTrue, MembersTold
<1>9. InOrder
  BY <1>2 DEF InOrder
<1>10. LastListing
  BY <1>2 DEF OInit, LastListing, Lists, OnList, Unlisted
<1> QED
  BY <1>5, <1>6, <1>7, <1>8, <1>9, <1>10 DEF PInv, Bookkeeping

LEMMA OutboxNext == PInv /\ [ONext]_ovars => PInv'
<1>1. ASSUME PInv, UNCHANGED ovars PROVE PInv'
  <2>1. /\ UNCHANGED <<vars, dead, projections, once>>
        /\ UNCHANGED <<alarm, arming, flushing, batch, failures>>
    BY <1>1 DEF ovars, flush
  <2>2. OTypeOK' /\ History' /\ Truth' /\ MembersTold'
    BY <1>1, <2>1, Tables, NothingMoved
  <2>3. InOrder' /\ LastListing'
    BY <1>1, <2>1, NothingMovedInOrder
  <2>4. PendingHasAlarm' /\ BatchIsDue'
    BY <1>1, <2>1 DEF PInv, Bookkeeping, BatchIsDue, PendingHasAlarm, Stranded, vars
  <2> QED
    BY <2>2, <2>3, <2>4 DEF PInv, Bookkeeping
<1>2. ASSUME PInv, ONext PROVE PInv'
  BY <1>2, CommitKeeps, ArmAlarmKeeps, AlarmFiresKeeps, BackoffElapsesKeeps, DeliveredKeeps,
     FailedKeeps, EvictedFlushingKeeps, AlarmEndsKeeps, EvictedArmingKeeps DEF ONext
<1> QED
  BY <1>1, <1>2

LEMMA OutboxInvariant == OSpec => []PInv
BY OutboxInit, OutboxNext, PTL DEF OSpec

\* The outbox, the alarm's snapshot and both projections keep their types,
\* and after every handler, RPC, retry and eviction a pending row has an alarm
\* or someone who is about to arm one.
THEOREM OutboxKeepsAlarm == OSpec => []OutboxInv
<1>1. PInv => OutboxInv
  BY DEF PInv, Bookkeeping, OutboxInv
<1> QED
  BY <1>1, OutboxInvariant, PTL

\* Whatever is retried, repeated, applied without an answer or overtaken, the
\* status a user's directory holds at a version was the user's at that version.
THEOREM DirectoriesAreTrue == OSpec => []DirectoryNeverInvents
<1>1. PInv => DirectoryNeverInvents
  <2> SUFFICES ASSUME PInv, NEW u \in Users, my_channels[u] # NoRow
               PROVE  TrueAt(u, my_channels[u].status, my_channels[u].mv)
    BY DEF DirectoryNeverInvents, TrueAt
  <2> QED
    BY DEF PInv, Truth, HeldIsTrue
<1> QED
  BY <1>1, OutboxInvariant, PTL

\* When no row for the directories is on its way and none was given up, every
\* member's directory shows the channel, as active exactly if it is.
THEOREM MembersAreTold ==
  ASSUME "user_directory" \in Tracked
  PROVE  OSpec => []MembersFindChannel
<1>1. PInv => MembersFindChannel
  <2> SUFFICES ASSUME PInv, Settled("user_directory"), NEW u \in ActiveMembers
               PROVE  my_channels[u].status = IF status = "active" THEN "active" ELSE "dissolved"
    BY DEF MembersFindChannel
  <2>1. Told(u) \/ OnItsWay(u)
    BY DEF PInv, MembersTold, Settled, DirectoryRow
  <2>2. Told(u)
    BY <2>1 DEF OnItsWay, Settled, DirectoryRow
  <2>3. /\ my_channels[u].mv \in 1 .. membership_version /\ my_channels[u].status # "none"
        /\ TrueAt(u, my_channels[u].status, my_channels[u].mv)
    BY <2>2 DEF PInv, Truth, HeldIsTrue, Told, ActiveMembers
  <2>4. /\ u \in once[my_channels[u].mv].in
        /\ once[my_channels[u].mv].closed = (status = "dissolved")
    <3>1. membership_version \in Nat
      BY HeldTypes DEF PInv, Bookkeeping
    <3>2. my_channels[u].mv \in my_channels[u].mv .. membership_version
      BY <2>3, <3>1
    <3> QED
      BY <2>2, <3>2 DEF Told, Since
  <2>5. status \in {"active", "dissolved"}
    BY DEF PInv, Bookkeeping, OTypeOK, TypeOK
  <2> QED
    BY <2>3, <2>4, <2>5 DEF TrueAt
<1> QED
  BY <1>1, OutboxInvariant, PTL

\* When no row for the public directory is on its way, none was given up and
\* none was retried, the channel is listed exactly if it is public and open,
\* with its number of members.
THEOREM ListingIsRight ==
  ASSUME "channel_directory" \in Tracked
  PROVE  OSpec => []ListingSettles
<1>1. PInv => ListingSettles
  <2> SUFFICES ASSUME PInv, Settled("channel_directory"), failures["retry"] = 0
               PROVE  Lists(listing)
    BY DEF ListingSettles, Lists, OnList
  <2>1. Listings = {} /\ \A row \in dead : ~ListingRow(row)
    BY DEF Settled, Listings, ListingRow
  <2> QED
    BY <2>1 DEF PInv, LastListing
<1> QED
  BY <1>1, OutboxInvariant, PTL

=============================================================================
