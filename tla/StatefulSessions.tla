----------------------------- MODULE StatefulSessions -----------------------------
(***************************************************************************)
(* The stateful command sessions of one channel and the bot they talk to.  *)
(* The channel keeps the sessions, the inputs each one is owed and an      *)
(* outbox of frames; its alarm hands them to the bot's BotConnection,      *)
(* which pushes them down the socket and remembers in a ref which channel  *)
(* a session belongs to.  A push that finds no connection counts as done:  *)
(* what makes inputs durable is that a bot which comes back is given every *)
(* input it has not acknowledged.                                          *)
(*                                                                         *)
(* Sessions are numbered in the order they start, inputs and effects from  *)
(* 1.  The bot acknowledges an input when it has every earlier one.  Rows  *)
(* of the outbox are handed over in any order and given up after any       *)
(* failure; the code keeps the order of the due times and counts five.     *)
(***************************************************************************)
EXTENDS BotGateway, FiniteSets, Sequences

CONSTANTS
  MaxSessions,  \* bound: sessions started
  MaxInputs,    \* bound: inputs of a session
  MaxEffects,   \* bound: effect frames of a session
  Backlog,      \* DEFAULT_MAX_PENDING_INPUTS
  MaxFaults,    \* bound: calls to the BotConnection that fail
  Handlers      \* slots for session.effects handlers under way

ASSUME SessionsAssumption ==
  {MaxSessions, MaxInputs, MaxEffects, Backlog, MaxFaults} \subseteq Nat

VARIABLES
  session,     \* rows of stateful_command_sessions
  input,       \* session -> rows of stateful_session_inputs
  outbox,      \* session -> its rows of bot_delivery_outbox
  activating,  \* sessions whose start_ack waits for the starter's name
  overdue,     \* sessions past their start timeout or their TTL
  faults,      \* failed calls so far
  refs,        \* active_stateful_session_refs of the BotConnection
  resuming,    \* sessions whose inputs a greeted bot is about to be given
  heard,       \* the bot: session -> frames received; 0 is the start
  story,       \* history: session -> its lifecycle events
  stored,      \* session -> rows of stateful_session_effects_applied
  posted,      \* history: session -> effect -> times applied
  handler      \* slot -> session.effects handler

channel == <<session, input, outbox, story>>
effects == <<stored, posted, handler>>
svars == <<gateway, channel, activating, overdue, faults, refs, resuming, heard, effects>>

Sessions == 1 .. MaxSessions
Inputs == 1 .. MaxInputs
Effects == 1 .. MaxEffects
Rows == ({"start", "ref", "close"} \X {0}) \cup ({"input"} \X Inputs)
StartRow == <<"start", 0>>
RefRow == <<"ref", 0>>
CloseRow == <<"close", 0>>
InputRow(q) == <<"input", q>>

LiveStatus == {"starting", "active"}   \* suspended and closing are never written
EndStatus == {"closed", "failed"}      \* nor is expired
Live(s) == session[s].status \in LiveStatus
Unacked == {"pending", "sent"}

Idle == [at |-> "idle", of |-> 0, seq |-> 0]

SessionTypeOK ==
  /\ GTypeOK
  /\ session \in [Sessions -> [status : {"none"} \cup LiveStatus \cup EndStatus,
                    next : 1 .. MaxInputs + 1, acked : 0 .. MaxInputs,
                    effects : 0 .. MaxEffects]]
  /\ input \in [Sessions -> [Inputs -> {"none", "pending", "sent", "acked"}]]
  /\ outbox \in [Sessions -> [Rows -> {"none", "pending", "delivered", "dead_letter"}]]
  /\ activating \subseteq Sessions /\ overdue \subseteq Sessions /\ resuming \subseteq Sessions
  /\ faults \in 0 .. MaxFaults
  /\ refs \in [Sessions -> {"none", "starting", "active"}]
  /\ heard \in [Sessions -> SUBSET (0 .. MaxInputs)]
  /\ story \in [Sessions -> {<<>>, <<"closed">>, <<"started">>,
                             <<"started", "closed">>, <<"closed", "started">>}]
  /\ stored \in [Sessions -> SUBSET Effects]
  /\ posted \in [Sessions -> [Effects -> 0 .. 2]]
  /\ handler \in [Handlers -> [at : {"idle", "applying", "acking"},
                               of : 0 .. MaxSessions, seq : 0 .. MaxEffects]]

SInit == /\ GInit
         /\ session = [s \in Sessions |->
              [status |-> "none", next |-> 1, acked |-> 0, effects |-> 0]]
         /\ input = [s \in Sessions |-> [q \in Inputs |-> "none"]]
         /\ outbox = [s \in Sessions |-> [r \in Rows |-> "none"]]
         /\ activating = {} /\ overdue = {} /\ resuming = {}
         /\ faults = 0
         /\ refs = [s \in Sessions |-> "none"]
         /\ heard = [s \in Sessions |-> {}]
         /\ story = [s \in Sessions |-> <<>>]
         /\ stored = [s \in Sessions |-> {}]
         /\ posted = [s \in Sessions |-> [e \in Effects |-> 0]]
         /\ handler = [t \in Handlers |-> Idle]

\* Inserts a row; the outbox id is a primary key and rows are never deleted.
Enqueue(s, r) == outbox' = [outbox EXCEPT ![s][r] = "pending"]

\* A session frame goes down the current socket, or nowhere.
Push(s, n) == heard' = IF Reaches THEN [heard EXCEPT ![s] = @ \cup {n}] ELSE heard

-----------------------------------------------------------------------------
(* The channel's side of a session                                         *)

\* Mutant: the channel is taken to be free unless a session is active.
NoneActive(s) == \A o \in Sessions : session[o].status # "active"

\* The mutex of the channel: the look-up of statefulCommandInvoke, and the
\* unique index on the live sessions that holds whoever writes the status.
Free(s) == \A o \in Sessions \ {s} : ~Live(o)

Start(s) ==
  /\ session[s].status = "none"
  /\ \A o \in 1 .. s - 1 : session[o].status # "none"
  /\ Free(s)
  /\ session' = [session EXCEPT ![s].status = "starting"]
  /\ Enqueue(s, StartRow)
  /\ UNCHANGED <<gateway, input, story, activating, overdue, faults, refs, resuming,
                 heard, effects>>

\* The bot acknowledges the start; the channel reads the status and then waits
\* for a name.  A second acknowledgement would fail on the row of the first.
StartAck(s) ==
  /\ Speaks /\ 0 \in heard[s] /\ refs[s] # "none"
  /\ session[s].status = "starting"
  /\ activating' = activating \cup {s}
  /\ UNCHANGED <<gateway, channel, overdue, faults, refs, resuming, heard, effects>>

\* Mutant: the end of a session that never started is not announced.
StartedAnnounced(s, event) ==
  IF event = "closed" /\ story[s] = <<>> THEN story[s] ELSE Append(story[s], event)

Announced(s, event) == Append(story[s], event)

\* What stops the update: a live session beside it, or the row there already.
MayActivate(s) == Free(s) /\ outbox[s][RefRow] = "none"

Activate(s) ==
  /\ s \in activating
  /\ activating' = activating \ {s}
  /\ IF MayActivate(s)
     THEN /\ session' = [session EXCEPT ![s].status = "active"]
          /\ story' = [story EXCEPT ![s] = Announced(s, "started")]
          /\ Enqueue(s, RefRow)
          /\ overdue' = overdue \ {s}
     ELSE UNCHANGED <<session, story, outbox, overdue>>
  /\ UNCHANGED <<gateway, input, faults, refs, resuming, heard, effects>>

\* The name service fails, or the object is evicted.
ActivationLost(s) ==
  /\ s \in activating
  /\ activating' = activating \ {s}
  /\ UNCHANGED <<gateway, channel, overdue, faults, refs, resuming, heard, effects>>

ClosesOnce(s) == outbox[s][CloseRow] = "none"

\* closeStatefulSession: nothing for a session that has ended; it throws, and
\* changes nothing, when the row of an earlier close is there.
EndAs(s, final) ==
  /\ Live(s)
  /\ ClosesOnce(s)
  /\ session' = [session EXCEPT ![s].status = final]
  /\ story' = [story EXCEPT ![s] = Announced(s, "closed")]
  /\ Enqueue(s, CloseRow)
  /\ UNCHANGED <<input, activating, overdue, faults, refs, heard>>

\* The starter, an owner or an admin stops it.
Stop(s) == EndAs(s, "closed") /\ UNCHANGED <<gateway, resuming, effects>>

\* The bot closes it.
BotClose(s) == /\ Speaks /\ refs[s] # "none"
               /\ EndAs(s, "closed")
               /\ UNCHANGED <<gateway, resuming, effects>>

TimePasses(s) ==
  /\ Live(s) /\ s \notin overdue
  /\ overdue' = overdue \cup {s}
  /\ UNCHANGED <<gateway, channel, activating, faults, refs, resuming, heard, effects>>

\* Mutant: the alarm looks for active sessions only.
ActiveOverdue(s) == s \in overdue /\ session[s].status = "active"

Due(s) == s \in overdue /\ Live(s)

\* The alarm's first work.  A session that was slow to start is closed, one
\* that outlived its TTL has failed.
Timeout(s) ==
  /\ Due(s)
  /\ EndAs(s, IF session[s].status = "starting" THEN "closed" ELSE "failed")
  /\ UNCHANGED <<gateway, resuming, effects>>

\* A message the session listens to becomes its next input.
Listen(s) ==
  LET q == session[s].next
  IN /\ session[s].status = "active"
     /\ q \in Inputs   \* bound
     /\ input' = [input EXCEPT ![s][q] = "pending"]
     /\ session' = [session EXCEPT ![s].next = q + 1]
     /\ Enqueue(s, InputRow(q))
     /\ UNCHANGED <<gateway, story, activating, overdue, faults, refs, resuming,
                    heard, effects>>

\* Mutant: an acknowledgement settles the inputs the session has so far.
AllAcked(s, q) == [p \in Inputs |-> IF input[s][p] \in Unacked THEN "acked" ELSE input[s][p]]

AckedUpTo(s, q) ==
  [p \in Inputs |-> IF p <= q /\ input[s][p] \in Unacked THEN "acked" ELSE input[s][p]]

\* The last sequence number is written as it comes: an old acknowledgement
\* that arrives late takes it back.
InputAck(s, q) ==
  /\ Speaks /\ refs[s] # "none"
  /\ 1 .. q \subseteq heard[s]
  /\ session' = IF session[s].status = "active"
                THEN [session EXCEPT ![s].acked = q] ELSE session
  /\ input' = [input EXCEPT ![s] = AckedUpTo(s, q)]
  /\ UNCHANGED <<gateway, outbox, story, activating, overdue, faults, refs, resuming,
                 heard, effects>>

-----------------------------------------------------------------------------
(* Frames on their way to the bot                                          *)

\* The alarm closes what is overdue before it flushes; a close that throws
\* ends the alarm.
FlushTurn == \A s \in Sessions : ~Due(s)

Upserts(s, r) ==
  refs' = CASE r = StartRow -> [refs EXCEPT ![s] = "starting"]
            [] r = RefRow -> [refs EXCEPT ![s] = "active"]
            [] r = CloseRow -> [refs EXCEPT ![s] = "none"]
            [] OTHER -> refs

\* The frames of a start and of an input; the closed frame is not followed.
Frame(s, r) == IF r = StartRow \/ r[1] = "input" THEN Push(s, r[2]) ELSE UNCHANGED heard

Sent(s, r) ==
  input' = IF r[1] = "input" /\ input[s][r[2]] = "pending"
           THEN [input EXCEPT ![s][r[2]] = "sent"] ELSE input

Flush(s, r) ==
  /\ FlushTurn
  /\ outbox[s][r] = "pending"
  /\ Upserts(s, r) /\ Frame(s, r) /\ Sent(s, r)
  /\ outbox' = [outbox EXCEPT ![s][r] = "delivered"]
  /\ UNCHANGED <<gateway, session, story, activating, overdue, faults, resuming, effects>>

\* A call fails, before or after it was carried out; the row is tried again or
\* given up.  A start may have left its ref behind, a close its frame.
FlushFails(s, r) ==
  /\ FlushTurn
  /\ outbox[s][r] = "pending"
  /\ faults < MaxFaults
  /\ faults' = faults + 1
  /\ Upserts(s, r) \/ UNCHANGED refs
  /\ \/ UNCHANGED heard
     \/ r # StartRow /\ Frame(s, r)
     \/ refs'[s] = "starting" /\ Frame(s, r)
  /\ outbox' = [outbox EXCEPT ![s][r] = "dead_letter"] \/ UNCHANGED outbox
  /\ UNCHANGED <<gateway, session, input, story, activating, overdue, resuming, effects>>

\* The bot is greeted: the sessions that have a ref are resumed.
Ready(k) ==
  /\ Greeted(k)
  /\ resuming' = resuming \cup {s \in Sessions : refs[s] # "none"}
  /\ UNCHANGED <<channel, activating, overdue, faults, refs, heard, effects>>

Owed(s) == {q \in Inputs : q > session[s].acked /\ input[s][q] \in Unacked}

\* More unacknowledged inputs than the channel cares to keep for a bot.
Overflows(s) == Cardinality({q \in Inputs : input[s][q] \in Unacked}) > Backlog

\* statefulSessionInputs and what the BotConnection makes of its answer: the
\* inputs go down the current socket, the ref of a session that ended goes
\* away, and a session too far behind is closed.
Resume(s) ==
  /\ s \in resuming
  /\ resuming' = resuming \ {s}
  /\ \/ /\ Live(s) /\ ~Overflows(s)
        /\ heard' = IF Reaches THEN [heard EXCEPT ![s] = @ \cup Owed(s)] ELSE heard
        /\ UNCHANGED <<channel, activating, overdue, faults, refs>>
     \/ /\ Live(s) /\ Overflows(s)
        /\ \/ EndAs(s, "closed")
           \/ /\ ~ClosesOnce(s)
              /\ UNCHANGED <<channel, activating, overdue, faults, refs, heard>>
     \/ /\ ~Live(s)
        /\ refs' = [refs EXCEPT ![s] = "none"]
        /\ UNCHANGED <<channel, activating, overdue, faults, heard>>
  /\ UNCHANGED <<gateway, effects>>

\* Any other failure leaves the ref to the next hello.
ResumeFails(s) ==
  /\ s \in resuming
  /\ faults < MaxFaults
  /\ faults' = faults + 1
  /\ resuming' = resuming \ {s}
  /\ UNCHANGED <<gateway, channel, activating, overdue, refs, heard, effects>>

-----------------------------------------------------------------------------
(* Effects a bot sends during a session                                    *)

\* The next effect in order is taken up; one that was acknowledged before is
\* answered from its row, and no other is accepted.
EffectsBegin(t, s, e) ==
  /\ handler[t] = Idle
  /\ Speaks /\ refs[s] # "none"
  /\ session[s].status = "active"
  /\ e = session[s].effects + 1
  /\ handler' = [handler EXCEPT ![t] = [at |-> "applying", of |-> s, seq |-> e]]
  /\ UNCHANGED <<gateway, channel, activating, overdue, faults, refs, resuming, heard,
                 stored, posted>>

\* Mutant: only an effect that was acknowledged counts as applied.
NotStored(s, e) == e \notin stored[s]

\* applyValidatedEffects looks for the client's effect id in its transaction.
NotApplied(s, e) == posted[s][e] = 0

EffectsApply(t) ==
  LET h == handler[t]
  IN /\ h.at = "applying"
     /\ posted' = IF NotApplied(h.of, h.seq)
                  THEN [posted EXCEPT ![h.of][h.seq] = @ + 1] ELSE posted
     /\ handler' = [handler EXCEPT ![t].at = "acking"]
     /\ UNCHANGED <<gateway, channel, activating, overdue, faults, refs, resuming,
                    heard, stored>>

\* A second handler of the same effect fails on the row of the first.
EffectsAck(t) ==
  LET h == handler[t]
  IN /\ h.at = "acking"
     /\ IF h.seq \in stored[h.of] THEN UNCHANGED <<session, stored>>
        ELSE /\ stored' = [stored EXCEPT ![h.of] = @ \cup {h.seq}]
             /\ session' = IF session[h.of].effects = h.seq - 1
                           THEN [session EXCEPT ![h.of].effects = h.seq] ELSE session
     /\ handler' = [handler EXCEPT ![t] = Idle]
     /\ UNCHANGED <<gateway, input, outbox, story, activating, overdue, faults, refs,
                    resuming, heard, posted>>

\* A handler ends at one of its waits.
EffectsLost(t) ==
  /\ handler[t] # Idle
  /\ handler' = [handler EXCEPT ![t] = Idle]
  /\ UNCHANGED <<gateway, channel, activating, overdue, faults, refs, resuming, heard,
                 stored, posted>>

-----------------------------------------------------------------------------
Connection ==
  /\ Comes \/ Lapse
  /\ UNCHANGED <<channel, activating, overdue, faults, refs, resuming, heard, effects>>

SNext ==
  \/ Connection
  \/ \E k \in Sockets : Ready(k)
  \/ \E s \in Sessions :
       \/ Start(s) \/ StartAck(s) \/ Activate(s) \/ ActivationLost(s)
       \/ Stop(s) \/ BotClose(s) \/ TimePasses(s) \/ Timeout(s)
       \/ Listen(s) \/ \E q \in Inputs : InputAck(s, q)
       \/ \E r \in Rows : Flush(s, r) \/ FlushFails(s, r)
       \/ Resume(s) \/ ResumeFails(s)
       \/ \E t \in Handlers, e \in Effects : EffectsBegin(t, s, e)
  \/ \E t \in Handlers : EffectsApply(t) \/ EffectsAck(t) \/ EffectsLost(t)

SSpec == SInit /\ [][SNext]_svars

\* Time passes, and the alarm that is set for it runs.
SFairness == \A s \in Sessions : WF_svars(TimePasses(s)) /\ WF_svars(Timeout(s))

SFairSpec == SSpec /\ SFairness

-----------------------------------------------------------------------------
\* At most one session of the channel is live, although a start looks for one
\* before its insert and a start_ack writes "active" long after its look-up.
OneLive == \A s, o \in Sessions : Live(s) /\ Live(o) => s = o

\* An input of a session that has started and not ended is not lost, whatever
\* the sockets do: the bot has it, or the next hello gives it, for which the
\* BotConnection still knows the session and the row is neither acknowledged
\* nor behind the acknowledged number.
NoInputLost ==
  \A s \in Sessions : story[s] = <<"started">> =>
    /\ refs[s] # "none"
    /\ \A q \in Inputs : input[s][q] # "none" => q \in heard[s] \cup Owed(s)

\* An effect is applied once, however often the bot sends it and however many
\* of its handlers are under way; what the channel says it has seen, was applied.
EffectsOnce ==
  \A s \in Sessions, e \in Effects :
    /\ posted[s][e] <= 1
    /\ e <= session[s].effects => posted[s][e] = 1 /\ e \in stored[s]

\* The announcements of a session tell its state: whoever follows the events
\* knows which session the channel is busy with, come back or not.
StoryTells ==
  \A s \in Sessions :
    /\ session[s].status = "active" <=> story[s] # <<>> /\ story[s][Len(story[s])] = "started"
    /\ session[s].status \in EndStatus <=> story[s] # <<>> /\ story[s][Len(story[s])] = "closed"

\* The tables hold values of their types, no session is announced twice in the
\* same way, and the announcements tell its state.
SessionInv == SessionTypeOK /\ StoryTells

\* A session frees the channel in the end: the alarm ends it even if it is never
\* stopped, acknowledged or closed by its bot.  The one that stays is a session
\* that was over and that a start_ack under way brought back: the row of its
\* close is there already, and nothing that would end it gets past that row.
SessionEnds ==
  \A s \in Sessions : Live(s) ~> ~Live(s) \/ story[s] = <<"closed", "started">>

\* What the backend plan says of every way to end a session, that it
\* "transitions to closed/expired/failed [...] releases mutex, stops new input
\* enqueue": a session that ended is over.  A start_ack that was under way
\* brings it back, announced as closed before it is announced as started.
ClosedStaysClosed ==
  [][\A s \in Sessions : session[s].status \in EndStatus
                           => session'[s].status = session[s].status]_svars

=============================================================================
