------------------------------ MODULE BotStream ------------------------------
(***************************************************************************)
(* One streamed bot message.  ChatChannel keeps a registry row for it and, *)
(* in the end, the message; a BotStreamConnection takes the text from the  *)
(* bot's WebSocket, delta by delta.  A delta is first kept in the          *)
(* attachment of its socket, is shown to viewers by an RPC to              *)
(* ChannelFanout, and is made durable by a flush, which is what is         *)
(* acknowledged.  A handler works on a copy of the attachment and writes   *)
(* the copy back at its end, and anything may run while it awaits an RPC:  *)
(* other messages of the socket, the alarm, a reconnect, the expiry called *)
(* by ChatChannel.                                                         *)
(*                                                                         *)
(* A delta stands for its sequence number: the bot sends the same text     *)
(* whenever it sends a number.  Buffers fill and timers run when they      *)
(* like.  A digest is computed without giving up control.  The rows that   *)
(* ChatChannel writes with the message for other objects are left out.     *)
(***************************************************************************)
EXTENDS Naturals, Sequences, FiniteSets

CONSTANTS
  Sockets,       \* WebSockets the bot opens, one after another
  Handlers,      \* slots for message handlers under way
  AlarmTask,     \* the slot of the connection's alarm handler
  RegistryTask,  \* the slot of expireStream, called by ChatChannel's alarm
  MaxSeq,        \* bound on the deltas of the stream
  MaxFaults      \* bound on failed RPCs, lost replies and crashes

ASSUME StreamAssumption ==
  /\ MaxSeq \in Nat /\ MaxFaults \in Nat
  /\ AlarmTask # RegistryTask
  /\ {AlarmTask, RegistryTask} \cap Handlers = {}

VARIABLES
  registry,    \* ChatChannel: status in message_stream_registry
  message,     \* ChatChannel: the canonical message, if there is one
  expired,     \* expires_at has passed on the connection's clock
  row,         \* BotStreamConnection: stream_state
  jobs,        \* job_kinds pending in stream_due_jobs
  alarm,       \* an alarm is set
  conn,        \* socket -> its connection
  attachment,  \* socket -> its serialized attachment
  task,        \* slot -> a handler under way, or Idle
  faults       \* number of faults so far

channel == <<registry, message>>
store == <<row, jobs>>
ws == <<conn, attachment>>
svars == <<channel, expired, store, alarm, ws, task, faults>>

Tasks == Handlers \cup {AlarmTask, RegistryTask}
Idle == [at |-> "idle"]
NoMessage == [state |-> "none", text |-> <<>>, seq |-> 0]
NoRow == [status |-> "none", ack |-> 0, text |-> <<>>]

\* attachmentFromState: a new socket starts where the durable text ends.
Fresh(ack) == [pending |-> <<>>, received |-> ack, fan |-> FALSE]

\* start_stream has been applied; the bot has not connected yet.
SInit == /\ registry = "streaming"
         /\ message = NoMessage
         /\ expired = FALSE
         /\ row = NoRow
         /\ jobs = {}
         /\ alarm = FALSE
         /\ conn = [w \in Sockets |-> "new"]
         /\ attachment = [w \in Sockets |-> Fresh(0)]
         /\ task = [t \in Tasks |-> Idle]
         /\ faults = 0

\* getWebSockets also returns sockets whose close is under way.
WebSockets == {w \in Sockets : conn[w] \in {"open", "closing"}}

Closing(set) == [w \in Sockets |-> IF w \in set /\ conn[w] = "open" THEN "closing" ELSE conn[w]]

Fault == faults < MaxFaults /\ faults' = faults + 1      \* bound

\* A handler ends early, by an exception; a failed alarm is run again.
Dies(t) == /\ task' = [task EXCEPT ![t] = Idle]
           /\ alarm' = (alarm \/ t = AlarmTask)

-----------------------------------------------------------------------------
(* Connections.                                                            *)

\* A reconnect closes the sockets there are.  The route has asked the registry
\* before, when the stream was open; the answer may be old by now.
Connect(w) ==
  /\ conn[w] = "new"
  /\ row.status \in {"none", "streaming", "finalized"}
  /\ ~expired
  /\ row' = IF row = NoRow THEN [row EXCEPT !.status = "streaming"] ELSE row
  /\ jobs' = jobs \cup {"expiry"}
  /\ alarm' = TRUE
  /\ conn' = [Closing(Sockets) EXCEPT ![w] = "open"]
  /\ attachment' = [attachment EXCEPT ![w] = Fresh(row.ack)]
  /\ UNCHANGED <<channel, expired, task, faults>>

\* The peer is gone or completes the close; webSocketClose does nothing.
Gone(w) == /\ w \in WebSockets
           /\ conn' = [conn EXCEPT ![w] = "gone"]
           /\ UNCHANGED <<channel, expired, store, alarm, attachment, task, faults>>

-----------------------------------------------------------------------------
(* What handlers do with their copy of an attachment.                      *)

\* Mutant: the durable sequence number is not looked at.
FlushBlindly(copy) ==
  row' = [row EXCEPT !.ack = copy.received, !.text = @ \o copy.pending]

\* flushPending: the whole pending text is appended, unless the row is
\* already past its end.
FlushPending(copy) ==
  row' = IF row.ack < copy.received
         THEN [row EXCEPT !.ack = copy.received, !.text = @ \o copy.pending]
         ELSE row

AfterFlush(due, copy) == IF row.ack < copy.received THEN due \ {"flush"} ELSE due

\* The acknowledgement of a flush cannot be sent to a socket that is closed:
\* the row has been written, the handler ends there.
FlushThrows(t, w, copy, due) ==
  /\ copy.pending # <<>>
  /\ conn[w] # "open"
  /\ FlushPending(copy)
  /\ jobs' = AfterFlush(due, copy)
  /\ Dies(t)
  /\ UNCHANGED attachment

\* The copy is written back, flushed first or not.
SaveFlushed(w, copy, due) ==
  /\ copy.pending # <<>> => conn[w] = "open" /\ FlushPending(copy)
  /\ copy.pending = <<>> => UNCHANGED row
  /\ jobs' = IF copy.pending # <<>> THEN AfterFlush(due, copy) ELSE due
  /\ attachment' = [attachment EXCEPT ![w] = [copy EXCEPT !.pending = <<>>]]

SaveUnflushed(w, copy, due) ==
  /\ copy.pending # <<>>
  /\ jobs' = due
  /\ attachment' = [attachment EXCEPT ![w] = copy]
  /\ UNCHANGED row

\* fanoutPending awaits ChannelFanout.
AwaitFanout(t, w, copy, then, todo) ==
  task' = [task EXCEPT ![t] =
    [at |-> "fanout", then |-> then, w |-> w, copy |-> copy, todo |-> todo]]

\* ... and the deltas have been shown.
Shown(t, then) == task[t].at = "fanout" /\ task[t].then = then
Copy(t) == [task[t].copy EXCEPT !.fan = FALSE]
Due == jobs \ {"fanout"}

\* ChannelFanout does not answer; the clean-up frame of an expiry without text
\* goes to it too.
FanoutFails(t) ==
  /\ task[t].at = "fanout" \/ (task[t].at = "abandoning" /\ task[t].text = <<>>)
  /\ Fault
  /\ Dies(t)
  /\ UNCHANGED <<channel, expired, store, ws>>

-----------------------------------------------------------------------------
(* append                                                                  *)

\* validateAppendSeq: the next delta of the socket, if it is not durable yet.
\* Any other delta is answered and changes nothing.
Accepts(w) == LET seq == attachment[w].received + 1
              IN seq > row.ack /\ seq <= MaxSeq      \* bound

\* The rest of the handler: a flush if it is due, the copy is saved, the
\* alarm is set.
AppendRest(t, w, copy, due) ==
  /\ \/ FlushThrows(t, w, copy, due)
     \/ /\ \/ SaveFlushed(w, copy, due)
           \/ SaveUnflushed(w, copy, due \cup {"flush"})
        /\ alarm' = (jobs' # {})
        /\ task' = [task EXCEPT ![t] = Idle]
  /\ UNCHANGED <<channel, expired, conn, faults>>

HandleAppend(t, w) ==
  LET old == attachment[w]
      copy == [pending |-> Append(old.pending, old.received + 1),
               received |-> old.received + 1, fan |-> TRUE]
      due == IF old.fan THEN jobs ELSE jobs \cup {"fanout"}
  IN /\ task[t] = Idle
     /\ conn[w] = "open"
     /\ row.status = "streaming" /\ ~expired
     /\ Accepts(w)
     /\ \/ AppendRest(t, w, copy, due)
        \/ /\ jobs' = due
           /\ AwaitFanout(t, w, copy, "append", {})
           /\ UNCHANGED <<channel, expired, row, alarm, ws, faults>>

AppendShown(t) == Shown(t, "append") /\ AppendRest(t, task[t].w, Copy(t), Due)

-----------------------------------------------------------------------------
(* finalize                                                                *)

\* Mutant: that all accepted text is durable is not checked.
MayFinalizeAny(copy) == row'.status = "streaming"

\* What the handler checks after it has flushed.
MayFinalize(copy) == row'.status = "streaming" /\ row'.ack = copy.received

FinalizeRest(t, w, copy, due) ==
  /\ \/ FlushThrows(t, w, copy, due)
     \/ /\ SaveFlushed(w, copy, due)
        /\ task' = [task EXCEPT ![t] =
             IF MayFinalize(copy)
             THEN [at |-> "finalizing", then |-> "close", w |-> w,
                   text |-> row'.text, seq |-> copy.received]
             ELSE Idle]
        /\ UNCHANGED alarm
  /\ UNCHANGED <<channel, expired, conn, faults>>

\* The bot finalizes what the socket has received; anything else is refused.
HandleFinalize(t, w) ==
  LET copy == attachment[w]
  IN /\ task[t] = Idle
     /\ conn[w] = "open"
     /\ row.status = "streaming" /\ ~expired
     /\ IF copy.fan THEN /\ AwaitFanout(t, w, copy, "finalize", {})
                         /\ UNCHANGED <<channel, expired, store, alarm, ws, faults>>
        ELSE FinalizeRest(t, w, copy, jobs)

FinalizeShown(t) == Shown(t, "finalize") /\ FinalizeRest(t, task[t].w, Copy(t), Due)

ReplayFinalize(t, w) ==
  /\ task[t] = Idle
  /\ conn[w] = "open"
  /\ row.status = "finalized"
  /\ task' = [task EXCEPT ![t] = [at |-> "finalizing", then |-> "replay", w |-> w,
                                  text |-> row.text, seq |-> row.ack]]
  /\ UNCHANGED <<channel, expired, store, alarm, ws, faults>>

\* ChatChannel.streamFinalize: a repeated request is answered from the
\* registry.  Its clock is not the connection's: the stream may have expired
\* there and not here.
StreamFinalize(t) ==
  LET ask == [state |-> "final", text |-> task[t].text, seq |-> task[t].seq]
  IN /\ task[t].at = "finalizing"
     /\ \/ /\ registry = "streaming"
           /\ registry' = "finalized"
           /\ message' = ask
           /\ task' = [task EXCEPT ![t].at = "finalized"]
        \/ /\ registry = "finalized" /\ message = ask
           /\ task' = [task EXCEPT ![t].at = "finalized"]
           /\ UNCHANGED channel
        \/ /\ registry = "streaming" => expired
           /\ registry = "finalized" => message # ask
           /\ task' = [task EXCEPT ![t] = Idle]
           /\ UNCHANGED channel
     /\ UNCHANGED <<expired, store, alarm, ws, faults>>

\* markStreamFinalized, and the socket is closed.
FinalizeReturns(t) ==
  /\ task[t].at = "finalized"
  /\ IF task[t].then = "close"
     THEN row' = [row EXCEPT !.status = "finalized"] /\ jobs' = {}
     ELSE UNCHANGED store
  /\ conn' = Closing({task[t].w})
  /\ task' = [task EXCEPT ![t] = Idle]
  /\ UNCHANGED <<channel, expired, alarm, attachment, faults>>

-----------------------------------------------------------------------------
(* Expiry, from the connection's alarm or from ChatChannel's.              *)

\* expireStream ends; the alarm goes on to what is due on the sockets.
ExpiryEnds(t) ==
  task' = [task EXCEPT ![t] =
    IF t = AlarmTask THEN [at |-> "visiting", todo |-> WebSockets] ELSE Idle]

\* Whatever is pending on a socket becomes durable first.
ExpiryVisit(t, w) ==
  LET copy == attachment[w]
  IN /\ task[t].at = "expiring" /\ w \in task[t].todo
     /\ \/ FlushThrows(t, w, copy, jobs)
        \/ /\ SaveFlushed(w, copy, jobs)
           /\ IF copy.fan
              THEN AwaitFanout(t, w, [copy EXCEPT !.pending = <<>>], "expiry", task[t].todo \ {w})
              ELSE task' = [task EXCEPT ![t].todo = @ \ {w}]
           /\ UNCHANGED alarm
     /\ UNCHANGED <<channel, expired, conn, faults>>

ExpiryShown(t) ==
  /\ Shown(t, "expiry")
  /\ attachment' = [attachment EXCEPT ![task[t].w] = Copy(t)]
  /\ jobs' = Due
  /\ task' = [task EXCEPT ![t] = [at |-> "expiring", todo |-> task[t].todo]]
  /\ UNCHANGED <<channel, expired, row, alarm, conn, faults>>

\* The partial text is read; the clean-up frame and the RPC come after.
ExpiryRead(t) ==
  /\ task[t].at = "expiring" /\ task[t].todo = {}
  /\ task' = [task EXCEPT ![t] = [at |-> "abandoning", text |-> row.text, status |-> row.status]]
  /\ UNCHANGED <<channel, expired, store, alarm, ws, faults>>

\* Mutant: a stream without text is left as it is.
RecordTextOnly(text) ==
  /\ registry' = IF text = <<>> THEN registry ELSE "abandoned"
  /\ message' = IF text = <<>> THEN message ELSE [state |-> "abandoned", text |-> text, seq |-> 0]

\* A partial text becomes a failed message.
RecordAbandon(text) ==
  /\ registry' = "abandoned"
  /\ message' = IF text = <<>> THEN message ELSE [state |-> "abandoned", text |-> text, seq |-> 0]

\* Mutant: a finalized stream is abandoned like any other.
MayAbandonAny == registry \in {"streaming", "finalized"}

MayAbandon == registry = "streaming"

\* ChatChannel.streamAbandon.  A conflict is an error like any other for
\* the caller: what crosses an RPC is no instance of ApiError.
StreamAbandon(t) ==
  LET text == task[t].text
      again == registry = "abandoned"
               /\ (text = <<>> \/ message.state = "none" \/ message.text = text)
  IN /\ task[t].at = "abandoning"
     /\ \/ /\ MayAbandon
           /\ RecordAbandon(text)
           /\ task' = [task EXCEPT ![t].at = "abandoned"]
        \/ /\ ~MayAbandon
           /\ IF again THEN task' = [task EXCEPT ![t].at = "abandoned"] ELSE ExpiryEnds(t)
           /\ UNCHANGED channel
     /\ UNCHANGED <<expired, store, alarm, ws, faults>>

\* markStreamAbandoned goes by the row as it was read; all sockets are closed.
AbandonReturns(t) ==
  /\ task[t].at = "abandoned"
  /\ row' = IF task[t].status = "streaming" THEN [row EXCEPT !.status = "abandoned"] ELSE row
  /\ jobs' = CASE task[t].status = "streaming" -> {}
               [] task[t].status = "none" -> jobs \ {"expiry"}
               [] OTHER -> jobs
  /\ conn' = Closing(Sockets)
  /\ ExpiryEnds(t)
  /\ UNCHANGED <<channel, expired, alarm, attachment, faults>>

-----------------------------------------------------------------------------
(* The alarm.                                                              *)

AlarmFires ==
  /\ alarm /\ task[AlarmTask] = Idle
  /\ alarm' = FALSE
  /\ task' = [task EXCEPT ![AlarmTask] =
       [at |-> IF expired /\ "expiry" \in jobs /\ row.status = "streaming"
               THEN "expiring" ELSE "visiting",
        todo |-> WebSockets]]
  /\ UNCHANGED <<channel, expired, store, ws, faults>>

\* processPendingWork, then the copy is saved whether or not it has changed.
VisitRest(w, copy, due, todo) ==
  /\ \/ FlushThrows(AlarmTask, w, copy, due)
     \/ /\ SaveFlushed(w, copy, due) \/ SaveUnflushed(w, copy, due)
        /\ task' = [task EXCEPT ![AlarmTask] = [at |-> "visiting", todo |-> todo]]
        /\ UNCHANGED alarm
  /\ UNCHANGED <<channel, expired, conn, faults>>

AlarmVisit(w) ==
  LET copy == attachment[w]
      rest == task[AlarmTask].todo \ {w}
  IN /\ task[AlarmTask].at = "visiting" /\ w \in task[AlarmTask].todo
     /\ \/ VisitRest(w, copy, jobs, rest)
        \/ /\ copy.fan
           /\ AwaitFanout(AlarmTask, w, copy, "alarm", rest)
           /\ UNCHANGED <<channel, expired, store, alarm, ws, faults>>

AlarmShown ==
  /\ Shown(AlarmTask, "alarm")
  /\ VisitRest(task[AlarmTask].w, Copy(AlarmTask), Due, task[AlarmTask].todo)

\* scheduleNextAlarm
AlarmEnds == /\ task[AlarmTask].at = "visiting" /\ task[AlarmTask].todo = {}
             /\ alarm' = (jobs # {})
             /\ task' = [task EXCEPT ![AlarmTask] = Idle]
             /\ UNCHANGED <<channel, expired, store, ws, faults>>

\* ChatChannel's alarm calls expireStream for a stream that is still open.
RegistryExpires ==
  /\ registry = "streaming" /\ expired
  /\ task[RegistryTask] = Idle
  /\ row.status \in {"none", "streaming"}
  /\ task' = [task EXCEPT ![RegistryTask] = [at |-> "expiring", todo |-> WebSockets]]
  /\ UNCHANGED <<channel, expired, store, alarm, ws, faults>>

-----------------------------------------------------------------------------
(* Time and faults.                                                        *)

Expires == /\ ~expired
           /\ expired' = TRUE
           /\ UNCHANGED <<channel, store, alarm, ws, task, faults>>

\* Mutant: the error of streamAbandon is logged and forgotten.
CallFailsQuietly(t) ==
  /\ Fault
  /\ \/ /\ task[t].at \in {"finalizing", "finalized"}
        /\ task' = [task EXCEPT ![t] = Idle]
     \/ /\ task[t].at = "abandoning"
        /\ task' = [task EXCEPT ![t].at = "abandoned"]
  /\ UNCHANGED <<channel, expired, store, alarm, ws>>

\* A call to ChatChannel fails before it gets there, or its reply is lost.
CallFails(t) ==
  /\ Fault
  /\ \/ /\ task[t].at \in {"finalizing", "finalized"}
        /\ task' = [task EXCEPT ![t] = Idle]
     \/ /\ task[t].at \in {"abandoning", "abandoned"}
        /\ ExpiryEnds(t)
  /\ UNCHANGED <<channel, expired, store, alarm, ws>>

\* The connection's object is restarted; its sockets are gone, and an alarm
\* that was under way is run again.
Crash == /\ Fault
         /\ task' = [t \in Tasks |-> Idle]
         /\ alarm' = (alarm \/ task[AlarmTask] # Idle)
         /\ conn' = [w \in Sockets |-> IF w \in WebSockets THEN "gone" ELSE conn[w]]
         /\ UNCHANGED <<channel, expired, store, attachment>>

-----------------------------------------------------------------------------
MessageStep == \E t \in Handlers, w \in Sockets : \/ HandleAppend(t, w)
                                                  \/ HandleFinalize(t, w)
                                                  \/ ReplayFinalize(t, w)

\* A handler goes on after an await, or within the alarm.
TaskStep(t) == \/ AppendShown(t)
               \/ FinalizeShown(t)
               \/ StreamFinalize(t)
               \/ FinalizeReturns(t)
               \/ \E w \in Sockets : ExpiryVisit(t, w)
               \/ ExpiryShown(t)
               \/ ExpiryRead(t)
               \/ StreamAbandon(t)
               \/ AbandonReturns(t)

AlarmStep == \/ AlarmFires
             \/ \E w \in Sockets : AlarmVisit(w)
             \/ AlarmShown
             \/ AlarmEnds

FaultStep == \/ \E t \in Tasks : FanoutFails(t) \/ CallFails(t)
             \/ Crash

SNext == \/ \E w \in Sockets : Connect(w) \/ Gone(w)
         \/ MessageStep
         \/ \E t \in Tasks : TaskStep(t)
         \/ AlarmStep
         \/ RegistryExpires
         \/ Expires
         \/ FaultStep

SSpec == SInit /\ [][SNext]_svars

\* Handlers go on, set alarms fire, a closed socket goes away.  Bots and
\* time are under no fairness.
SFairSpec == /\ SSpec
             /\ \A t \in Tasks : WF_svars(TaskStep(t))
             /\ WF_svars(AlarmStep)
             /\ WF_svars(RegistryExpires)
             /\ \A w \in Sockets : WF_svars(conn[w] = "closing" /\ Gone(w))

-----------------------------------------------------------------------------
Text == Seq(1 .. MaxSeq)
Attachment == [pending : Text, received : 0 .. MaxSeq, fan : BOOLEAN]

Work == [at : {"fanout"}, then : {"append", "finalize", "expiry", "alarm"},
         w : Sockets, copy : Attachment, todo : SUBSET Sockets]
        \cup [at : {"visiting", "expiring"}, todo : SUBSET Sockets]
        \cup [at : {"finalizing", "finalized"}, then : {"close", "replay"},
              w : Sockets, text : Text, seq : 0 .. MaxSeq]
        \cup [at : {"abandoning", "abandoned"}, text : Text,
              status : {"none", "streaming", "finalized", "abandoned"}]

\* The tables of the two objects, the sockets and the handlers under way hold
\* values of their types.
STypeOK ==
  /\ registry \in {"streaming", "finalized", "abandoned"}
  /\ message \in [state : {"none", "final", "abandoned"}, text : Text, seq : 0 .. MaxSeq]
  /\ expired \in BOOLEAN
  /\ row \in [status : {"none", "streaming", "finalized", "abandoned"},
              ack : 0 .. MaxSeq, text : Text]
  /\ jobs \subseteq {"flush", "fanout", "expiry"}
  /\ alarm \in BOOLEAN
  /\ conn \in [Sockets -> {"new", "open", "closing", "gone"}]
  /\ attachment \in [Sockets -> Attachment]
  /\ task \in [Tasks -> Work \cup {Idle}]
  /\ faults \in 0 .. MaxFaults

Deltas(text) == {text[i] : i \in DOMAIN text}

\* "ack_seq never exceeds durable flushed text coverage": what has been
\* acknowledged is in the durable text and nothing else is, whichever
\* handlers held which copies, on whichever sockets.
AckedIsDurable == Deltas(row.text) = 1 .. row.ack

\* A finalized message has every delta up to final_seq and no other.
FinalIsComplete == message.state = "final" => Deltas(message.text) = 1 .. message.seq

\* The connection calls a stream finalized only when the registry does, and
\* gives it up only when the registry has settled it.
RowFollowsRegistry == /\ row.status = "finalized" => registry = "finalized"
                      /\ row.status = "abandoned" => registry # "streaming"

\* Both tables and every handler's copy hold values of their types, and the
\* connection's table follows the channel's.
StreamInv == STypeOK /\ RowFollowsRegistry

\* The outcome stands: neither a late finalize nor a late or repeated
\* abandon changes a stream that has been settled, nor its message.
OutcomeStands == [][registry # "streaming" => UNCHANGED channel]_svars

\* A stream that has expired is settled at last, whatever failed.
StreamEnds == expired ~> registry # "streaming"

\* "resume from ack_seq + 1, no duplicate text in buffer."
NoDuplicateText ==
  \A i, j \in DOMAIN row.text : row.text[i] = row.text[j] => i = j

=============================================================================
