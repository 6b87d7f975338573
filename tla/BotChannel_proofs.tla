--------------------------- MODULE BotChannel_proofs ---------------------------
(***************************************************************************)
(* Theorems of BotStream and Commands, for every value of their constants. *)
(***************************************************************************)
EXTENDS BotStream, Commands, WellFoundedInduction, SequenceTheorems, TLAPS

-----------------------------------------------------------------------------
(* The stream: texts and what a handler holds.                             *)

RowType == [status : {"none", "streaming", "finalized", "abandoned"},
            ack : 0 .. MaxSeq, text : Text]

\* A copy of an attachment has no delta beyond what was received, and every one
\* that is not durable yet.
Covers(ack, c) == /\ Deltas(c.pending) \subseteq 1 .. c.received
                  /\ (ack + 1) .. c.received \subseteq Deltas(c.pending)

CopiesCover == /\ \A w \in Sockets : Covers(row.ack, attachment[w])
               /\ \A t \in Tasks : task[t].at = "fanout" => Covers(row.ack, task[t].copy)

\* What a handler is about to tell the other object is complete, and what it was
\* told is so.
HandlersKnow ==
  \A t \in Tasks :
    /\ task[t].at \in {"finalizing", "finalized"} => Deltas(task[t].text) = 1 .. task[t].seq
    /\ task[t].at = "finalized" => registry = "finalized"
    /\ task[t].at = "abandoned" => registry # "streaming"

\* The inductive invariant of BotStream.
SInv == /\ STypeOK
        /\ RowFollowsRegistry
        /\ AckedIsDurable
        /\ FinalIsComplete
        /\ CopiesCover
        /\ HandlersKnow

LEMMA NoDeltas == Deltas(<<>>) = {}
BY DEF Deltas

LEMMA DeltasOfAppend ==
  ASSUME NEW s \in Text, NEW n \in 1 .. MaxSeq
  PROVE  /\ Append(s, n) \in Text
         /\ Deltas(Append(s, n)) = Deltas(s) \cup {n}
<1> DEFINE a == Append(s, n)
<1>1. /\ a \in Text
      /\ Len(a) = Len(s) + 1 /\ Len(s) \in Nat
      /\ \A i \in 1 .. Len(s) : a[i] = s[i]
      /\ a[Len(s) + 1] = n
      /\ DOMAIN a = 1 .. (Len(s) + 1) /\ DOMAIN s = 1 .. Len(s)
  BY DEF Text
<1> HIDE DEF a
<1>2. ASSUME NEW x \in Deltas(a)  PROVE x \in Deltas(s) \cup {n}
  <2>1. PICK i \in 1 .. (Len(s) + 1) : x = a[i]
    BY <1>1, <1>2 DEF Deltas
  <2>2. CASE i = Len(s) + 1
    BY <2>1, <2>2, <1>1
  <2>3. CASE i \in 1 .. Len(s)
    BY <2>1, <2>3, <1>1 DEF Deltas
  <2> QED BY <2>1, <2>2, <2>3, <1>1
<1>3. ASSUME NEW x \in Deltas(s) \cup {n}  PROVE x \in Deltas(a)
  <2>1. CASE x = n
    <3>1. Len(s) + 1 \in DOMAIN a  BY <1>1
    <3> QED BY <2>1, <3>1, <1>1 DEF Deltas
  <2>2. CASE x \in Deltas(s)
    <3>1. PICK i \in 1 .. Len(s) : x = s[i]
      BY <2>2, <1>1 DEF Deltas
    <3>2. i \in DOMAIN a /\ a[i] = x  BY <3>1, <1>1
    <3> QED BY <3>2 DEF Deltas
  <2> QED BY <1>3, <2>1, <2>2
<1>4. Deltas(a) = Deltas(s) \cup {n}
  BY <1>2, <1>3
<1> QED BY <1>1, <1>4 DEF a

LEMMA DeltasOfConcat ==
  ASSUME NEW s \in Text, NEW q \in Text
  PROVE  /\ s \o q \in Text
         /\ Deltas(s \o q) = Deltas(s) \cup Deltas(q)
<1> DEFINE a == s \o q
<1>1. /\ a \in Text
      /\ Len(a) = Len(s) + Len(q) /\ Len(s) \in Nat /\ Len(q) \in Nat
      /\ \A i \in 1 .. Len(s) : a[i] = s[i]
      /\ \A i \in 1 .. Len(q) : a[Len(s) + i] = q[i]
      /\ DOMAIN a = 1 .. (Len(s) + Len(q)) /\ DOMAIN s = 1 .. Len(s) /\ DOMAIN q = 1 .. Len(q)
  BY DEF Text
<1> HIDE DEF a
<1>2. ASSUME NEW x \in Deltas(a)  PROVE x \in Deltas(s) \cup Deltas(q)
  <2>1. PICK i \in 1 .. (Len(s) + Len(q)) : x = a[i]
    BY <1>1, <1>2 DEF Deltas
  <2>2. CASE i \in 1 .. Len(s)
    BY <2>1, <2>2, <1>1 DEF Deltas
  <2>3. CASE i > Len(s)
    <3>1. i - Len(s) \in 1 .. Len(q) /\ i = Len(s) + (i - Len(s))
      BY <2>1, <2>3, <1>1
    <3>2. x = q[i - Len(s)]  BY <2>1, <3>1, <1>1
    <3> QED BY <3>1, <3>2, <1>1 DEF Deltas
  <2> QED BY <2>1, <2>2, <2>3, <1>1
<1>3. ASSUME NEW x \in Deltas(s) \cup Deltas(q)  PROVE x \in Deltas(a)
  <2>1. CASE x \in Deltas(s)
    <3>1. PICK i \in 1 .. Len(s) : x = s[i]
      BY <2>1, <1>1 DEF Deltas
    <3>2. i \in DOMAIN a /\ a[i] = x  BY <3>1, <1>1
    <3> QED BY <3>2 DEF Deltas
  <2>2. CASE x \in Deltas(q)
    <3>1. PICK i \in 1 .. Len(q) : x = q[i]
      BY <2>2, <1>1 DEF Deltas
    <3>2. Len(s) + i \in DOMAIN a /\ a[Len(s) + i] = x  BY <3>1, <1>1
    <3> QED BY <3>2 DEF Deltas
  <2> QED BY <1>3, <2>1, <2>2
<1>4. Deltas(a) = Deltas(s) \cup Deltas(q)
  BY <1>2, <1>3
<1> QED BY <1>1, <1>4 DEF a

-----------------------------------------------------------------------------
(* What a flush does, and the ways a handler ends with its copy.           *)

\* The durable text only grows and stays what is acknowledged.
RowGrows == /\ row' \in RowType
            /\ Deltas(row'.text) = 1 .. row'.ack
            /\ row'.status = row.status
            /\ row.ack <= row'.ack

\* The sockets' attachments are typed and cover what is not durable.
SocketsCover == /\ attachment' \in [Sockets -> Attachment]
                /\ \A w \in Sockets : Covers(row'.ack, attachment'[w])

LEMMA LaterCovers ==
  ASSUME NEW c \in Attachment, NEW m \in Nat, NEW n \in Nat, m <= n, Covers(m, c)
  PROVE  Covers(n, c)
BY DEF Covers, Attachment

LEMMA FlushGrows ==
  ASSUME STypeOK, AckedIsDurable,
         NEW c \in Attachment, Covers(row.ack, c), FlushPending(c)
  PROVE  RowGrows /\ c.received <= row'.ack
<1>1. /\ row \in RowType /\ row.ack \in 0 .. MaxSeq /\ row.text \in Text
      /\ c.pending \in Text /\ c.received \in 0 .. MaxSeq
      /\ MaxSeq \in Nat
  BY StreamAssumption DEF STypeOK, RowType, Attachment
<1>2. CASE row.ack < c.received
  <2>1. row' = [row EXCEPT !.ack = c.received, !.text = @ \o c.pending]
    BY <1>2 DEF FlushPending
  <2>2. /\ row'.ack = c.received /\ row'.text = row.text \o c.pending
        /\ row'.status = row.status
    BY <2>1, <1>1 DEF RowType
  <2>3. /\ row.text \o c.pending \in Text
        /\ Deltas(row'.text) = Deltas(row.text) \cup Deltas(c.pending)
    BY <2>2, <1>1, DeltasOfConcat
  <2>4. Deltas(row'.text) = 1 .. c.received
    <3>1. /\ Deltas(row.text) = 1 .. row.ack
          /\ Deltas(c.pending) \subseteq 1 .. c.received
          /\ (row.ack + 1) .. c.received \subseteq Deltas(c.pending)
      BY DEF AckedIsDurable, Covers
    <3>2. 1 .. c.received = (1 .. row.ack) \cup ((row.ack + 1) .. c.received)
      BY <1>1, <1>2
    <3> QED BY <2>3, <3>1, <3>2
  <2>5. row' \in RowType
    BY <2>1, <2>3, <1>1 DEF RowType
  <2> QED BY <2>2, <2>4, <2>5, <1>1, <1>2 DEF RowGrows
<1>3. CASE ~(row.ack < c.received)
  BY <1>1, <1>3 DEF FlushPending, RowGrows, AckedIsDurable
<1> QED BY <1>2, <1>3

LEMMA RowStays ==
  ASSUME STypeOK, AckedIsDurable, UNCHANGED row
  PROVE  RowGrows
BY StreamAssumption DEF STypeOK, AckedIsDurable, RowGrows, RowType

\* Sockets that are left alone still cover what is not durable.
LEMMA OthersCover ==
  ASSUME STypeOK, CopiesCover, RowGrows
  PROVE  /\ \A w \in Sockets : /\ attachment[w] \in Attachment
                               /\ Covers(row'.ack, attachment[w])
         /\ \A t \in Tasks : task[t].at = "fanout" =>
              task[t].copy \in Attachment /\ Covers(row'.ack, task[t].copy)
<1>1. row.ack \in Nat /\ row'.ack \in Nat /\ row.ack <= row'.ack
  BY StreamAssumption DEF STypeOK, RowGrows, RowType
<1>2. \A w \in Sockets : attachment[w] \in Attachment
  BY DEF STypeOK
<1>3. \A t \in Tasks : task[t].at = "fanout" => task[t].copy \in Attachment
  BY DEF STypeOK, Work, Idle
<1> QED BY <1>1, <1>2, <1>3, LaterCovers DEF CopiesCover

LEMMA SavedFlushed ==
  ASSUME STypeOK, AckedIsDurable, CopiesCover,
         NEW w \in Sockets, NEW c \in Attachment, NEW due \in SUBSET {"flush", "fanout", "expiry"},
         Covers(row.ack, c), SaveFlushed(w, c, due)
  PROVE  /\ RowGrows /\ SocketsCover
         /\ c.received <= row'.ack
         /\ jobs' \subseteq {"flush", "fanout", "expiry"}
<1>1. /\ c.pending \in Text /\ c.received \in 0 .. MaxSeq /\ row.ack \in 0 .. MaxSeq
      /\ MaxSeq \in Nat
  BY StreamAssumption DEF STypeOK, Attachment
<1>2. RowGrows /\ c.received <= row'.ack
  <2>1. CASE c.pending # <<>>
    BY <2>1, FlushGrows DEF SaveFlushed
  <2>2. CASE c.pending = <<>>
    <3>1. UNCHANGED row  BY <2>2 DEF SaveFlushed
    <3>2. c.received <= row.ack
      <4>1. (row.ack + 1) .. c.received \subseteq {}
        BY <2>2, NoDeltas DEF Covers
      <4> QED BY <4>1, <1>1
    <3> QED BY <3>1, <3>2, RowStays
  <2> QED BY <2>1, <2>2
<1>3. PICK e \in Attachment : e.pending = <<>> /\ e.received = c.received
                              /\ attachment' = [attachment EXCEPT ![w] = e]
  <2>1. c \in [pending : Text, received : 0 .. MaxSeq, fan : BOOLEAN]
    BY DEF Attachment
  <2>2. <<>> \in Text
    BY DEF Text
  <2>3. [c EXCEPT !.pending = <<>>] \in [pending : Text, received : 0 .. MaxSeq, fan : BOOLEAN]
    BY <2>1, <2>2
  <2>4. /\ [c EXCEPT !.pending = <<>>].pending = <<>>
        /\ [c EXCEPT !.pending = <<>>].received = c.received
    BY <2>1
  <2> QED BY <2>3, <2>4 DEF SaveFlushed, Attachment
<1>4. Covers(row'.ack, e)
  <2>1. row'.ack \in Nat
    BY <1>2, StreamAssumption DEF RowGrows, RowType
  <2> QED BY <1>1, <1>2, <1>3, <2>1, NoDeltas DEF Covers
<1>5. SocketsCover
  BY <1>2, <1>3, <1>4, OthersCover DEF SocketsCover, STypeOK
<1>6. jobs' \subseteq {"flush", "fanout", "expiry"}
  BY DEF SaveFlushed, AfterFlush
<1> QED BY <1>2, <1>5, <1>6

LEMMA SavedUnflushed ==
  ASSUME STypeOK, AckedIsDurable, CopiesCover,
         NEW w \in Sockets, NEW c \in Attachment, NEW due \in SUBSET {"flush", "fanout", "expiry"},
         Covers(row.ack, c), SaveUnflushed(w, c, due)
  PROVE  /\ RowGrows /\ SocketsCover
         /\ jobs' \subseteq {"flush", "fanout", "expiry"}
<1>1. UNCHANGED row /\ jobs' = due /\ attachment' = [attachment EXCEPT ![w] = c]
  BY DEF SaveUnflushed
<1>2. RowGrows
  BY <1>1, RowStays
<1>3. SocketsCover
  BY <1>1, <1>2, OthersCover DEF SocketsCover, STypeOK
<1> QED BY <1>1, <1>2, <1>3

LEMMA ThrownFlush ==
  ASSUME STypeOK, AckedIsDurable, CopiesCover,
         NEW t \in Tasks, NEW w \in Sockets, NEW c \in Attachment,
         NEW due \in SUBSET {"flush", "fanout", "expiry"},
         Covers(row.ack, c), FlushThrows(t, w, c, due)
  PROVE  /\ RowGrows /\ SocketsCover
         /\ jobs' \subseteq {"flush", "fanout", "expiry"}
         /\ alarm' \in BOOLEAN
         /\ task' = [task EXCEPT ![t] = Idle]
<1>1. RowGrows
  BY FlushGrows DEF FlushThrows
<1>2. SocketsCover
  BY <1>1, OthersCover DEF FlushThrows, SocketsCover, STypeOK
<1> QED BY <1>1, <1>2 DEF FlushThrows, Dies, AfterFlush, STypeOK

-----------------------------------------------------------------------------
(* A step keeps the invariant if what it writes is safe.                   *)

\* What a handler holds after a step.
SafeTask(x) == /\ x \in Work \cup {Idle}
               /\ x.at = "fanout" => Covers(row'.ack, x.copy)
               /\ x.at \in {"finalizing", "finalized"} => Deltas(x.text) = 1 .. x.seq
               /\ x.at = "finalized" => registry' = "finalized"
               /\ x.at = "abandoned" => registry' # "streaming"

OthersTyped == /\ expired' \in BOOLEAN
               /\ jobs' \subseteq {"flush", "fanout", "expiry"}
               /\ alarm' \in BOOLEAN
               /\ conn' \in [Sockets -> {"new", "open", "closing", "gone"}]
               /\ faults' \in 0 .. MaxFaults

ChannelSettles ==
  /\ registry' \in {"streaming", "finalized", "abandoned"}
  /\ message' \in [state : {"none", "final", "abandoned"}, text : Text, seq : 0 .. MaxSeq]
  /\ registry # "streaming" => registry' = registry
  /\ FinalIsComplete'

LEMMA StepKeeps ==
  ASSUME SInv,
         row' \in RowType, Deltas(row'.text) = 1 .. row'.ack, row.ack <= row'.ack,
         RowFollowsRegistry', SocketsCover, OthersTyped, ChannelSettles,
         task' \in [Tasks -> Work \cup {Idle}],
         \A t \in Tasks : task'[t] = task[t] \/ SafeTask(task'[t])
  PROVE  SInv'
<1>1. STypeOK'
  BY DEF STypeOK, RowType, SocketsCover, OthersTyped, ChannelSettles
<1>2. AckedIsDurable'
  BY DEF AckedIsDurable
<1>3. CopiesCover'
  <2>1. ASSUME NEW t \in Tasks, task'[t].at = "fanout"  PROVE Covers(row'.ack, task'[t].copy)
    <3>1. CASE SafeTask(task'[t])
      BY <2>1, <3>1 DEF SafeTask
    <3>2. CASE task'[t] = task[t]
      <4>1. row.ack \in Nat /\ row'.ack \in Nat
        BY StreamAssumption DEF SInv, STypeOK, RowType
      <4>2. task[t].copy \in Attachment
        BY <2>1, <3>2 DEF SInv, STypeOK, Work, Idle
      <4>3. Covers(row.ack, task[t].copy)
        BY <2>1, <3>2 DEF SInv, CopiesCover
      <4>4. Covers(row'.ack, task[t].copy)
        BY <4>1, <4>2, <4>3, LaterCovers
      <4> QED BY <3>2, <4>4
    <3> QED BY <3>1, <3>2
  <2> QED BY <2>1 DEF CopiesCover, SocketsCover
<1>4. HandlersKnow'
  <2>1. ASSUME NEW t \in Tasks
        PROVE  /\ task'[t].at \in {"finalizing", "finalized"} => Deltas(task'[t].text) = 1 .. task'[t].seq
               /\ task'[t].at = "finalized" => registry' = "finalized"
               /\ task'[t].at = "abandoned" => registry' # "streaming"
    <3>1. CASE SafeTask(task'[t])
      BY <3>1 DEF SafeTask
    <3>2. CASE task'[t] = task[t]
      BY <3>2 DEF SInv, HandlersKnow, ChannelSettles
    <3> QED BY <3>1, <3>2
  <2> QED BY <2>1 DEF HandlersKnow
<1> QED BY <1>1, <1>2, <1>3, <1>4 DEF SInv, ChannelSettles

\* The channel's side and the row's status are left as they are.
LEMMA ChannelStays ==
  ASSUME SInv, UNCHANGED channel
  PROVE  /\ ChannelSettles
         /\ row'.status = row.status => RowFollowsRegistry'
BY DEF SInv, STypeOK, channel, ChannelSettles, FinalIsComplete, RowFollowsRegistry

\* The connection's tables and sockets are left as they are.
LEMMA StoreStays ==
  ASSUME SInv, UNCHANGED <<row, attachment>>
  PROVE  RowGrows /\ SocketsCover
<1>1. RowGrows
  BY RowStays DEF SInv
<1>2. SocketsCover
  BY <1>1, OthersCover DEF SInv, STypeOK, SocketsCover
<1> QED BY <1>1, <1>2

\* One handler goes on, and the channel's tables stay.
LEMMA HandlerKeeps ==
  ASSUME SInv, NEW t \in Tasks, NEW x, task' = [task EXCEPT ![t] = x], SafeTask(x),
         RowGrows, SocketsCover, OthersTyped, UNCHANGED channel
  PROVE  SInv'
<1>1. task \in [Tasks -> Work \cup {Idle}] /\ x \in Work \cup {Idle}
  BY DEF SInv, STypeOK, SafeTask
<1>2. /\ task' \in [Tasks -> Work \cup {Idle}]
      /\ \A s \in Tasks : task'[s] = task[s] \/ SafeTask(task'[s])
  BY <1>1
<1>3. RowFollowsRegistry' /\ ChannelSettles
  BY ChannelStays DEF RowGrows
<1> QED BY <1>2, <1>3, StepKeeps DEF RowGrows

LEMMA IdleIsSafe == SafeTask(Idle)
BY DEF SafeTask, Idle

\* The copy of a handler that awaits ChannelFanout.
LEMMA CopyHeld ==
  ASSUME SInv, NEW t \in Tasks, task[t].at = "fanout"
  PROVE  /\ task[t].w \in Sockets
         /\ task[t].todo \subseteq Sockets
         /\ task[t].copy \in Attachment
         /\ Copy(t) \in Attachment
         /\ Covers(row.ack, task[t].copy)
         /\ Covers(row.ack, Copy(t))
<1>1. task[t] \in Work \cup {Idle}
  BY DEF SInv, STypeOK
<1>2. /\ task[t].w \in Sockets
      /\ task[t].todo \subseteq Sockets
      /\ task[t].copy \in [pending : Text, received : 0 .. MaxSeq, fan : BOOLEAN]
  BY <1>1 DEF Work, Idle, Attachment
<1>3. /\ Copy(t) \in [pending : Text, received : 0 .. MaxSeq, fan : BOOLEAN]
      /\ Copy(t).pending = task[t].copy.pending
      /\ Copy(t).received = task[t].copy.received
  BY <1>2 DEF Copy
<1>4. Covers(row.ack, task[t].copy)
  BY DEF SInv, CopiesCover
<1> QED BY <1>2, <1>3, <1>4 DEF Covers, Attachment

LEMMA AwaitIsSafe ==
  ASSUME NEW w \in Sockets, NEW c \in Attachment, Covers(row'.ack, c),
         NEW then \in {"append", "finalize", "expiry", "alarm"}, NEW todo \in SUBSET Sockets
  PROVE  SafeTask([at |-> "fanout", then |-> then, w |-> w, copy |-> c, todo |-> todo])
BY DEF SafeTask, Work

-----------------------------------------------------------------------------
(* The steps of BotStream.                                                 *)

LEMMA SInitKeeps == ASSUME SInit PROVE SInv
<1>1. <<>> \in Text
  BY DEF Text
<1>2. 0 \in 0 .. MaxSeq /\ 0 \in 0 .. MaxFaults
  BY StreamAssumption
<1>3. STypeOK
  BY <1>1, <1>2 DEF SInit, STypeOK, NoMessage, NoRow, Fresh, Attachment
<1>4. AckedIsDurable
  BY NoDeltas DEF SInit, NoRow, AckedIsDurable
<1>5. \A w \in Sockets : Covers(row.ack, attachment[w])
  BY NoDeltas DEF SInit, NoRow, Fresh, Covers
<1>6. CopiesCover /\ HandlersKnow
  BY <1>5 DEF SInit, CopiesCover, HandlersKnow, Idle
<1>7. RowFollowsRegistry /\ FinalIsComplete
  BY DEF SInit, RowFollowsRegistry, FinalIsComplete, NoRow, NoMessage
<1> QED BY <1>3, <1>4, <1>6, <1>7 DEF SInv

LEMMA ConnectKeeps ==
  ASSUME SInv, NEW w \in Sockets, Connect(w)
  PROVE  SInv'
<1>1. /\ row \in RowType /\ row.ack \in 0 .. MaxSeq /\ MaxSeq \in Nat
      /\ attachment \in [Sockets -> Attachment]
      /\ task \in [Tasks -> Work \cup {Idle}]
  BY StreamAssumption DEF SInv, STypeOK, RowType
<1>2. row' \in RowType /\ row'.ack = row.ack /\ row'.text = row.text
  BY <1>1 DEF Connect, RowType
<1>3. Deltas(row'.text) = 1 .. row'.ack /\ row.ack <= row'.ack
  BY <1>1, <1>2 DEF SInv, AckedIsDurable
<1>4. RowFollowsRegistry'
  BY <1>1 DEF Connect, SInv, RowFollowsRegistry, NoRow, channel, RowType
<1>5. SocketsCover
  <2>1. /\ Fresh(row.ack) \in Attachment
        /\ Covers(row.ack, Fresh(row.ack))
    BY <1>1, NoDeltas DEF Fresh, Attachment, Text, Covers
  <2>2. attachment' = [attachment EXCEPT ![w] = Fresh(row.ack)]
    BY DEF Connect
  <2> HIDE DEF Fresh
  <2>3. \A v \in Sockets : Covers(row.ack, attachment'[v])
    BY <1>1, <2>1, <2>2 DEF SInv, CopiesCover
  <2> QED BY <1>1, <1>2, <2>1, <2>2, <2>3 DEF SocketsCover
<1>6. OthersTyped
  BY DEF Connect, SInv, STypeOK, OthersTyped, Closing
<1>7. ChannelSettles
  BY ChannelStays DEF Connect
<1>8. UNCHANGED task
  BY DEF Connect
<1> QED BY <1>1, <1>2, <1>3, <1>4, <1>5, <1>6, <1>7, <1>8, StepKeeps

LEMMA GoneKeeps ==
  ASSUME SInv, NEW w \in Sockets, Gone(w)
  PROVE  SInv'
<1>1. UNCHANGED <<channel, row, attachment, task>>
  BY DEF Gone, store
<1>2. OthersTyped
  BY DEF Gone, SInv, STypeOK, OthersTyped, store
<1>3. RowGrows /\ SocketsCover /\ ChannelSettles /\ RowFollowsRegistry'
  BY <1>1, StoreStays, ChannelStays
<1>4. task' \in [Tasks -> Work \cup {Idle}]
  BY <1>1 DEF SInv, STypeOK
<1> QED BY <1>1, <1>2, <1>3, <1>4, StepKeeps DEF RowGrows

LEMMA ExpiresKeeps ==
  ASSUME SInv, Expires
  PROVE  SInv'
<1>1. UNCHANGED <<channel, row, attachment, task>>
  BY DEF Expires, store, ws
<1>2. OthersTyped
  BY DEF Expires, SInv, STypeOK, OthersTyped, store, ws
<1>3. RowGrows /\ SocketsCover /\ ChannelSettles /\ RowFollowsRegistry'
  BY <1>1, StoreStays, ChannelStays
<1>4. task' \in [Tasks -> Work \cup {Idle}]
  BY <1>1 DEF SInv, STypeOK
<1> QED BY <1>1, <1>2, <1>3, <1>4, StepKeeps DEF RowGrows

LEMMA CrashKeeps ==
  ASSUME SInv, Crash
  PROVE  SInv'
<1>1. UNCHANGED <<channel, row, attachment>> /\ task' = [t \in Tasks |-> Idle]
  BY DEF Crash, store
<1>2. OthersTyped
  BY StreamAssumption DEF Crash, Fault, SInv, STypeOK, OthersTyped, store, WebSockets
<1>3. RowGrows /\ SocketsCover /\ ChannelSettles /\ RowFollowsRegistry'
  BY <1>1, StoreStays, ChannelStays
<1>4. /\ task' \in [Tasks -> Work \cup {Idle}]
      /\ \A t \in Tasks : SafeTask(task'[t])
  BY <1>1, IdleIsSafe
<1> QED BY <1>2, <1>3, <1>4, StepKeeps DEF RowGrows

LEMMA AppendRestKeeps ==
  ASSUME SInv, NEW t \in Tasks, NEW w \in Sockets, NEW c \in Attachment, Covers(row.ack, c),
         NEW due \in SUBSET {"flush", "fanout", "expiry"}, AppendRest(t, w, c, due)
  PROVE  SInv'
<1>1. /\ STypeOK /\ AckedIsDurable /\ CopiesCover
      /\ UNCHANGED <<channel, expired, conn, faults>>
  BY DEF SInv, AppendRest
<1>2. /\ RowGrows /\ SocketsCover
      /\ jobs' \subseteq {"flush", "fanout", "expiry"}
      /\ alarm' \in BOOLEAN
      /\ task' = [task EXCEPT ![t] = Idle]
  <2>1. CASE FlushThrows(t, w, c, due)
    BY <1>1, <2>1, ThrownFlush
  <2>2. CASE SaveFlushed(w, c, due) /\ ~FlushThrows(t, w, c, due)
    BY <1>1, <2>2, SavedFlushed DEF AppendRest
  <2>3. CASE SaveUnflushed(w, c, due \cup {"flush"}) /\ ~FlushThrows(t, w, c, due)
    BY <1>1, <2>3, SavedUnflushed DEF AppendRest
  <2> QED BY <2>1, <2>2, <2>3 DEF AppendRest
<1>3. OthersTyped
  BY <1>1, <1>2 DEF STypeOK, OthersTyped
<1> QED BY <1>1, <1>2, <1>3, IdleIsSafe, HandlerKeeps

LEMMA HandleAppendKeeps ==
  ASSUME SInv, NEW t \in Handlers, NEW w \in Sockets, HandleAppend(t, w)
  PROVE  SInv'
<1>1. t \in Tasks
  BY DEF Tasks
<1>2. PICK old \in Attachment : old = attachment[w]
  BY DEF SInv, STypeOK
<1>3. PICK c \in [pending : Text, received : 0 .. MaxSeq, fan : BOOLEAN] :
        /\ c = [pending |-> Append(old.pending, old.received + 1),
                received |-> old.received + 1, fan |-> TRUE]
        /\ Covers(row.ack, c)
  <2>1. /\ old.pending \in Text /\ old.received \in 0 .. MaxSeq
        /\ old.received + 1 <= MaxSeq /\ MaxSeq \in Nat
        /\ row.ack \in 0 .. MaxSeq
        /\ Covers(row.ack, old)
    BY <1>2, StreamAssumption DEF HandleAppend, Accepts, Attachment, SInv, CopiesCover, STypeOK
  <2>2. old.received + 1 \in 1 .. MaxSeq
    BY <2>1
  <2>3. PICK p \in Text : /\ p = Append(old.pending, old.received + 1)
                          /\ Deltas(p) = Deltas(old.pending) \cup {old.received + 1}
    BY <2>1, <2>2, DeltasOfAppend
  <2>4. /\ Deltas(p) \subseteq 1 .. (old.received + 1)
        /\ (row.ack + 1) .. (old.received + 1) \subseteq Deltas(p)
    BY <2>1, <2>3 DEF Covers
  <2>5. PICK d : d = [pending |-> p, received |-> old.received + 1, fan |-> TRUE]
    OBVIOUS
  <2>6. d \in [pending : Text, received : 0 .. MaxSeq, fan : BOOLEAN]
    <3>1. old.received + 1 \in 0 .. MaxSeq
      BY <2>1
    <3> QED BY <2>5, <3>1
  <2>7. Covers(row.ack, d)
    BY <2>4, <2>5 DEF Covers
  <2> QED BY <2>3, <2>5, <2>6, <2>7
<1>4. PICK due \in SUBSET {"flush", "fanout", "expiry"} :
        due = IF old.fan THEN jobs ELSE jobs \cup {"fanout"}
  BY DEF SInv, STypeOK
<1>5. CASE AppendRest(t, w, c, due)
  BY <1>1, <1>3, <1>5, AppendRestKeeps DEF Attachment
<1>6. CASE /\ jobs' = due
           /\ AwaitFanout(t, w, c, "append", {})
           /\ UNCHANGED <<channel, expired, row, alarm, ws, faults>>
  <2>1. RowGrows /\ SocketsCover
    BY <1>6, StoreStays DEF ws
  <2>2. OthersTyped
    BY <1>6 DEF SInv, STypeOK, OthersTyped, ws
  <2>3. SafeTask([at |-> "fanout", then |-> "append", w |-> w, copy |-> c, todo |-> {}])
    BY <1>3, <1>6, AwaitIsSafe DEF Attachment
  <2> QED BY <1>1, <1>6, <2>1, <2>2, <2>3, HandlerKeeps DEF AwaitFanout
<1> QED BY <1>2, <1>3, <1>4, <1>5, <1>6 DEF HandleAppend

LEMMA AppendShownKeeps ==
  ASSUME SInv, NEW t \in Tasks, AppendShown(t)
  PROVE  SInv'
<1>1. task[t].at = "fanout" /\ AppendRest(t, task[t].w, Copy(t), Due)
  BY DEF AppendShown, Shown
<1>2. PICK c \in Attachment : c = Copy(t) /\ Covers(row.ack, c)
  BY <1>1, CopyHeld
<1>3. PICK w \in Sockets : w = task[t].w
  BY <1>1, CopyHeld
<1>4. PICK due \in SUBSET {"flush", "fanout", "expiry"} : due = Due
  BY DEF SInv, STypeOK, Due
<1> QED BY <1>1, <1>2, <1>3, <1>4, AppendRestKeeps

LEMMA FinalizeRestKeeps ==
  ASSUME SInv, NEW t \in Tasks, NEW w \in Sockets, NEW c \in Attachment, Covers(row.ack, c),
         NEW due \in SUBSET {"flush", "fanout", "expiry"}, FinalizeRest(t, w, c, due)
  PROVE  SInv'
<1>1. /\ STypeOK /\ AckedIsDurable /\ CopiesCover
      /\ UNCHANGED <<channel, expired, conn, faults>>
  BY DEF SInv, FinalizeRest
<1>2. CASE FlushThrows(t, w, c, due)
  <2>1. /\ RowGrows /\ SocketsCover
        /\ jobs' \subseteq {"flush", "fanout", "expiry"}
        /\ alarm' \in BOOLEAN
        /\ task' = [task EXCEPT ![t] = Idle]
    BY <1>1, <1>2, ThrownFlush
  <2>2. OthersTyped
    BY <1>1, <2>1 DEF STypeOK, OthersTyped
  <2> QED BY <1>1, <2>1, <2>2, IdleIsSafe, HandlerKeeps
<1>3. CASE ~FlushThrows(t, w, c, due)
  <2>1. SaveFlushed(w, c, due) /\ UNCHANGED alarm
    BY <1>3 DEF FinalizeRest
  <2>2. /\ RowGrows /\ SocketsCover
        /\ jobs' \subseteq {"flush", "fanout", "expiry"}
    BY <1>1, <2>1, SavedFlushed
  <2>3. OthersTyped
    BY <1>1, <2>1, <2>2 DEF STypeOK, OthersTyped
  <2>4. PICK x : x = IF MayFinalize(c)
                     THEN [at |-> "finalizing", then |-> "close", w |-> w,
                           text |-> row'.text, seq |-> c.received]
                     ELSE Idle
    OBVIOUS
  <2>5. SafeTask(x)
    <3>1. CASE MayFinalize(c)
      <4>1. /\ x = [at |-> "finalizing", then |-> "close", w |-> w,
                    text |-> row'.text, seq |-> c.received]
            /\ row'.text \in Text /\ c.received \in 0 .. MaxSeq
            /\ Deltas(row'.text) = 1 .. c.received
        BY <2>2, <2>4, <3>1 DEF MayFinalize, RowGrows, RowType, Attachment
      <4>2. x \in Work
        BY <4>1 DEF Work
      <4> QED BY <4>1, <4>2 DEF SafeTask
    <3>2. CASE ~MayFinalize(c)
      BY <2>4, <3>2, IdleIsSafe
    <3> QED BY <3>1, <3>2
  <2>6. task' = [task EXCEPT ![t] = x]
    BY <1>3, <2>4 DEF FinalizeRest
  <2> QED BY <1>1, <2>2, <2>3, <2>5, <2>6, HandlerKeeps
<1> QED BY <1>2, <1>3

LEMMA HandleFinalizeKeeps ==
  ASSUME SInv, NEW t \in Handlers, NEW w \in Sockets, HandleFinalize(t, w)
  PROVE  SInv'
<1>1. t \in Tasks
  BY DEF Tasks
<1>2. PICK c \in Attachment : c = attachment[w] /\ Covers(row.ack, c)
  BY DEF SInv, STypeOK, CopiesCover
<1>3. CASE FinalizeRest(t, w, c, jobs)
  <2>1. PICK due \in SUBSET {"flush", "fanout", "expiry"} : due = jobs
    BY DEF SInv, STypeOK
  <2> QED BY <1>1, <1>2, <1>3, <2>1, FinalizeRestKeeps
<1>4. CASE /\ AwaitFanout(t, w, c, "finalize", {})
           /\ UNCHANGED <<channel, expired, store, alarm, ws, faults>>
  <2>1. RowGrows /\ SocketsCover
    BY <1>4, StoreStays DEF ws, store
  <2>2. OthersTyped
    BY <1>4 DEF SInv, STypeOK, OthersTyped, ws, store
  <2>3. SafeTask([at |-> "fanout", then |-> "finalize", w |-> w, copy |-> c, todo |-> {}])
    BY <1>2, <1>4, AwaitIsSafe DEF store
  <2> QED BY <1>1, <1>4, <2>1, <2>2, <2>3, HandlerKeeps DEF AwaitFanout
<1> QED BY <1>2, <1>3, <1>4 DEF HandleFinalize

LEMMA FinalizeShownKeeps ==
  ASSUME SInv, NEW t \in Tasks, FinalizeShown(t)
  PROVE  SInv'
<1>1. task[t].at = "fanout" /\ FinalizeRest(t, task[t].w, Copy(t), Due)
  BY DEF FinalizeShown, Shown
<1>2. PICK c \in Attachment : c = Copy(t) /\ Covers(row.ack, c)
  BY <1>1, CopyHeld
<1>3. PICK w \in Sockets : w = task[t].w
  BY <1>1, CopyHeld
<1>4. PICK due \in SUBSET {"flush", "fanout", "expiry"} : due = Due
  BY DEF SInv, STypeOK, Due
<1> QED BY <1>1, <1>2, <1>3, <1>4, FinalizeRestKeeps

LEMMA ReplayFinalizeKeeps ==
  ASSUME SInv, NEW t \in Handlers, NEW w \in Sockets, ReplayFinalize(t, w)
  PROVE  SInv'
<1>1. t \in Tasks
  BY DEF Tasks
<1>2. /\ UNCHANGED <<channel, row, attachment>>
      /\ OthersTyped
  BY DEF ReplayFinalize, store, ws, SInv, STypeOK, OthersTyped
<1>3. RowGrows /\ SocketsCover
  BY <1>2, StoreStays
<1>4. PICK x : x = [at |-> "finalizing", then |-> "replay", w |-> w,
                    text |-> row.text, seq |-> row.ack]
  OBVIOUS
<1>5. x \in Work /\ Deltas(x.text) = 1 .. x.seq
  BY <1>4 DEF Work, SInv, STypeOK, AckedIsDurable
<1>6. SafeTask(x)
  BY <1>4, <1>5 DEF SafeTask
<1> QED BY <1>1, <1>2, <1>3, <1>4, <1>6, HandlerKeeps DEF ReplayFinalize

\* What a task at a later point holds.
LEMMA TaskTyped ==
  ASSUME SInv, NEW t \in Tasks
  PROVE  /\ task[t].at \in {"finalizing", "finalized"} =>
              task[t] \in [at : {"finalizing", "finalized"}, then : {"close", "replay"},
                           w : Sockets, text : Text, seq : 0 .. MaxSeq]
         /\ task[t].at \in {"abandoning", "abandoned"} =>
              task[t] \in [at : {"abandoning", "abandoned"}, text : Text,
                           status : {"none", "streaming", "finalized", "abandoned"}]
         /\ task[t].at \in {"visiting", "expiring"} =>
              task[t] \in [at : {"visiting", "expiring"}, todo : SUBSET Sockets]
<1>1. task[t] \in Work \cup {Idle}
  BY DEF SInv, STypeOK
<1> QED BY <1>1 DEF Work, Idle

LEMMA ExpiryGoesOn ==
  ASSUME NEW t \in Tasks, ExpiryEnds(t)
  PROVE  \E x : task' = [task EXCEPT ![t] = x] /\ SafeTask(x)
<1>1. WebSockets \subseteq Sockets
  BY DEF WebSockets
<1>2. CASE t = AlarmTask
  <2>1. PICK x : x = [at |-> "visiting", todo |-> WebSockets]
    OBVIOUS
  <2>2. SafeTask(x)
    BY <1>1, <2>1 DEF SafeTask, Work
  <2> QED BY <1>2, <2>1, <2>2 DEF ExpiryEnds
<1>3. CASE t # AlarmTask
  BY <1>3, IdleIsSafe DEF ExpiryEnds
<1> QED BY <1>2, <1>3

LEMMA StreamFinalizeKeeps ==
  ASSUME SInv, NEW t \in Tasks, StreamFinalize(t)
  PROVE  SInv'
<1>1. /\ task[t].at = "finalizing"
      /\ task[t] \in [at : {"finalizing", "finalized"}, then : {"close", "replay"},
                      w : Sockets, text : Text, seq : 0 .. MaxSeq]
      /\ Deltas(task[t].text) = 1 .. task[t].seq
  BY TaskTyped DEF StreamFinalize, SInv, HandlersKnow
<1>2. UNCHANGED <<row, attachment>> /\ OthersTyped
  BY DEF StreamFinalize, store, ws, SInv, STypeOK, OthersTyped
<1>3. RowGrows /\ SocketsCover
  BY <1>2, StoreStays
<1>4. PICK y : y = [task[t] EXCEPT !.at = "finalized"]
  OBVIOUS
<1>5. /\ y \in [at : {"finalizing", "finalized"}, then : {"close", "replay"},
                w : Sockets, text : Text, seq : 0 .. MaxSeq]
      /\ y.at = "finalized" /\ y.text = task[t].text /\ y.seq = task[t].seq
  BY <1>1, <1>4
<1>6. ASSUME registry' = "finalized"  PROVE SafeTask(y)
  BY <1>1, <1>5, <1>6 DEF SafeTask, Work
<1>7. task \in [Tasks -> Work \cup {Idle}]
  BY DEF SInv, STypeOK
<1>8. PICK ask : ask = [state |-> "final", text |-> task[t].text, seq |-> task[t].seq]
  OBVIOUS
<1>9. CASE /\ registry = "streaming"
           /\ registry' = "finalized"
           /\ message' = ask
           /\ task' = [task EXCEPT ![t].at = "finalized"]
  <2>1. task' = [task EXCEPT ![t] = y]
    BY <1>4, <1>9
  <2>2. /\ task' \in [Tasks -> Work \cup {Idle}]
        /\ \A s \in Tasks : task'[s] = task[s] \/ SafeTask(task'[s])
    BY <1>6, <1>7, <1>9, <2>1 DEF SafeTask
  <2>3. ChannelSettles
    BY <1>1, <1>8, <1>9 DEF ChannelSettles, FinalIsComplete
  <2>4. RowFollowsRegistry'
    BY <1>2, <1>9 DEF SInv, RowFollowsRegistry
  <2> QED BY <1>2, <1>3, <2>2, <2>3, <2>4, StepKeeps DEF RowGrows
<1>10. CASE /\ registry = "finalized" /\ message = ask
            /\ task' = [task EXCEPT ![t].at = "finalized"]
            /\ UNCHANGED channel
  <2>1. SafeTask(y) /\ task' = [task EXCEPT ![t] = y]
    BY <1>4, <1>6, <1>10 DEF channel
  <2> QED BY <1>2, <1>3, <1>10, <2>1, HandlerKeeps
<1>11. CASE /\ task' = [task EXCEPT ![t] = Idle]
            /\ UNCHANGED channel
  BY <1>2, <1>3, <1>11, IdleIsSafe, HandlerKeeps
<1> QED BY <1>8, <1>9, <1>10, <1>11 DEF StreamFinalize

LEMMA FinalizeReturnsKeeps ==
  ASSUME SInv, NEW t \in Tasks, FinalizeReturns(t)
  PROVE  SInv'
<1>1. registry = "finalized" /\ UNCHANGED channel
  BY DEF FinalizeReturns, SInv, HandlersKnow
<1>2. /\ row \in RowType /\ row.ack \in 0 .. MaxSeq /\ MaxSeq \in Nat
  BY StreamAssumption DEF SInv, STypeOK, RowType
<1>3. /\ row' \in RowType /\ row'.ack = row.ack /\ row'.text = row.text
      /\ row'.status \in {row.status, "finalized"}
  BY <1>2 DEF FinalizeReturns, RowType, store
<1>4. Deltas(row'.text) = 1 .. row'.ack /\ row.ack <= row'.ack
  BY <1>2, <1>3 DEF SInv, AckedIsDurable
<1>5. RowFollowsRegistry'
  BY <1>1, <1>3 DEF SInv, RowFollowsRegistry, channel
<1>6. SocketsCover
  BY <1>3 DEF FinalizeReturns, SInv, STypeOK, CopiesCover, SocketsCover
<1>7. OthersTyped
  BY DEF FinalizeReturns, SInv, STypeOK, OthersTyped, Closing, store
<1>8. ChannelSettles
  BY <1>1, ChannelStays
<1>9. /\ task' \in [Tasks -> Work \cup {Idle}]
      /\ \A s \in Tasks : task'[s] = task[s] \/ SafeTask(task'[s])
  BY IdleIsSafe DEF FinalizeReturns, SInv, STypeOK
<1> QED BY <1>3, <1>4, <1>5, <1>6, <1>7, <1>8, <1>9, StepKeeps

\* A handler of the connection goes on to a point where it holds no text.
LEMMA TodoIsSafe ==
  ASSUME NEW todo \in SUBSET Sockets, NEW at \in {"visiting", "expiring"}
  PROVE  SafeTask([at |-> at, todo |-> todo])
BY DEF SafeTask, Work

LEMMA ExpiryVisitKeeps ==
  ASSUME SInv, NEW t \in Tasks, NEW w \in Sockets, ExpiryVisit(t, w)
  PROVE  SInv'
<1>1. /\ STypeOK /\ AckedIsDurable /\ CopiesCover
      /\ UNCHANGED <<channel, expired, conn, faults>>
      /\ task[t].at = "expiring"
  BY DEF SInv, ExpiryVisit
<1>2. PICK c \in Attachment : c = attachment[w] /\ Covers(row.ack, c)
  BY <1>1 DEF STypeOK, CopiesCover
<1>3. PICK due \in SUBSET {"flush", "fanout", "expiry"} : due = jobs
  BY <1>1 DEF STypeOK
<1>4. task[t] \in [at : {"visiting", "expiring"}, todo : SUBSET Sockets]
  BY <1>1, TaskTyped
<1>5. PICK todo \in SUBSET Sockets : todo = task[t].todo \ {w}
  BY <1>4
<1>6. CASE FlushThrows(t, w, c, due)
  <2>1. /\ RowGrows /\ SocketsCover
        /\ jobs' \subseteq {"flush", "fanout", "expiry"}
        /\ alarm' \in BOOLEAN
        /\ task' = [task EXCEPT ![t] = Idle]
    BY <1>1, <1>2, <1>6, ThrownFlush
  <2>2. OthersTyped
    BY <1>1, <2>1 DEF STypeOK, OthersTyped
  <2> QED BY <1>1, <2>1, <2>2, IdleIsSafe, HandlerKeeps
<1>7. CASE ~FlushThrows(t, w, c, due)
  <2>1. SaveFlushed(w, c, due) /\ UNCHANGED alarm
    BY <1>2, <1>3, <1>7 DEF ExpiryVisit
  <2>2. /\ RowGrows /\ SocketsCover
        /\ c.received <= row'.ack
        /\ jobs' \subseteq {"flush", "fanout", "expiry"}
    BY <1>1, <1>2, <2>1, SavedFlushed
  <2>3. OthersTyped
    BY <1>1, <2>1, <2>2 DEF STypeOK, OthersTyped
  <2>4. CASE c.fan
    <3>1. PICK d : d = [c EXCEPT !.pending = <<>>]
      OBVIOUS
    <3>2. /\ c \in [pending : Text, received : 0 .. MaxSeq, fan : BOOLEAN]
          /\ <<>> \in Text
      BY DEF Attachment, Text
    <3>3. /\ d \in [pending : Text, received : 0 .. MaxSeq, fan : BOOLEAN]
          /\ d.pending = <<>> /\ d.received = c.received
      BY <3>1, <3>2
    <3>4. Covers(row'.ack, d)
      <4>1. row'.ack \in Nat /\ c.received \in Nat
        BY <2>2, <3>2, StreamAssumption DEF RowGrows, RowType
      <4> QED BY <2>2, <3>3, <4>1, NoDeltas DEF Covers
    <3>5. SafeTask([at |-> "fanout", then |-> "expiry", w |-> w, copy |-> d, todo |-> todo])
      BY <3>3, <3>4, AwaitIsSafe DEF Attachment
    <3>6. task' = [task EXCEPT ![t] =
                     [at |-> "fanout", then |-> "expiry", w |-> w, copy |-> d, todo |-> todo]]
      BY <1>2, <1>3, <1>5, <1>7, <2>4, <3>1 DEF ExpiryVisit, AwaitFanout
    <3> QED BY <1>1, <2>2, <2>3, <3>5, <3>6, HandlerKeeps
  <2>5. CASE ~c.fan
    <3>1. task' = [task EXCEPT ![t].todo = @ \ {w}]
      BY <1>2, <1>3, <1>7, <2>5 DEF ExpiryVisit
    <3>2. task' = [task EXCEPT ![t] = [at |-> "expiring", todo |-> todo]]
      <4>1. [task[t] EXCEPT !.todo = @ \ {w}] = [at |-> "expiring", todo |-> todo]
        BY <1>1, <1>4, <1>5
      <4> QED BY <3>1, <4>1
    <3> QED BY <1>1, <2>2, <2>3, <3>2, TodoIsSafe, HandlerKeeps
  <2> QED BY <2>4, <2>5
<1> QED BY <1>6, <1>7

LEMMA ExpiryShownKeeps ==
  ASSUME SInv, NEW t \in Tasks, ExpiryShown(t)
  PROVE  SInv'
<1>1. task[t].at = "fanout"
  BY DEF ExpiryShown, Shown
<1>2. PICK c \in Attachment : c = Copy(t) /\ Covers(row.ack, c)
  BY <1>1, CopyHeld
<1>3. PICK w \in Sockets : w = task[t].w
  BY <1>1, CopyHeld
<1>4. PICK todo \in SUBSET Sockets : todo = task[t].todo
  BY <1>1, CopyHeld
<1>5. /\ UNCHANGED <<channel, row>>
      /\ attachment' = [attachment EXCEPT ![w] = c]
      /\ task' = [task EXCEPT ![t] = [at |-> "expiring", todo |-> todo]]
  BY <1>2, <1>3, <1>4 DEF ExpiryShown
<1>6. RowGrows
  BY <1>5, RowStays DEF SInv
<1>7. SocketsCover
  BY <1>2, <1>5 DEF SInv, STypeOK, CopiesCover, SocketsCover
<1>8. OthersTyped
  BY DEF ExpiryShown, SInv, STypeOK, OthersTyped, Due
<1> QED BY <1>5, <1>6, <1>7, <1>8, TodoIsSafe, HandlerKeeps

LEMMA ExpiryReadKeeps ==
  ASSUME SInv, NEW t \in Tasks, ExpiryRead(t)
  PROVE  SInv'
<1>1. UNCHANGED <<channel, row, attachment>> /\ OthersTyped
  BY DEF ExpiryRead, store, ws, SInv, STypeOK, OthersTyped
<1>2. PICK x : x = [at |-> "abandoning", text |-> row.text, status |-> row.status]
  OBVIOUS
<1>3. SafeTask(x)
  BY <1>2 DEF SafeTask, Work, SInv, STypeOK
<1> QED BY <1>1, <1>2, <1>3, StoreStays, HandlerKeeps DEF ExpiryRead

LEMMA StreamAbandonKeeps ==
  ASSUME SInv, NEW t \in Tasks, StreamAbandon(t)
  PROVE  SInv'
<1>1. /\ task[t].at = "abandoning"
      /\ task[t] \in [at : {"abandoning", "abandoned"}, text : Text,
                      status : {"none", "streaming", "finalized", "abandoned"}]
  BY TaskTyped DEF StreamAbandon
<1>2. UNCHANGED <<row, attachment>> /\ OthersTyped
  BY DEF StreamAbandon, store, ws, SInv, STypeOK, OthersTyped
<1>3. RowGrows /\ SocketsCover
  BY <1>2, StoreStays
<1>4. PICK y : y = [task[t] EXCEPT !.at = "abandoned"]
  OBVIOUS
<1>5. /\ y \in [at : {"abandoning", "abandoned"}, text : Text,
                status : {"none", "streaming", "finalized", "abandoned"}]
      /\ y.at = "abandoned"
  BY <1>1, <1>4
<1>6. ASSUME registry' = "abandoned"  PROVE SafeTask(y)
  BY <1>5, <1>6 DEF SafeTask, Work
<1>7. task \in [Tasks -> Work \cup {Idle}]
  BY DEF SInv, STypeOK
<1>8. CASE MayAbandon
  <2>1. /\ RecordAbandon(task[t].text)
        /\ task' = [task EXCEPT ![t] = y]
    BY <1>4, <1>8 DEF StreamAbandon
  <2>2. /\ task' \in [Tasks -> Work \cup {Idle}]
        /\ \A s \in Tasks : task'[s] = task[s] \/ SafeTask(task'[s])
    BY <1>6, <1>7, <2>1 DEF SafeTask, RecordAbandon
  <2>3. ChannelSettles
    BY <1>1, <1>8, <2>1, StreamAssumption
       DEF RecordAbandon, MayAbandon, ChannelSettles, FinalIsComplete, SInv, STypeOK
  <2>4. RowFollowsRegistry'
    BY <1>2, <1>8, <2>1 DEF SInv, RowFollowsRegistry, RecordAbandon, MayAbandon
  <2> QED BY <1>2, <1>3, <2>2, <2>3, <2>4, StepKeeps DEF RowGrows
<1>9. CASE /\ ~MayAbandon
           /\ registry = "abandoned"
           /\ task' = [task EXCEPT ![t].at = "abandoned"]
           /\ UNCHANGED channel
  <2>1. SafeTask(y) /\ task' = [task EXCEPT ![t] = y]
    BY <1>4, <1>6, <1>9 DEF channel
  <2> QED BY <1>2, <1>3, <1>9, <2>1, HandlerKeeps
<1>10. CASE /\ ExpiryEnds(t)
            /\ UNCHANGED channel
  BY <1>2, <1>3, <1>10, ExpiryGoesOn, HandlerKeeps
<1> QED BY <1>8, <1>9, <1>10 DEF StreamAbandon

LEMMA AbandonReturnsKeeps ==
  ASSUME SInv, NEW t \in Tasks, AbandonReturns(t)
  PROVE  SInv'
<1>1. registry # "streaming" /\ UNCHANGED channel
  BY DEF AbandonReturns, SInv, HandlersKnow
<1>2. /\ row \in RowType /\ row.ack \in 0 .. MaxSeq /\ MaxSeq \in Nat
  BY StreamAssumption DEF SInv, STypeOK, RowType
<1>3. /\ row' \in RowType /\ row'.ack = row.ack /\ row'.text = row.text
      /\ row'.status \in {row.status, "abandoned"}
  BY <1>2 DEF AbandonReturns, RowType
<1>4. Deltas(row'.text) = 1 .. row'.ack /\ row.ack <= row'.ack
  BY <1>2, <1>3 DEF SInv, AckedIsDurable
<1>5. RowFollowsRegistry'
  BY <1>1, <1>3 DEF SInv, RowFollowsRegistry, channel
<1>6. SocketsCover
  BY <1>3 DEF AbandonReturns, SInv, STypeOK, CopiesCover, SocketsCover
<1>7. OthersTyped
  <2>1. task[t].status \in {"none", "streaming", "finalized", "abandoned"}
    BY TaskTyped DEF AbandonReturns
  <2>2. jobs' \subseteq jobs
    BY <2>1 DEF AbandonReturns
  <2> QED BY <2>2 DEF AbandonReturns, SInv, STypeOK, OthersTyped, Closing
<1>8. ChannelSettles
  BY <1>1, ChannelStays
<1>9. PICK x : task' = [task EXCEPT ![t] = x] /\ SafeTask(x)
  BY ExpiryGoesOn DEF AbandonReturns
<1>10. /\ task' \in [Tasks -> Work \cup {Idle}]
       /\ \A s \in Tasks : task'[s] = task[s] \/ SafeTask(task'[s])
  BY <1>9 DEF SInv, STypeOK, SafeTask
<1> QED BY <1>3, <1>4, <1>5, <1>6, <1>7, <1>8, <1>10, StepKeeps

LEMMA AlarmTaskIsTask == AlarmTask \in Tasks /\ RegistryTask \in Tasks
BY DEF Tasks

LEMMA AlarmFiresKeeps ==
  ASSUME SInv, AlarmFires
  PROVE  SInv'
<1>1. UNCHANGED <<channel, row, attachment>> /\ OthersTyped
  BY DEF AlarmFires, store, ws, SInv, STypeOK, OthersTyped
<1>2. PICK todo \in SUBSET Sockets : todo = WebSockets
  BY DEF WebSockets
<1>3. PICK at \in {"visiting", "expiring"} :
        at = IF expired /\ "expiry" \in jobs /\ row.status = "streaming"
             THEN "expiring" ELSE "visiting"
  OBVIOUS
<1>4. task' = [task EXCEPT ![AlarmTask] = [at |-> at, todo |-> todo]]
  BY <1>2, <1>3 DEF AlarmFires
<1> QED BY <1>1, <1>4, AlarmTaskIsTask, TodoIsSafe, StoreStays, HandlerKeeps

LEMMA VisitRestKeeps ==
  ASSUME SInv, NEW w \in Sockets, NEW c \in Attachment, Covers(row.ack, c),
         NEW due \in SUBSET {"flush", "fanout", "expiry"}, NEW todo \in SUBSET Sockets,
         VisitRest(w, c, due, todo)
  PROVE  SInv'
<1>1. /\ STypeOK /\ AckedIsDurable /\ CopiesCover
      /\ UNCHANGED <<channel, expired, conn, faults>>
      /\ AlarmTask \in Tasks
  BY AlarmTaskIsTask DEF SInv, VisitRest
<1>2. CASE FlushThrows(AlarmTask, w, c, due)
  <2>1. /\ RowGrows /\ SocketsCover
        /\ jobs' \subseteq {"flush", "fanout", "expiry"}
        /\ alarm' \in BOOLEAN
        /\ task' = [task EXCEPT ![AlarmTask] = Idle]
    BY <1>1, <1>2, ThrownFlush
  <2>2. OthersTyped
    BY <1>1, <2>1 DEF STypeOK, OthersTyped
  <2> QED BY <1>1, <2>1, <2>2, IdleIsSafe, HandlerKeeps
<1>3. CASE ~FlushThrows(AlarmTask, w, c, due)
  <2>1. /\ SaveFlushed(w, c, due) \/ SaveUnflushed(w, c, due)
        /\ task' = [task EXCEPT ![AlarmTask] = [at |-> "visiting", todo |-> todo]]
        /\ UNCHANGED alarm
    BY <1>3 DEF VisitRest
  <2>2. /\ RowGrows /\ SocketsCover
        /\ jobs' \subseteq {"flush", "fanout", "expiry"}
    BY <1>1, <2>1, SavedFlushed, SavedUnflushed
  <2>3. OthersTyped
    BY <1>1, <2>1, <2>2 DEF STypeOK, OthersTyped
  <2> QED BY <1>1, <2>1, <2>2, <2>3, TodoIsSafe, HandlerKeeps
<1> QED BY <1>2, <1>3

LEMMA AlarmVisitKeeps ==
  ASSUME SInv, NEW w \in Sockets, AlarmVisit(w)
  PROVE  SInv'
<1>1. /\ AlarmTask \in Tasks
      /\ task[AlarmTask].at = "visiting"
  BY AlarmTaskIsTask DEF AlarmVisit
<1>2. PICK c \in Attachment : c = attachment[w] /\ Covers(row.ack, c)
  BY DEF SInv, STypeOK, CopiesCover
<1>3. PICK due \in SUBSET {"flush", "fanout", "expiry"} : due = jobs
  BY DEF SInv, STypeOK
<1>4. task[AlarmTask].todo \subseteq Sockets
  BY <1>1, TaskTyped
<1>5. PICK todo \in SUBSET Sockets : todo = task[AlarmTask].todo \ {w}
  BY <1>4
<1>6. CASE VisitRest(w, c, due, todo)
  BY <1>2, <1>6, VisitRestKeeps
<1>7. CASE /\ AwaitFanout(AlarmTask, w, c, "alarm", todo)
           /\ UNCHANGED <<channel, expired, store, alarm, ws, faults>>
  <2>1. RowGrows /\ SocketsCover
    BY <1>7, StoreStays DEF ws, store
  <2>2. OthersTyped
    BY <1>7 DEF SInv, STypeOK, OthersTyped, ws, store
  <2>3. SafeTask([at |-> "fanout", then |-> "alarm", w |-> w, copy |-> c, todo |-> todo])
    BY <1>2, <1>7, AwaitIsSafe DEF store
  <2> QED BY <1>1, <1>7, <2>1, <2>2, <2>3, HandlerKeeps DEF AwaitFanout
<1> QED BY <1>2, <1>3, <1>5, <1>6, <1>7 DEF AlarmVisit

LEMMA AlarmShownKeeps ==
  ASSUME SInv, AlarmShown
  PROVE  SInv'
<1>1. /\ task[AlarmTask].at = "fanout"
      /\ VisitRest(task[AlarmTask].w, Copy(AlarmTask), Due, task[AlarmTask].todo)
      /\ AlarmTask \in Tasks
  BY AlarmTaskIsTask DEF AlarmShown, Shown
<1>2. PICK c \in Attachment : c = Copy(AlarmTask) /\ Covers(row.ack, c)
  BY <1>1, CopyHeld
<1>3. PICK w \in Sockets : w = task[AlarmTask].w
  BY <1>1, CopyHeld
<1>4. PICK due \in SUBSET {"flush", "fanout", "expiry"} : due = Due
  BY DEF SInv, STypeOK, Due
<1>5. PICK todo \in SUBSET Sockets : todo = task[AlarmTask].todo
  BY <1>1, CopyHeld
<1> QED BY <1>1, <1>2, <1>3, <1>4, <1>5, VisitRestKeeps

LEMMA AlarmEndsKeeps ==
  ASSUME SInv, AlarmEnds
  PROVE  SInv'
<1>1. UNCHANGED <<channel, row, attachment>> /\ OthersTyped
  BY DEF AlarmEnds, store, ws, SInv, STypeOK, OthersTyped
<1> QED BY <1>1, AlarmTaskIsTask, IdleIsSafe, StoreStays, HandlerKeeps DEF AlarmEnds

LEMMA RegistryExpiresKeeps ==
  ASSUME SInv, RegistryExpires
  PROVE  SInv'
<1>1. UNCHANGED <<channel, row, attachment>> /\ OthersTyped
  BY DEF RegistryExpires, store, ws, SInv, STypeOK, OthersTyped
<1>2. PICK todo \in SUBSET Sockets : todo = WebSockets
  BY DEF WebSockets
<1>3. task' = [task EXCEPT ![RegistryTask] = [at |-> "expiring", todo |-> todo]]
  BY <1>2 DEF RegistryExpires
<1> QED BY <1>1, <1>3, AlarmTaskIsTask, TodoIsSafe, StoreStays, HandlerKeeps

LEMMA FanoutFailsKeeps ==
  ASSUME SInv, NEW t \in Tasks, FanoutFails(t)
  PROVE  SInv'
<1>1. UNCHANGED <<channel, row, attachment>> /\ OthersTyped
  BY StreamAssumption DEF FanoutFails, Fault, Dies, store, ws, SInv, STypeOK, OthersTyped
<1> QED BY <1>1, IdleIsSafe, StoreStays, HandlerKeeps DEF FanoutFails, Dies

LEMMA CallFailsKeeps ==
  ASSUME SInv, NEW t \in Tasks, CallFails(t)
  PROVE  SInv'
<1>1. UNCHANGED <<channel, row, attachment>> /\ OthersTyped
  BY StreamAssumption DEF CallFails, Fault, store, ws, SInv, STypeOK, OthersTyped
<1>2. PICK x : task' = [task EXCEPT ![t] = x] /\ SafeTask(x)
  BY IdleIsSafe, ExpiryGoesOn DEF CallFails
<1> QED BY <1>1, <1>2, StoreStays, HandlerKeeps

LEMMA SNextKeeps == ASSUME SInv, SNext PROVE SInv'
<1>1. CASE \E w \in Sockets : Connect(w) \/ Gone(w)
  BY <1>1, ConnectKeeps, GoneKeeps
<1>2. CASE MessageStep
  BY <1>2, HandleAppendKeeps, HandleFinalizeKeeps, ReplayFinalizeKeeps DEF MessageStep
<1>3. CASE \E t \in Tasks : TaskStep(t)
  BY <1>3, AppendShownKeeps, FinalizeShownKeeps, StreamFinalizeKeeps, FinalizeReturnsKeeps,
     ExpiryVisitKeeps, ExpiryShownKeeps, ExpiryReadKeeps, StreamAbandonKeeps, AbandonReturnsKeeps
     DEF TaskStep
<1>4. CASE AlarmStep
  BY <1>4, AlarmFiresKeeps, AlarmVisitKeeps, AlarmShownKeeps, AlarmEndsKeeps DEF AlarmStep
<1>5. CASE FaultStep
  BY <1>5, FanoutFailsKeeps, CallFailsKeeps, CrashKeeps DEF FaultStep
<1> QED BY <1>1, <1>2, <1>3, <1>4, <1>5, RegistryExpiresKeeps, ExpiresKeeps DEF SNext

LEMMA SStutterKeeps == ASSUME SInv, UNCHANGED svars PROVE SInv'
<1>1. UNCHANGED <<registry, message, expired, row, jobs, alarm, conn, attachment, task, faults>>
  BY DEF svars, channel, store, ws
<1> QED BY <1>1 DEF SInv, STypeOK, RowFollowsRegistry, AckedIsDurable, FinalIsComplete,
                    CopiesCover, HandlersKnow

LEMMA SInvHolds == SSpec => []SInv
<1>1. SInv /\ [SNext]_svars => SInv'
  BY SNextKeeps, SStutterKeeps
<1> QED BY <1>1, SInitKeeps, PTL DEF SSpec

\* The two tables, the sockets and every handler's copy hold values of their
\* types, and the connection's table never runs ahead of the channel's registry.
THEOREM StreamTablesAgree == SSpec => []StreamInv
<1>1. SInv => StreamInv
  BY DEF SInv, StreamInv
<1> QED BY <1>1, SInvHolds, PTL

\* Every delta up to ack_seq is in the durable text and no other, however many
\* sockets, handlers and alarms flush their copies in whatever order.
THEOREM AcksAreDurable == SSpec => []AckedIsDurable
<1>1. SInv => AckedIsDurable
  BY DEF SInv
<1> QED BY <1>1, SInvHolds, PTL

\* A message that ChatChannel finalized has every delta up to final_seq.
THEOREM FinalsAreComplete == SSpec => []FinalIsComplete
<1>1. SInv => FinalIsComplete
  BY DEF SInv
<1> QED BY <1>1, SInvHolds, PTL

\* Once ChatChannel has settled a stream, no late finalize, retry or expiry
\* changes its registry row or its message.
THEOREM OutcomesStand == SSpec => OutcomeStands
<1>1. ASSUME registry # "streaming", SNext  PROVE UNCHANGED channel
  <2>1. CASE \E w \in Sockets : Connect(w) \/ Gone(w)
    BY <2>1 DEF Connect, Gone
  <2>2. CASE MessageStep
    BY <2>2 DEF MessageStep, HandleAppend, HandleFinalize, ReplayFinalize, AppendRest, FinalizeRest
  <2>3. CASE \E t \in Tasks : TaskStep(t)
    <3>1. PICK t \in Tasks : TaskStep(t)
      BY <2>3
    <3>2. CASE StreamFinalize(t)
      BY <1>1, <3>2 DEF StreamFinalize
    <3>3. CASE StreamAbandon(t)
      BY <1>1, <3>3 DEF StreamAbandon, MayAbandon
    <3> QED BY <3>1, <3>2, <3>3 DEF TaskStep, AppendShown, AppendRest, FinalizeShown, FinalizeRest,
                                     FinalizeReturns, ExpiryVisit, ExpiryShown, ExpiryRead,
                                     AbandonReturns
  <2>4. CASE AlarmStep
    BY <2>4 DEF AlarmStep, AlarmFires, AlarmVisit, AlarmShown, AlarmEnds, VisitRest
  <2>5. CASE FaultStep
    BY <2>5 DEF FaultStep, FanoutFails, CallFails, Crash
  <2>6. CASE RegistryExpires \/ Expires
    BY <2>6 DEF RegistryExpires, Expires
  <2> QED BY <1>1, <2>1, <2>2, <2>3, <2>4, <2>5, <2>6 DEF SNext
<1>2. [SNext]_svars => [registry # "streaming" => UNCHANGED channel]_svars
  BY <1>1
<1> QED BY <1>2, PTL DEF SSpec, OutcomeStands

-----------------------------------------------------------------------------
(* The registry's catalog: a list goes in command by command.              *)

CommandRow == {NoCommand} \cup [definition : Definitions, version : Nat \ {0}]

\* What the tables hold after any prefix of a list.
CatalogRows == [commands : [Commands -> CommandRow], aliases : [Commands -> SUBSET Tokens],
                names : [Tokens -> Commands \cup {Unused}], conflict : BOOLEAN]

\* The statement of NamesAgree for given tables.
Agree(held, al) ==
  /\ \A k \in Tokens : held[k] # Unused => k \in {held[k][2]} \cup al[held[k]]
  /\ \A c \in Commands : \A k \in al[c] : held[k] = c

GoodRows == {acc \in CatalogRows : Agree(acc.names, acc.aliases)}

\* The inductive invariant of CommandCatalog.
CatalogInv ==
  /\ CatalogTypeOK
  /\ commands \in [Commands -> CommandRow]
  /\ sync \in [Syncs -> {NoSync} \cup [bot : Bots, key : SyncKeys, request : Requests]]
  /\ NamesAgree

LEMMA RowTyped ==
  ASSUME NEW old \in CommandRow, NEW d \in Definitions
  PROVE  Row(old, d) \in CommandRow
<1>1. d # "none"
  BY CatalogAssumption
<1>2. CASE old = NoCommand
  <2>1. Row(old, d) = [definition |-> d, version |-> 1]
    BY <1>1, <1>2 DEF Row, NoCommand
  <2> QED BY <2>1 DEF CommandRow
<1>3. CASE old \in [definition : Definitions, version : Nat \ {0}]
  BY <1>3 DEF Row, CommandRow
<1> QED BY <1>2, <1>3 DEF CommandRow

\* A command of a list that gets its tokens takes no other command's.
LEMMA RenamedAgree ==
  ASSUME NEW held \in [Tokens -> Commands \cup {Unused}], NEW al \in [Commands -> SUBSET Tokens],
         Agree(held, al), NEW b \in Bots, NEW e \in Listed,
         \A k \in TokensOf(e) : held[k] \in {Unused, <<b, e.name>>}
  PROVE  Agree(Renamed(held, <<b, e.name>>, TokensOf(e)), [al EXCEPT ![<<b, e.name>>] = e.aliases])
<1> DEFINE id == <<b, e.name>>
           tokens == TokensOf(e)
           new == Renamed(held, id, tokens)
           nal == [al EXCEPT ![id] = e.aliases]
<1>1. /\ e.name \in Tokens /\ e.aliases \subseteq Tokens
      /\ tokens = {e.name} \cup e.aliases /\ tokens \subseteq Tokens
  BY DEF Listed, TokensOf
<1>2. /\ id \in Commands /\ id[2] = e.name /\ id # Unused
      /\ Unused \notin Commands
  BY <1>1, CatalogAssumption DEF Commands
<1>3. \A k \in Tokens : new[k] = IF k \in tokens THEN id ELSE IF held[k] = id THEN Unused ELSE held[k]
  BY DEF Renamed
<1>4. /\ nal[id] = e.aliases
      /\ \A c \in Commands : c # id => nal[c] = al[c]
  BY <1>2
<1> HIDE DEF id, tokens, new, nal
<1>5. ASSUME NEW k \in Tokens, new[k] # Unused
      PROVE  k \in {new[k][2]} \cup nal[new[k]]
  <2>1. CASE k \in tokens
    BY <1>1, <1>2, <1>3, <1>4, <2>1
  <2>2. CASE k \notin tokens
    <3>1. new[k] = held[k] /\ held[k] # id /\ held[k] # Unused
      BY <1>3, <1>5, <2>2
    <3>2. nal[held[k]] = al[held[k]]
      BY <1>4, <3>1
    <3> QED BY <3>1, <3>2 DEF Agree
  <2> QED BY <2>1, <2>2
<1>6. ASSUME NEW c \in Commands, NEW k \in nal[c]
      PROVE  new[k] = c
  <2>1. CASE c = id
    BY <1>1, <1>3, <1>4, <1>6, <2>1
  <2>2. CASE c # id
    <3>1. k \in al[c] /\ k \in Tokens
      BY <1>4, <1>6, <2>2
    <3>2. held[k] = c
      BY <3>1 DEF Agree
    <3>3. k \notin tokens
      BY <1>2, <2>2, <3>2 DEF tokens, id
    <3> QED BY <1>3, <2>2, <3>1, <3>2, <3>3
  <2> QED BY <2>1, <2>2
<1>7. Agree(new, nal)
  BY <1>5, <1>6 DEF Agree
<1> QED BY <1>7 DEF new, nal, id, tokens

LEMMA RenamedTyped ==
  ASSUME NEW held \in [Tokens -> Commands \cup {Unused}], NEW id \in Commands, NEW tokens
  PROVE  Renamed(held, id, tokens) \in [Tokens -> Commands \cup {Unused}]
BY DEF Renamed

LEMMA UpsertGood ==
  ASSUME NEW b \in Bots, NEW acc \in GoodRows, NEW e \in Listed
  PROVE  Upsert(b, acc, e) \in GoodRows
<1>1. /\ acc \in CatalogRows
      /\ Agree(acc.names, acc.aliases)
  BY DEF GoodRows
<1>2. /\ acc = [commands |-> acc.commands, aliases |-> acc.aliases,
                names |-> acc.names, conflict |-> acc.conflict]
      /\ acc.commands \in [Commands -> CommandRow]
      /\ acc.aliases \in [Commands -> SUBSET Tokens]
      /\ acc.names \in [Tokens -> Commands \cup {Unused}]
      /\ acc.conflict \in BOOLEAN
  BY <1>1 DEF CatalogRows
<1>3. PICK id \in Commands : id = <<b, e.name>>
  BY DEF Commands, Listed
<1>4. PICK coms \in [Commands -> CommandRow] :
        coms = [acc.commands EXCEPT ![id] = Row(acc.commands[id], e.definition)]
  <2>1. Row(acc.commands[id], e.definition) \in CommandRow
    BY <1>2, RowTyped DEF Listed
  <2> QED BY <1>2, <2>1
<1>5. PICK al \in [Commands -> SUBSET Tokens] : al = [acc.aliases EXCEPT ![id] = e.aliases]
  BY <1>2 DEF Listed
<1>6. PICK held \in [Tokens -> Commands \cup {Unused}] :
        held = Renamed(acc.names, id, TokensOf(e))
  BY <1>2, RenamedTyped
<1>7. CASE acc.conflict
  BY <1>7 DEF Upsert
<1>8. CASE ~acc.conflict /\ \E k \in TokensOf(e) : acc.names[k] \notin {Unused, id}
  <2>1. Upsert(b, acc, e) = [commands |-> coms, aliases |-> acc.aliases,
                             names |-> acc.names, conflict |-> TRUE]
    BY <1>2, <1>3, <1>4, <1>8 DEF Upsert
  <2> QED BY <1>1, <1>2, <2>1 DEF GoodRows, CatalogRows
<1>9. CASE ~acc.conflict /\ \A k \in TokensOf(e) : acc.names[k] \in {Unused, id}
  <2>1. Upsert(b, acc, e) = [commands |-> coms, aliases |-> al,
                             names |-> held, conflict |-> acc.conflict]
    BY <1>2, <1>3, <1>4, <1>5, <1>6, <1>9 DEF Upsert
  <2>2. Agree(held, al)
    BY <1>1, <1>2, <1>3, <1>5, <1>6, <1>9, RenamedAgree
  <2> QED BY <1>2, <2>1, <2>2 DEF GoodRows, CatalogRows
<1> QED BY <1>7, <1>8, <1>9

Less == {ab \in Nat \X Nat : ab[1] < ab[2]}

\* A set of numbers that has 0 and every successor has them all.
LEMMA UpTo ==
  ASSUME NEW n \in Nat, NEW S, 0 \in S, \A i \in 0 .. n : i \in S /\ i < n => i + 1 \in S
  PROVE  \A i \in 0 .. n : i \in S
<1> DEFINE out == {i \in 0 .. n : i \notin S}
<1>1. CASE out = {}
  BY <1>1
<1>2. CASE out # {}
  <2>1. out \subseteq Nat
    OBVIOUS
  <2>2. PICK i \in out : \A j \in out : <<j, i>> \notin Less
    <3> HIDE DEF out
    <3>1. IsWellFoundedOn(Less, Nat)
      BY NatLessThanWellFounded DEF OpToRel, Less
    <3> QED BY <1>2, <2>1, <3>1, WFMin
  <2>3. i \in 0 .. n /\ i \notin S /\ i # 0
    BY <2>2
  <2>4. i - 1 \in out
    <3>1. i - 1 \in 0 .. n /\ i - 1 < n /\ (i - 1) + 1 = i
      BY <2>3
    <3> QED BY <2>3, <3>1
  <2>5. <<i - 1, i>> \in Less
    BY <2>1, <2>3, <2>4 DEF Less
  <2> QED BY <2>2, <2>4, <2>5
<1> QED BY <1>1, <1>2

\* The recursive function of Upserted, up to a command of the list.
Tables == [commands |-> commands, aliases |-> aliases, names |-> names, conflict |-> FALSE]

Prefix(b, r, base, n, f) ==
  f = [m \in 0 .. n |-> IF m = 0 THEN base ELSE Upsert(b, f[m - 1], r[m])]

\* Such a function exists for every length of the list.
LEMMA PrefixExists ==
  ASSUME NEW b, NEW r, NEW base, NEW n \in Nat
  PROVE  \E f : Prefix(b, r, base, n, f)
<1> DEFINE S == {m \in 0 .. n : \E f : Prefix(b, r, base, m, f)}
<1>1. 0 \in S
  <2>1. PICK f : f = [m \in 0 .. 0 |-> base]
    OBVIOUS
  <2>2. Prefix(b, r, base, 0, f)
    BY <2>1 DEF Prefix
  <2> QED BY <2>2
<1>2. ASSUME NEW i \in 0 .. n, i \in S, i < n  PROVE i + 1 \in S
  <2>1. PICK f : Prefix(b, r, base, i, f)
    BY <1>2
  <2>2. PICK g : g = [m \in 0 .. (i + 1) |-> IF m = i + 1 THEN Upsert(b, f[i], r[i + 1]) ELSE f[m]]
    OBVIOUS
  <2>3. \A m \in 0 .. i : f[m] = IF m = 0 THEN base ELSE Upsert(b, f[m - 1], r[m])
    BY <2>1 DEF Prefix
  <2>4. \A m \in 0 .. i : g[m] = f[m]
    BY <2>2
  <2>5. \A m \in 0 .. (i + 1) : g[m] = IF m = 0 THEN base ELSE Upsert(b, g[m - 1], r[m])
    <3> SUFFICES ASSUME NEW m \in 0 .. (i + 1)
                 PROVE  g[m] = IF m = 0 THEN base ELSE Upsert(b, g[m - 1], r[m])
      OBVIOUS
    <3>1. CASE m = i + 1
      <4>1. m # 0 /\ m - 1 = i /\ i \in 0 .. i
        BY <3>1
      <4>2. g[m] = Upsert(b, f[i], r[m]) /\ g[m - 1] = f[i]
        BY <2>2, <2>4, <3>1, <4>1
      <4> QED BY <4>1, <4>2
    <3>2. CASE m \in 1 .. i
      <4>1. m # 0 /\ m \in 0 .. i /\ m - 1 \in 0 .. i
        BY <3>2
      <4>2. g[m] = Upsert(b, f[m - 1], r[m]) /\ g[m - 1] = f[m - 1]
        BY <2>3, <2>4, <4>1
      <4> QED BY <4>1, <4>2
    <3>3. CASE m = 0
      BY <2>3, <2>4, <3>3
    <3> QED BY <3>1, <3>2, <3>3
  <2>6. Prefix(b, r, base, i + 1, g)
    <3>1. PICK e : e = [m \in 0 .. (i + 1) |-> IF m = 0 THEN base ELSE Upsert(b, g[m - 1], r[m])]
      OBVIOUS
    <3>2. DOMAIN g = 0 .. (i + 1) /\ g = [m \in 0 .. (i + 1) |-> g[m]]
      BY <2>2
    <3>3. g = e
      BY <2>5, <3>1, <3>2
    <3> QED BY <3>1, <3>3 DEF Prefix
  <2> QED BY <1>2, <2>6
<1>3. \A i \in 0 .. n : i \in S
  <2> HIDE DEF S
  <2> QED BY <1>1, <1>2, UpTo
<1> QED BY <1>3

LEMMA UpsertedIsPrefix ==
  ASSUME NEW b, NEW r \in Seq(Listed)
  PROVE  \E f : Prefix(b, r, Tables, Len(r), f) /\ Upserted(b, r) = f[Len(r)]
<1>1. PICK g : g = [m \in 0 .. Len(r) |-> IF m = 0 THEN Tables ELSE Upsert(b, g[m - 1], r[m])]
  <2>1. Len(r) \in Nat
    OBVIOUS
  <2>2. PICK g : Prefix(b, r, Tables, Len(r), g)
    BY <2>1, PrefixExists
  <2> QED BY <2>2 DEF Prefix
<1>2. PICK f : f = CHOOSE h : h = [m \in 0 .. Len(r) |->
                                     IF m = 0 THEN Tables ELSE Upsert(b, h[m - 1], r[m])]
  OBVIOUS
<1>3. f = [m \in 0 .. Len(r) |-> IF m = 0 THEN Tables ELSE Upsert(b, f[m - 1], r[m])]
  BY <1>1, <1>2
<1>4. Upserted(b, r) = f[Len(r)]
  BY <1>2 DEF Upserted, Tables
<1> QED BY <1>3, <1>4 DEF Prefix

\* Whatever list goes in, the tables it leaves are typed and agree.
LEMMA UpsertedGood ==
  ASSUME CatalogInv, NEW b \in Bots, NEW r \in Requests
  PROVE  Upserted(b, r) \in GoodRows
<1>1. r \in Seq(Listed)
  BY CatalogAssumption
<1>2. PICK f : Prefix(b, r, Tables, Len(r), f) /\ Upserted(b, r) = f[Len(r)]
  BY <1>1, UpsertedIsPrefix
<1>3. \A m \in 0 .. Len(r) : f[m] = IF m = 0 THEN Tables ELSE Upsert(b, f[m - 1], r[m])
  BY <1>2 DEF Prefix
<1>4. Tables \in GoodRows
  BY DEF Tables, GoodRows, CatalogRows, CatalogInv, CatalogTypeOK, NamesAgree, Agree
<1> DEFINE S == {m \in 0 .. Len(r) : f[m] \in GoodRows}
<1>5. Len(r) \in Nat /\ \A m \in 1 .. Len(r) : r[m] \in Listed
  BY <1>1
<1>6. 0 \in S
  BY <1>3, <1>4, <1>5
<1>7. ASSUME NEW i \in 0 .. Len(r), i \in S, i < Len(r)  PROVE i + 1 \in S
  <2>1. i + 1 \in 0 .. Len(r) /\ i + 1 \in 1 .. Len(r) /\ i + 1 # 0 /\ (i + 1) - 1 = i
    BY <1>5, <1>7
  <2>2. f[i + 1] = Upsert(b, f[i], r[i + 1])
    BY <1>3, <2>1
  <2>3. f[i + 1] \in GoodRows
    BY <1>5, <1>7, <2>1, <2>2, UpsertGood
  <2> QED BY <2>1, <2>3
<1>8. \A i \in 0 .. Len(r) : i \in S
  <2> HIDE DEF S
  <2> QED BY <1>5, <1>6, <1>7, UpTo
<1> QED BY <1>2, <1>5, <1>8

-----------------------------------------------------------------------------
(* The catalog's invariant.                                                *)

LEMMA CatalogInit == ASSUME CInit PROVE CatalogInv
BY CatalogAssumption DEF CInit, CatalogInv, CatalogTypeOK, NamesAgree, CommandRow, NoCommand

LEMMA SyncedKeeps ==
  ASSUME CatalogInv, NEW t \in Syncs, Synced(t)
  PROVE  CatalogInv'
<1>1. /\ sync[t] \in [bot : Bots, key : SyncKeys, request : Requests]
      /\ sync' = [sync EXCEPT ![t] = NoSync]
      /\ UNCHANGED bots
  BY DEF CatalogInv, Synced
<1>2. PICK after \in GoodRows : after = Upserted(sync[t].bot, sync[t].request)
  BY <1>1, UpsertedGood
<1>3. /\ after.commands \in [Commands -> CommandRow]
      /\ after.aliases \in [Commands -> SUBSET Tokens]
      /\ after.names \in [Tokens -> Commands \cup {Unused}]
      /\ Agree(after.names, after.aliases)
  BY DEF GoodRows, CatalogRows
<1>4. \/ commands' = after.commands /\ aliases' = after.aliases /\ names' = after.names
      \/ UNCHANGED <<commands, aliases, names>>
  BY <1>2 DEF Synced
<1>5. /\ commands' \in [Commands -> CommandRow]
      /\ aliases' \in [Commands -> SUBSET Tokens]
      /\ names' \in [Tokens -> Commands \cup {Unused}]
      /\ NamesAgree'
  BY <1>3, <1>4 DEF CatalogInv, CatalogTypeOK, NamesAgree, Agree
<1>6. synced' \in SUBSET (Bots \X SyncKeys)
  <2>1. <<sync[t].bot, sync[t].key>> \in Bots \X SyncKeys
    BY <1>1
  <2>2. synced' = synced \/ synced' = synced \cup {<<sync[t].bot, sync[t].key>>}
    BY DEF Synced
  <2> QED BY <2>1, <2>2 DEF CatalogInv, CatalogTypeOK
<1>7. sync' \in [Syncs -> {NoSync} \cup [bot : Bots, key : SyncKeys, request : Requests]]
  BY <1>1 DEF CatalogInv
<1>8. \A c \in Commands : \/ commands'[c] = NoCommand
                          \/ commands'[c].definition \in Definitions /\ commands'[c].version > 0
  BY <1>5 DEF CommandRow
<1> QED BY <1>1, <1>5, <1>6, <1>7, <1>8 DEF CatalogInv, CatalogTypeOK

LEMMA CNextKeeps == ASSUME CatalogInv, CNext PROVE CatalogInv'
<1>1. ASSUME NEW t \in Syncs, NEW b \in Bots, NEW k \in SyncKeys, NEW r \in Requests, Sync(t, b, k, r)
      PROVE  CatalogInv'
  BY <1>1 DEF Sync, CatalogInv, CatalogTypeOK, NamesAgree
<1>2. ASSUME NEW b \in Bots, NEW v \in {"public", "official"},
             NEW s \in {"active", "disabled", "deleted"}, UpdateBot(b, v, s)
      PROVE  CatalogInv'
  BY <1>2 DEF UpdateBot, CatalogInv, CatalogTypeOK, NamesAgree
<1> QED BY <1>1, <1>2, SyncedKeeps DEF CNext

LEMMA CatalogStays == ASSUME CatalogInv, UNCHANGED catalog PROVE CatalogInv'
BY DEF catalog, CatalogInv, CatalogTypeOK, NamesAgree

\* What the registry answers, and what can be read in it.
LEMMA OfficialTyped ==
  ASSUME CatalogInv
  PROVE  /\ Official \subseteq Commands \X Definitions
         /\ \A c \in Commands : commands[c] # NoCommand /\ c[1] \in CatalogBots(Official)
              => c \in Ids(Official)
<1>1. ASSUME NEW c \in Commands, commands[c] # NoCommand
      PROVE  commands[c].definition \in Definitions
  BY <1>1 DEF CatalogInv, CommandRow
<1>2. Official \subseteq Commands \X Definitions
  BY <1>1 DEF Official
<1>3. ASSUME NEW c \in Commands, commands[c] # NoCommand, c[1] \in CatalogBots(Official)
      PROVE  c \in Ids(Official)
  <2>1. PICK e \in Official : c[1] = e[1][1]
    BY <1>3 DEF CatalogBots, Ids
  <2>2. e[1][1] \in OfficialBots
    BY <2>1 DEF Official
  <2>3. <<c, commands[c].definition>> \in Official
    BY <1>3, <2>1, <2>2 DEF Official
  <2> QED BY <2>3 DEF Ids
<1> QED BY <1>2, <1>3

-----------------------------------------------------------------------------
(* The channel's commands: types.                                          *)

Asked == [kind : {"help"}, user : Users, key : Keys]
Checked == [kind : {"invoke", "stateful"}, user : Users, key : Keys, command : Commands,
            version : Nat, row : Rows]
Permitted == [kind : {"permission"}, user : Users, key : Keys, command : Commands,
              want : {"allowed", "blocked"}, catalog : SUBSET (Commands \X Definitions),
              row : Rows]
Bound == [kind : {"bind"}, user : Users, key : Keys, command : Commands,
          want : {"allowed", "blocked"}, catalog : SUBSET (Commands \X Definitions),
          override : Permissions, needs : Permissions]
UnderWay == {NoHandler} \cup Asked \cup Checked \cup Permitted \cup Bound

DeltaRow == [command : Commands, sound : BOOLEAN, op : {"upsert", "remove"}]

ChannelInv ==
  /\ roles \in [Users -> Roles]
  /\ binding \in [Commands -> Rows]
  /\ deltas \in Seq(DeltaRow)
  /\ version = Len(deltas) /\ version <= MaxVersion
  /\ copy \in [version : Nat, items : SUBSET Commands, sound : BOOLEAN]
  /\ copy.version <= version
  /\ answer # NoAnswer => /\ answer \in [version : Nat, rows : [Commands -> Rows]]
                          /\ answer.version <= version
  /\ handler \in [Slots -> UnderWay]
  /\ done \subseteq {"invoke", "bind"} \X Users \X Keys

\* A command a handler wants to allow is the catalog's, as the handler read it,
\* or of a bot that is not in it.
WantsWhatIsThere(h) ==
  h.kind \in {"permission", "bind"} /\ h.want = "allowed" =>
    h.command \in Ids(h.catalog) \/ h.command[1] \notin CatalogBots(h.catalog)

\* A call that is to be answered at once was checked at this version, on this row,
\* or at an earlier version.
SawTheRow(h) ==
  h.kind = "invoke" => h.version <= version /\ (h.version = version => h.row = binding[h.command])

LEMMA NoneIsTyped ==
  /\ NoBinding \in Rows
  /\ NoHandler \in UnderWay
BY DEF NoBinding, Rows, Permissions, UnderWay

LEMMA ItemsTyped ==
  ASSUME NEW cat \in SUBSET (Commands \X Definitions), NEW rows
  PROVE  /\ Items(rows, cat) \subseteq Commands
         /\ Ids(cat) \subseteq Commands
         /\ \A c \in Ids(cat) : DefinitionIn(cat, c) \in Definitions
<1>1. Ids(cat) \subseteq Commands
  BY DEF Ids
<1>2. ASSUME NEW c \in Ids(cat)  PROVE DefinitionIn(cat, c) \in Definitions
  <2>1. \E e \in cat : e[1] = c
    BY DEF Ids
  <2>2. (CHOOSE e \in cat : e[1] = c) \in cat
    BY <2>1
  <2> QED BY <2>2 DEF DefinitionIn
<1> QED BY <1>1, <1>2 DEF Items

\* What a handler begins with.
LEMMA BeginsKeeps ==
  ASSUME ChannelInv, NEW t \in Slots, NEW h \in UnderWay, Begins(t, h)
  PROVE  ChannelInv'
<1>1. /\ UNCHANGED <<roles, binding, version, deltas, copy, answer, done>>
      /\ handler' = [handler EXCEPT ![t] = h]
  BY DEF Begins, tables, client
<1> QED BY <1>1 DEF ChannelInv

\* The registry's catalog, or none.
LEMMA AnswerTyped ==
  ASSUME CatalogInv, NEW cat \in {Official, {}}
  PROVE  cat \in SUBSET (Commands \X Definitions)
BY OfficialTyped

LEMMA OperationTyped ==
  ASSUME NEW h \in UnderWay, h # NoHandler
  PROVE  Operation(h) \in {"invoke", "bind"} \X Users \X Keys
BY DEF UnderWay, NoHandler, Asked, Checked, Permitted, Bound, Operation

\* The row a change leaves is a row.
LEMMA ChangedTyped ==
  ASSUME ChannelInv, NEW h \in Permitted \cup Bound, MayChange(h)
  PROVE  Changed(h) \in Rows
<1>1. /\ h.command \in Commands /\ h.want \in {"allowed", "blocked"}
      /\ h.catalog \in SUBSET (Commands \X Definitions)
      /\ h.kind \in {"permission", "bind"}
      /\ h.kind = "bind" => h.override \in Permissions /\ h.needs \in Permissions
  BY DEF Permitted, Bound
<1>2. PICK old \in Rows : old = binding[h.command]
  BY <1>1 DEF ChannelInv
<1>3. /\ old.status \in {"none", "allowed", "blocked"}
      /\ old.needs \in Permissions /\ old.override \in Permissions
  BY <1>2 DEF Rows
<1>4. PICK o \in Permissions : o = IF h.kind = "bind" THEN h.override ELSE old.override
  BY <1>1, <1>3
<1>5. CASE Lifts(h)
  BY <1>1, <1>5, NoneIsTyped DEF Changed, Lifts
<1>6. CASE ~Lifts(h) /\ h.want = "allowed"
  <2>1. PICK n \in Permissions : n = IF h.kind = "bind" THEN h.needs ELSE old.needs
    BY <1>1, <1>3
  <2>2. Changed(h) = [status |-> "allowed", override |-> o, needs |-> n]
    BY <1>2, <1>4, <1>6, <2>1 DEF Changed
  <2> QED BY <2>2 DEF Rows
<1>7. CASE ~Lifts(h) /\ h.want = "blocked"
  <2>1. PICK n \in Permissions :
          n = IF old = NoBinding THEN DefinitionIn(h.catalog, h.command) ELSE old.needs
    <3>1. CASE old = NoBinding
      <4>1. h.command \in Ids(h.catalog)
        BY <1>2, <1>7, <3>1 DEF MayChange
      <4>2. DefinitionIn(h.catalog, h.command) \in Definitions
        BY <1>1, <4>1, ItemsTyped
      <4> QED BY <3>1, <4>2 DEF Permissions
    <3>2. CASE old # NoBinding
      BY <1>3, <3>2
    <3> QED BY <3>1, <3>2
  <2>2. Changed(h) = [status |-> "blocked", override |-> o, needs |-> n]
    BY <1>2, <1>4, <1>7, <2>1 DEF Changed
  <2> QED BY <2>2 DEF Rows
<1> QED BY <1>1, <1>5, <1>6, <1>7

LEMMA LoggedTyped ==
  ASSUME ChannelInv, NEW t \in Slots, handler[t] # NoHandler, Logged(t)
  PROVE  done' \subseteq {"invoke", "bind"} \X Users \X Keys
BY OperationTyped DEF ChannelInv, Logged

LEMMA CommitInvocationTyped ==
  ASSUME ChannelInv, NEW t \in Slots, CommitInvocation(t)
  PROVE  ChannelInv'
<1>1. handler[t] # NoHandler
  BY DEF CommitInvocation, NoHandler
<1>2. done' \subseteq {"invoke", "bind"} \X Users \X Keys
  BY <1>1, LoggedTyped DEF CommitInvocation, ChannelInv
<1>3. /\ UNCHANGED <<roles, binding, version, deltas, copy, answer>>
      /\ handler' = [handler EXCEPT ![t] = NoHandler]
  BY DEF CommitInvocation, client
<1> QED BY <1>2, <1>3, NoneIsTyped DEF ChannelInv

LEMMA ChangeHandler ==
  ASSUME ChannelInv, NEW t \in Slots, CommitChange(t)
  PROVE  /\ handler[t] \in Permitted \cup Bound /\ handler[t] # NoHandler
         /\ handler[t].command \in Commands
         /\ handler[t].want \in {"allowed", "blocked"}
         /\ Delta(handler[t]) \in DeltaRow
<1>1. handler[t] \in UnderWay /\ handler[t].kind \in {"permission", "bind"}
  BY DEF ChannelInv, CommitChange
<1>2. handler[t] \in Permitted \cup Bound /\ handler[t] # NoHandler
  BY <1>1 DEF UnderWay, NoHandler, Asked, Checked
<1>3. handler[t].command \in Commands /\ handler[t].want \in {"allowed", "blocked"}
  BY <1>2 DEF Permitted, Bound
<1>4. Delta(handler[t]) \in DeltaRow
  BY <1>3 DEF Delta, DeltaRow
<1> QED BY <1>2, <1>3, <1>4

LEMMA CommitChangeTyped ==
  ASSUME ChannelInv, NEW t \in Slots, CommitChange(t)
  PROVE  ChannelInv'
<1>1. /\ handler' = [handler EXCEPT ![t] = NoHandler]
      /\ UNCHANGED <<roles, copy, answer>>
  BY DEF CommitChange, client
<1>2. CASE MayChange(handler[t])
  <2>1. PICK h \in Permitted \cup Bound : h = handler[t]
    BY ChangeHandler
  <2>2. /\ binding' = [binding EXCEPT ![h.command] = Changed(h)]
        /\ version' = version + 1
        /\ deltas' = Append(deltas, Delta(h))
        /\ version < MaxVersion
        /\ Logged(t)
    BY <1>2, <2>1 DEF CommitChange
  <2>3. Changed(h) \in Rows
    BY <1>2, <2>1, ChangedTyped
  <2>4. binding' \in [Commands -> Rows]
    BY <2>2, <2>3 DEF ChannelInv
  <2>5. /\ deltas' \in Seq(DeltaRow) /\ Len(deltas') = Len(deltas) + 1
        /\ version \in Nat
    BY <2>1, <2>2, ChangeHandler DEF ChannelInv
  <2>6. done' \subseteq {"invoke", "bind"} \X Users \X Keys
    BY <2>2, ChangeHandler, LoggedTyped
  <2>7. /\ version' = Len(deltas') /\ version' <= MaxVersion
        /\ copy.version <= version'
        /\ answer # NoAnswer => answer.version <= version'
    <3>1. /\ version = Len(deltas)
          /\ copy.version \in Nat /\ copy.version <= version
          /\ answer # NoAnswer => answer.version \in Nat /\ answer.version <= version
      BY DEF ChannelInv
    <3> QED BY <2>2, <2>5, <3>1, CommandsAssumption
  <2> QED BY <1>1, <2>4, <2>5, <2>6, <2>7, NoneIsTyped DEF ChannelInv
<1>3. CASE ~MayChange(handler[t])
  <2>1. UNCHANGED <<binding, version, deltas, done>>
    BY <1>3 DEF CommitChange
  <2> QED BY <1>1, <2>1, NoneIsTyped DEF ChannelInv
<1> QED BY <1>2, <1>3

-----------------------------------------------------------------------------
(* What the manifest and its deltas say of a command.                      *)

\* A command of the channel; Items, command by command.
There(rows, cat, c) ==
  \/ c \in Ids(cat) /\ rows[c].status # "blocked"
  \/ c[1] \notin CatalogBots(cat) /\ rows[c].status = "allowed"

\* A later delta is about the command.
ToldAfter(n, c) == \E m \in (n + 1) .. version : deltas[m].command = c

\* The last sound delta about a command, a sound manifest and an answer under way
\* are right about every command that no later delta is about.
ManifestTells ==
  /\ \A n \in 1 .. version :
       deltas[n].sound /\ ~ToldAfter(n, deltas[n].command) =>
         (deltas[n].op = "upsert" <=> There(binding, Official, deltas[n].command))
  /\ copy.sound => \A c \in Commands : ~ToldAfter(copy.version, c) =>
                     (c \in copy.items <=> There(binding, Official, c))
  /\ answer # NoAnswer => \A c \in Commands : ~ToldAfter(answer.version, c) =>
                            answer.rows[c] = binding[c]

LEMMA ThereIsItem ==
  ASSUME NEW cat \in SUBSET (Commands \X Definitions), NEW rows, NEW c \in Commands
  PROVE  c \in Items(rows, cat) <=> There(rows, cat, c)
BY DEF Items, There

\* Of a command whose row is as before, the same is said.
LEMMA ThereStays ==
  ASSUME NEW rows, NEW later, NEW cat, NEW c, rows[c] = later[c]
  PROVE  There(rows, cat, c) <=> There(later, cat, c)
BY DEF There

LEMMA ManifestIsRight ==
  ASSUME CatalogInv, ChannelInv, ManifestTells
  PROVE  ManifestFollows
<1> SUFFICES ASSUME copy.sound, copy.version = version
             PROVE  copy.items = Items(binding, Official)
  BY DEF ManifestFollows
<1>1. Official \in SUBSET (Commands \X Definitions)
  BY OfficialTyped
<1>2. copy.items \subseteq Commands /\ Items(binding, Official) \subseteq Commands
  BY <1>1, ItemsTyped DEF ChannelInv
<1>3. ASSUME NEW c \in Commands
      PROVE  c \in copy.items <=> c \in Items(binding, Official)
  <2>1. version \in Nat
    BY DEF ChannelInv
  <2>2. ~ToldAfter(copy.version, c)
    BY <2>1 DEF ToldAfter
  <2>3. c \in copy.items <=> There(binding, Official, c)
    BY <2>2 DEF ManifestTells
  <2> QED BY <1>1, <2>3, ThereIsItem
<1> QED BY <1>2, <1>3

LEMMA TellsStays ==
  ASSUME ManifestTells, UNCHANGED <<catalog, binding, version, deltas, copy, answer>>
  PROVE  ManifestTells'
<1>1. Official' = Official
  BY DEF catalog, Official, OfficialBots
<1> QED BY <1>1 DEF ManifestTells, ToldAfter, There

LEMMA AskTells ==
  ASSUME ChannelInv, ManifestTells, Ask
  PROVE  ManifestTells' /\ ChannelInv'
<1>1. /\ answer' = [version |-> version, rows |-> binding]
      /\ UNCHANGED <<catalog, roles, binding, version, deltas, done, copy, handler>>
  BY DEF Ask, tables
<1>2. Official' = Official
  BY <1>1 DEF catalog, Official, OfficialBots
<1>3. version \in Nat /\ binding \in [Commands -> Rows]
  BY DEF ChannelInv
<1>4. answer' \in [version : Nat, rows : [Commands -> Rows]]
      /\ answer'.version = version /\ answer'.rows = binding
  BY <1>1, <1>3
<1>5. ChannelInv'
  BY <1>1, <1>3, <1>4 DEF ChannelInv
<1>6. ManifestTells'
  BY <1>1, <1>2, <1>4 DEF ManifestTells, ToldAfter, There
<1> QED BY <1>5, <1>6

LEMMA AnsweredTells ==
  ASSUME CatalogInv, ChannelInv, ManifestTells, NEW cat \in {Official, {}}, Answered(cat)
  PROVE  ManifestTells' /\ ChannelInv'
<1>1. /\ UNCHANGED <<catalog, roles, binding, version, deltas, done, handler>>
      /\ answer # NoAnswer /\ answer' = NoAnswer
      /\ copy' = [version |-> answer.version, items |-> Items(answer.rows, cat),
                  sound |-> cat = Official]
  BY DEF Answered, tables
<1>2. Official' = Official
  BY <1>1 DEF catalog, Official, OfficialBots
<1>3. cat \in SUBSET (Commands \X Definitions)
  BY AnswerTyped
<1>4. PICK items \in SUBSET Commands : items = Items(answer.rows, cat)
  BY <1>3, ItemsTyped
<1>5. /\ answer.version \in Nat /\ answer.version <= version
      /\ copy' \in [version : Nat, items : SUBSET Commands, sound : BOOLEAN]
      /\ copy'.version = answer.version /\ copy'.items = items
      /\ copy'.sound = (cat = Official)
  BY <1>1, <1>4 DEF ChannelInv
<1>6. ChannelInv'
  BY <1>1, <1>5 DEF ChannelInv
<1>7. ASSUME cat = Official, NEW c \in Commands, ~ToldAfter(answer.version, c)
      PROVE  c \in items <=> There(binding, Official, c)
  <2>1. answer.rows[c] = binding[c]
    BY <1>1, <1>7 DEF ManifestTells
  <2>2. c \in items <=> There(answer.rows, Official, c)
    BY <1>3, <1>4, <1>7, ThereIsItem
  <2> QED BY <2>1, <2>2, ThereStays
<1>8. ManifestTells'
  BY <1>1, <1>2, <1>5, <1>7, ZenonT(60) DEF ManifestTells, ToldAfter, There
<1> QED BY <1>6, <1>8

LEMMA DeliverTells ==
  ASSUME ChannelInv, ManifestTells, NEW n \in DOMAIN deltas, Deliver(n)
  PROVE  ManifestTells' /\ ChannelInv'
<1>1. PICK d \in DeltaRow : d = deltas[n]
  BY DEF ChannelInv
<1>2. /\ UNCHANGED <<catalog, roles, binding, version, deltas, done, answer, handler>>
      /\ n = copy.version + 1
      /\ copy' = [version |-> n,
                  items |-> IF d.op = "upsert" THEN copy.items \cup {d.command}
                            ELSE copy.items \ {d.command},
                  sound |-> copy.sound /\ d.sound]
  BY <1>1 DEF Deliver, Follows, tables
<1>3. Official' = Official
  BY <1>2 DEF catalog, Official, OfficialBots
<1>4. /\ n \in 1 .. version /\ version \in Nat
      /\ copy.version \in Nat /\ copy.items \subseteq Commands /\ copy.sound \in BOOLEAN
  BY DEF ChannelInv
<1>5. /\ d.command \in Commands /\ d.sound \in BOOLEAN /\ d.op \in {"upsert", "remove"}
  BY <1>1 DEF DeltaRow
<1>6. PICK items \in SUBSET Commands :
        items = IF d.op = "upsert" THEN copy.items \cup {d.command}
                ELSE copy.items \ {d.command}
  BY <1>4, <1>5
<1>7. /\ copy' \in [version : Nat, items : SUBSET Commands, sound : BOOLEAN]
      /\ copy'.version = n /\ copy'.items = items /\ copy'.sound = (copy.sound /\ d.sound)
  BY <1>2, <1>4, <1>5, <1>6
<1>8. ChannelInv'
  BY <1>2, <1>4, <1>7 DEF ChannelInv
<1>9. ASSUME copy.sound, d.sound, NEW c \in Commands, ~ToldAfter(n, c)
      PROVE  c \in items <=> There(binding, Official, c)
  <2>1. CASE c = d.command
    BY <1>1, <1>4, <1>5, <1>6, <1>9, <2>1 DEF ManifestTells
  <2>2. CASE c # d.command
    <3>1. ~ToldAfter(copy.version, c)
      BY <1>1, <1>2, <1>4, <1>9, <2>2 DEF ToldAfter
    <3> QED BY <1>6, <1>9, <2>2, <3>1 DEF ManifestTells
  <2> QED BY <2>1, <2>2
<1>10. ManifestTells'
  BY <1>2, <1>3, <1>7, <1>9, ZenonT(60) DEF ManifestTells, ToldAfter, There
<1> QED BY <1>8, <1>10

\* A change with the catalog at hand says of the command what becomes true.
LEMMA DeltaIsRight ==
  ASSUME NEW h \in Permitted \cup Bound, WantsWhatIsThere(h), NEW rows,
         rows[h.command] = Changed(h)
  PROVE  h.want = "allowed" <=> There(rows, h.catalog, h.command)
<1>1. /\ h.want \in {"allowed", "blocked"}
      /\ h.kind \in {"permission", "bind"}
  BY DEF Permitted, Bound
<1>2. CASE Lifts(h)
  <2>1. rows[h.command].status = "none" /\ h.want = "allowed" /\ h.command \in Ids(h.catalog)
    BY <1>2 DEF Lifts, Changed, NoBinding
  <2> QED BY <2>1 DEF There
<1>3. CASE ~Lifts(h) /\ h.want = "allowed"
  <2>1. rows[h.command].status = "allowed"
    BY <1>3 DEF Changed
  <2> QED BY <1>1, <1>3, <2>1 DEF There, WantsWhatIsThere
<1>4. CASE ~Lifts(h) /\ h.want = "blocked"
  <2>1. rows[h.command].status = "blocked"
    BY <1>4 DEF Changed
  <2> QED BY <1>4, <2>1 DEF There
<1> QED BY <1>1, <1>2, <1>3, <1>4

LEMMA DeltaTyped ==
  ASSUME ChannelInv, NEW n \in 1 .. version
  PROVE  deltas[n] \in DeltaRow /\ deltas[n].command \in Commands
<1>1. deltas[n] \in DeltaRow
  BY DEF ChannelInv
<1> QED BY <1>1 DEF DeltaRow

LEMMA CommitChangeTells ==
  ASSUME ChannelInv, ManifestTells, NEW t \in Slots, WantsWhatIsThere(handler[t]), CommitChange(t)
  PROVE  ManifestTells'
<1>1. UNCHANGED <<catalog, copy, answer>>
  BY DEF CommitChange, client
<1>2. Official' = Official
  BY <1>1 DEF catalog, Official, OfficialBots
<1>3. CASE ~MayChange(handler[t])
  BY <1>1, <1>3, TellsStays DEF CommitChange
<1>4. CASE MayChange(handler[t])
  <2>1. PICK h \in Permitted \cup Bound : h = handler[t]
    BY ChangeHandler
  <2>2. PICK d \in DeltaRow : d = Delta(h)
    BY <2>1, ChangeHandler
  <2>3. /\ binding' = [binding EXCEPT ![h.command] = Changed(h)]
        /\ version' = version + 1
        /\ deltas' = Append(deltas, d)
    BY <1>4, <2>1, <2>2 DEF CommitChange
  <2>4. /\ version \in Nat /\ version = Len(deltas)
        /\ copy.version \in Nat /\ copy.version <= version
        /\ answer # NoAnswer => answer.version \in Nat /\ answer.version <= version
        /\ h.command \in Commands /\ binding \in [Commands -> Rows]
        /\ copy.sound \in BOOLEAN
    BY <2>1, ChangeHandler DEF ChannelInv
  <2>5. /\ deltas'[version + 1] = d
        /\ \A m \in 1 .. version : deltas'[m] = deltas[m]
    BY <2>2, <2>3, <2>4 DEF ChannelInv
  <2>6. /\ binding'[h.command] = Changed(h)
        /\ \A c \in Commands : c # h.command => binding'[c] = binding[c]
    BY <2>3, <2>4
  <2>7. /\ d.command = h.command
        /\ d.sound => h.catalog = Official
        /\ d.op = "upsert" <=> h.want = "allowed"
    BY <2>2 DEF Delta
  \* What is not told after a version now was not told after it before.
  <2>8. ASSUME NEW n \in Nat, n <= version, NEW c,
               ~ \E m \in (n + 1) .. version' : deltas'[m].command = c
        PROVE  ~ToldAfter(n, c) /\ c # h.command
    <3>1. version + 1 \in (n + 1) .. version'
      BY <2>3, <2>4, <2>8
    <3>2. \A m \in (n + 1) .. version : m \in (n + 1) .. version' /\ m \in 1 .. version
      BY <2>3, <2>4, <2>8
    <3> QED BY <2>5, <2>7, <2>8, <3>1, <3>2 DEF ToldAfter
  <2>9. ASSUME NEW c \in Commands, c # h.command
        PROVE  There(binding', Official, c) <=> There(binding, Official, c)
    BY <2>6, <2>9, ThereStays
  <2>10. ASSUME NEW n \in 1 .. version', deltas'[n].sound,
                ~ \E m \in (n + 1) .. version' : deltas'[m].command = deltas'[n].command
         PROVE  deltas'[n].op = "upsert" <=> There(binding', Official, deltas'[n].command)
    <3>1. CASE n = version + 1
      <4>1. h.catalog = Official
        BY <2>5, <2>7, <2>10, <3>1
      <4>2. h.want = "allowed" <=> There(binding', Official, h.command)
        BY <2>1, <2>6, <4>1, DeltaIsRight
      <4> QED BY <2>5, <2>7, <3>1, <4>2
    <3>2. CASE n \in 1 .. version
      <4>1. deltas'[n] = deltas[n] /\ n \in Nat /\ n <= version
        BY <2>4, <2>5, <3>2
      <4>2. ~ToldAfter(n, deltas[n].command) /\ deltas[n].command # h.command
        BY <2>8, <2>10, <4>1
      <4>3. deltas[n].command \in Commands
        BY <3>2, DeltaTyped
      <4> QED BY <2>9, <2>10, <3>2, <4>1, <4>2, <4>3 DEF ManifestTells
    <3> QED BY <2>3, <2>4, <3>1, <3>2
  <2>11. ASSUME copy.sound, NEW c \in Commands,
                ~ \E m \in (copy.version + 1) .. version' : deltas'[m].command = c
         PROVE  c \in copy.items <=> There(binding', Official, c)
    <3>1. ~ToldAfter(copy.version, c) /\ c # h.command
      BY <2>4, <2>8, <2>11
    <3> QED BY <2>9, <2>11, <3>1 DEF ManifestTells
  <2>12. ASSUME answer # NoAnswer, NEW c \in Commands,
                ~ \E m \in (answer.version + 1) .. version' : deltas'[m].command = c
         PROVE  answer.rows[c] = binding'[c]
    <3>1. ~ToldAfter(answer.version, c) /\ c # h.command
      BY <2>4, <2>8, <2>12
    <3> QED BY <2>6, <2>12, <3>1 DEF ManifestTells
  <2> QED BY <1>1, <1>2, <2>10, <2>11, <2>12 DEF ManifestTells, ToldAfter, There
<1> QED BY <1>3, <1>4

LEMMA CatalogStepTells ==
  ASSUME ChannelInv, ManifestTells, CatalogStep
  PROVE  ManifestTells' /\ ChannelInv'
<1>1. /\ UNCHANGED <<roles, binding, version, done, answer, handler>>
      /\ copy' = [copy EXCEPT !.sound = @ /\ Official' = Official]
      /\ deltas' = [n \in DOMAIN deltas |-> [deltas[n] EXCEPT !.sound = @ /\ Official' = Official]]
  BY DEF CatalogStep
<1>2. /\ deltas \in Seq(DeltaRow) /\ version = Len(deltas) /\ version \in Nat
      /\ DOMAIN deltas = 1 .. version
      /\ copy \in [version : Nat, items : SUBSET Commands, sound : BOOLEAN]
  BY DEF ChannelInv
<1>3. PICK same \in BOOLEAN : same = (Official' = Official)
  OBVIOUS
<1>4. ASSUME NEW n \in 1 .. version
      PROVE  /\ deltas'[n] \in DeltaRow
             /\ deltas'[n].command = deltas[n].command
             /\ deltas'[n].op = deltas[n].op
             /\ deltas'[n].sound => deltas[n].sound /\ same
  <2>1. PICK d \in [command : Commands, sound : BOOLEAN, op : {"upsert", "remove"}] : d = deltas[n]
    BY DeltaTyped DEF DeltaRow
  <2>2. deltas'[n] = [d EXCEPT !.sound = @ /\ same]
    BY <1>1, <1>2, <1>3, <2>1
  <2>3. PICK x \in BOOLEAN : x = (d.sound /\ same)
    OBVIOUS
  <2>4. deltas'[n] = [command |-> d.command, sound |-> x, op |-> d.op]
    BY <2>1, <2>2, <2>3
  <2> QED BY <2>1, <2>3, <2>4 DEF DeltaRow
<1>5. /\ deltas' \in Seq(DeltaRow) /\ Len(deltas') = version
  BY <1>1, <1>2, <1>4
<1>6. /\ copy' \in [version : Nat, items : SUBSET Commands, sound : BOOLEAN]
      /\ copy'.version = copy.version /\ copy'.items = copy.items
      /\ copy'.sound => copy.sound /\ same
  <2>1. PICK x \in BOOLEAN : x = (copy.sound /\ same)
    OBVIOUS
  <2>2. copy' = [version |-> copy.version, items |-> copy.items, sound |-> x]
    BY <1>1, <1>2, <1>3, <2>1
  <2> QED BY <1>2, <2>1, <2>2
<1>7. ChannelInv'
  BY <1>1, <1>2, <1>5, <1>6 DEF ChannelInv
<1>8. ASSUME NEW n \in Nat, NEW c, ~ \E m \in (n + 1) .. version : deltas'[m].command = c
      PROVE  ~ToldAfter(n, c)
  <2>1. \A m \in (n + 1) .. version : m \in 1 .. version
    BY <1>2
  <2> QED BY <1>4, <1>8, <2>1 DEF ToldAfter
<1>9. ASSUME NEW n \in 1 .. version, deltas'[n].sound,
             ~ \E m \in (n + 1) .. version : deltas'[m].command = deltas'[n].command
      PROVE  deltas'[n].op = "upsert" <=> There(binding, Official', deltas'[n].command)
  <2>1. same /\ deltas[n].sound /\ n \in Nat
    BY <1>2, <1>4, <1>9
  <2>2. ~ToldAfter(n, deltas[n].command)
    BY <1>4, <1>8, <1>9, <2>1
  <2>3. deltas[n].op = "upsert" <=> There(binding, Official, deltas[n].command)
    BY <2>1, <2>2 DEF ManifestTells
  <2> QED BY <1>3, <1>4, <2>1, <2>3
<1>10. ASSUME copy'.sound, NEW c \in Commands,
              ~ \E m \in (copy.version + 1) .. version : deltas'[m].command = c
       PROVE  c \in copy.items <=> There(binding, Official', c)
  <2>1. same /\ copy.sound /\ ~ToldAfter(copy.version, c)
    BY <1>2, <1>6, <1>8, <1>10
  <2> QED BY <1>3, <2>1 DEF ManifestTells
<1>11. ASSUME answer # NoAnswer, NEW c \in Commands,
              ~ \E m \in (answer.version + 1) .. version : deltas'[m].command = c
       PROVE  answer.rows[c] = binding[c]
  <2>1. answer.version \in Nat
    BY <1>11 DEF ChannelInv
  <2>2. ~ToldAfter(answer.version, c)
    BY <1>8, <1>11, <2>1
  <2> QED BY <1>11, <2>2 DEF ManifestTells
<1>12. ManifestTells'
  BY <1>1, <1>6, <1>9, <1>10, <1>11, ZenonT(60) DEF ManifestTells, ToldAfter, There
<1> QED BY <1>7, <1>12

-----------------------------------------------------------------------------
(* The inductive invariant of Commands, step by step.                      *)

HandlersRead == \A t \in Slots : WantsWhatIsThere(handler[t]) /\ SawTheRow(handler[t])

\* What is logged has its operation completed, and is the only one of it.
LoggedOnce == ActsOnce /\ \A i \in invoked : i.operation \in done

KInv == /\ CatalogInv
        /\ ChannelInv
        /\ ManifestTells
        /\ HandlersRead
        /\ LoggedOnce
        /\ CheckedIsCurrent

LEMMA KInit == ASSUME MInit PROVE KInv
<1>1. /\ answer = NoAnswer /\ version = 0 /\ deltas = << >> /\ invoked = {} /\ done = {}
      /\ binding = [c \in Commands |-> NoBinding]
      /\ handler = [t \in Slots |-> NoHandler]
      /\ copy = [version |-> 0, items |-> {}, sound |-> FALSE]
      /\ roles \in [Users -> Roles]
  BY DEF MInit
<1>2. CatalogInv
  BY CatalogInit DEF MInit
<1>3. ChannelInv
  BY <1>1, NoneIsTyped, CommandsAssumption DEF ChannelInv
<1>4. ManifestTells
  BY <1>1 DEF ManifestTells
<1>5. HandlersRead
  BY <1>1 DEF HandlersRead, WantsWhatIsThere, SawTheRow, NoHandler
<1>6. LoggedOnce /\ CheckedIsCurrent
  BY <1>1 DEF LoggedOnce, ActsOnce, CheckedIsCurrent
<1> QED BY <1>2, <1>3, <1>4, <1>5, <1>6 DEF KInv

\* Steps that complete no operation.
LEMMA LogStays ==
  ASSUME KInv, UNCHANGED <<done, invoked>>
  PROVE  LoggedOnce' /\ CheckedIsCurrent'
BY DEF KInv, LoggedOnce, ActsOnce, CheckedIsCurrent

LEMMA BeginKeeps ==
  ASSUME KInv, NEW t \in Slots, NEW h \in UnderWay,
         WantsWhatIsThere(h), SawTheRow(h), Begins(t, h)
  PROVE  KInv'
<1>1. /\ UNCHANGED <<catalog, binding, version, deltas, copy, answer, done, invoked>>
      /\ handler' = [handler EXCEPT ![t] = h]
  BY DEF Begins, tables, client
<1>2. CatalogInv' /\ ChannelInv' /\ ManifestTells'
  BY <1>1, CatalogStays, BeginsKeeps, TellsStays DEF KInv
<1>3. HandlersRead'
  BY <1>1 DEF KInv, ChannelInv, HandlersRead, WantsWhatIsThere, SawTheRow
<1> QED BY <1>1, <1>2, <1>3, LogStays DEF KInv

LEMMA HelpKeeps ==
  ASSUME KInv, NEW t \in Slots, NEW u \in Users, NEW k \in Keys, Help(t, u, k)
  PROVE  KInv'
<1>1. PICK h : h = [kind |-> "help", user |-> u, key |-> k]
  OBVIOUS
<1>2. h \in UnderWay /\ h.kind = "help"
  BY <1>1 DEF UnderWay, Asked
<1> QED BY <1>1, <1>2, BeginKeeps DEF Help, WantsWhatIsThere, SawTheRow

LEMMA InvokeKeeps ==
  ASSUME KInv, NEW t \in Slots, NEW u \in Users, NEW k \in Keys, NEW c \in Commands,
         NEW cat \in {Official, {}}, NEW m \in {"invoke", "stateful"}, Invoke(t, u, k, c, cat, m)
  PROVE  KInv'
<1>1. PICK h : h = [kind |-> m, user |-> u, key |-> k, command |-> c, version |-> version,
                    row |-> binding[c]]
  OBVIOUS
<1>2. version \in Nat /\ binding[c] \in Rows
  BY DEF KInv, ChannelInv
<1>3. h \in UnderWay /\ h.kind \in {"invoke", "stateful"}
  BY <1>1, <1>2 DEF UnderWay, Checked
<1>4. SawTheRow(h)
  BY <1>1, <1>2 DEF SawTheRow
<1> QED BY <1>1, <1>3, <1>4, BeginKeeps DEF Invoke, WantsWhatIsThere

LEMMA PermissionKeeps ==
  ASSUME KInv, NEW t \in Slots, NEW u \in Users, NEW k \in Keys, NEW c \in Commands,
         NEW cat \in {Official, {}}, NEW want \in {"allowed", "blocked"},
         Permission(t, u, k, c, want, cat)
  PROVE  KInv'
<1>1. PICK h : h = [kind |-> "permission", user |-> u, key |-> k, command |-> c, want |-> want,
                    catalog |-> cat, row |-> binding[c]]
  OBVIOUS
<1>2. cat \in SUBSET (Commands \X Definitions) /\ binding[c] \in Rows
  BY AnswerTyped DEF KInv, ChannelInv
<1>3. h \in Permitted
  BY <1>1, <1>2 DEF Permitted
<1>4. WantsWhatIsThere(h) /\ SawTheRow(h)
  BY <1>1 DEF Permission, WantsWhatIsThere, SawTheRow
<1> QED BY <1>1, <1>3, <1>4, BeginKeeps DEF Permission, UnderWay

LEMMA BindKeeps ==
  ASSUME KInv, NEW t \in Slots, NEW u \in Users, NEW k \in Keys, NEW c \in Commands,
         NEW cat \in {Official, {}}, NEW want \in {"allowed", "blocked"},
         NEW o \in Permissions, Bind(t, u, k, c, want, o, cat)
  PROVE  KInv'
<1>1. PICK h : h = [kind |-> "bind", user |-> u, key |-> k, command |-> c, want |-> want,
                    catalog |-> cat, override |-> o,
                    needs |-> commands[c].definition]
  OBVIOUS
<1>2. cat \in SUBSET (Commands \X Definitions)
  BY AnswerTyped DEF KInv
<1>3. commands[c].definition \in Permissions
  <2>1. commands[c] \in CommandRow
    BY DEF KInv, CatalogInv
  <2> QED BY <2>1 DEF CommandRow, NoCommand, Permissions
<1>4. h \in Bound
  BY <1>1, <1>2, <1>3 DEF Bound
<1>5. want = "allowed" => c \in Ids(cat) \/ c[1] \notin CatalogBots(cat)
  <2>1. CASE cat = Official
    BY <2>1, OfficialTyped DEF KInv, Bind
  <2>2. CASE cat = {}
    BY <2>2 DEF CatalogBots, Ids
  <2> QED BY <2>1, <2>2
<1>6. WantsWhatIsThere(h) /\ SawTheRow(h)
  BY <1>1, <1>5 DEF WantsWhatIsThere, SawTheRow
<1> QED BY <1>1, <1>4, <1>6, BeginKeeps DEF Bind, UnderWay

LEMMA LostKeeps ==
  ASSUME KInv, NEW t \in Slots, Lost(t)
  PROVE  KInv'
<1>1. /\ UNCHANGED <<catalog, roles, binding, version, deltas, copy, answer, done, invoked>>
      /\ handler' = [handler EXCEPT ![t] = NoHandler]
  BY DEF Lost, tables, client
<1>2. ChannelInv'
  BY <1>1, NoneIsTyped DEF KInv, ChannelInv
<1>3. HandlersRead'
  BY <1>1 DEF KInv, ChannelInv, HandlersRead, WantsWhatIsThere, SawTheRow, NoHandler
<1>4. CatalogInv' /\ ManifestTells'
  BY <1>1, CatalogStays, TellsStays DEF KInv
<1> QED BY <1>1, <1>2, <1>3, <1>4, LogStays DEF KInv

\* An operation is logged once, as it was checked.
LEMMA LogKeeps ==
  ASSUME KInv, NEW t \in Slots, FirstTime(handler[t]), Logged(t),
         handler[t].kind = "invoke" => handler[t].version = version
  PROVE  LoggedOnce' /\ CheckedIsCurrent'
<1>1. PICK i : i = [slot |-> t, operation |-> Operation(handler[t]),
                    read |-> IF handler[t].kind = "invoke" THEN handler[t].row ELSE NoBinding,
                    found |-> IF handler[t].kind = "invoke" THEN binding[handler[t].command]
                              ELSE NoBinding]
  OBVIOUS
<1>2. /\ invoked' = invoked \cup {i}
      /\ done' = done \cup {i.operation}
      /\ i.operation \notin done
  BY <1>1 DEF Logged, FirstTime
<1>3. i.read = i.found
  BY <1>1 DEF KInv, HandlersRead, SawTheRow
<1>4. LoggedOnce'
  BY <1>2 DEF KInv, LoggedOnce, ActsOnce
<1>5. CheckedIsCurrent'
  BY <1>2, <1>3 DEF KInv, CheckedIsCurrent
<1> QED BY <1>4, <1>5

LEMMA CommitInvocationKeeps ==
  ASSUME KInv, NEW t \in Slots, CommitInvocation(t)
  PROVE  KInv'
<1>1. /\ UNCHANGED <<catalog, roles, binding, version, deltas, copy, answer>>
      /\ handler' = [handler EXCEPT ![t] = NoHandler]
  BY DEF CommitInvocation, client, catalog
<1>2. ChannelInv'
  BY CommitInvocationTyped DEF KInv
<1>3. HandlersRead'
  BY <1>1 DEF KInv, ChannelInv, HandlersRead, WantsWhatIsThere, SawTheRow, NoHandler
<1>4. CatalogInv' /\ ManifestTells'
  BY <1>1, CatalogStays, TellsStays DEF KInv
<1>5. LoggedOnce' /\ CheckedIsCurrent'
  <2>1. CASE FirstTime(handler[t]) /\ (handler[t].kind = "invoke" => StillAllowed(handler[t]))
    <3>1. handler[t].kind = "invoke" => handler[t].version = version
      BY <2>1 DEF StillAllowed
    <3> QED BY <2>1, <3>1, LogKeeps DEF CommitInvocation
  <2>2. CASE ~(FirstTime(handler[t]) /\ (handler[t].kind = "invoke" => StillAllowed(handler[t])))
    BY <2>2, LogStays DEF CommitInvocation
  <2> QED BY <2>1, <2>2
<1> QED BY <1>2, <1>3, <1>4, <1>5 DEF KInv

LEMMA CommitChangeKeeps ==
  ASSUME KInv, NEW t \in Slots, CommitChange(t)
  PROVE  KInv'
<1>1. /\ UNCHANGED catalog
      /\ handler' = [handler EXCEPT ![t] = NoHandler]
      /\ handler[t].kind \in {"permission", "bind"}
      /\ handler \in [Slots -> UnderWay] /\ version \in Nat
  BY DEF CommitChange, KInv, ChannelInv
<1>2. CatalogInv' /\ ChannelInv'
  BY <1>1, CatalogStays, CommitChangeTyped DEF KInv
<1>3. ManifestTells'
  BY CommitChangeTells DEF KInv, HandlersRead
<1>4. HandlersRead'
  <2>1. CASE MayChange(handler[t])
    <3>1. version' = version + 1
      BY <2>1 DEF CommitChange
    <3>2. ASSUME NEW s \in Slots, s # t  PROVE SawTheRow(handler[s])'
      <4>1. handler'[s] = handler[s] /\ handler[s] \in UnderWay
        BY <1>1, <3>2
      <4>2. handler[s].kind = "invoke" => handler[s].version \in Nat /\ handler[s].version <= version
        BY <4>1 DEF KInv, HandlersRead, SawTheRow, UnderWay, NoHandler, Asked, Checked, Permitted, Bound
      <4> QED BY <1>1, <3>1, <4>1, <4>2 DEF SawTheRow
    <3>3. SawTheRow(handler[t])'
      BY <1>1 DEF SawTheRow, NoHandler
    <3>4. \A s \in Slots : WantsWhatIsThere(handler'[s])
      BY <1>1 DEF KInv, HandlersRead, WantsWhatIsThere, NoHandler
    <3> QED BY <3>2, <3>3, <3>4 DEF HandlersRead, WantsWhatIsThere
  <2>2. CASE ~MayChange(handler[t])
    <3>1. UNCHANGED <<binding, version>>
      BY <2>2 DEF CommitChange
    <3> QED BY <1>1, <3>1 DEF KInv, HandlersRead, WantsWhatIsThere, SawTheRow, NoHandler
  <2> QED BY <2>1, <2>2
<1>5. LoggedOnce' /\ CheckedIsCurrent'
  <2>1. CASE MayChange(handler[t])
    BY <1>1, <2>1, LogKeeps DEF CommitChange, MayChange
  <2>2. CASE ~MayChange(handler[t])
    BY <2>2, LogStays DEF CommitChange
  <2> QED BY <2>1, <2>2
<1> QED BY <1>2, <1>3, <1>4, <1>5 DEF KInv

\* Members, the channel's end and the registry's changes leave handlers alone.
LEMMA SurroundingsKeep ==
  ASSUME KInv, \/ Dissolve
               \/ \E u \in Users, r \in Roles : Reroled(u, r)
               \/ CatalogStep
               \/ Ask
               \/ \E cat \in {Official, {}} : Answered(cat)
               \/ \E n \in DOMAIN deltas : Deliver(n)
  PROVE  KInv'
<1>1. UNCHANGED <<binding, version, handler, done, invoked>>
  BY DEF Dissolve, Reroled, CatalogStep, Ask, Answered, Deliver, client, tables
<1>2. HandlersRead'
  BY <1>1 DEF KInv, HandlersRead, WantsWhatIsThere, SawTheRow
<1>3. CASE Dissolve
  <2>1. UNCHANGED <<catalog, roles, binding, version, deltas, copy, answer, handler, done>>
    BY <1>3 DEF Dissolve, client
  <2>2. CatalogInv' /\ ManifestTells' /\ ChannelInv'
    BY <2>1, CatalogStays, TellsStays DEF KInv, ChannelInv
  <2> QED BY <1>1, <1>2, <2>2, LogStays DEF KInv
<1>4. CASE \E u \in Users, r \in Roles : Reroled(u, r)
  <2>1. /\ UNCHANGED <<catalog, binding, version, deltas, copy, answer, handler, done>>
        /\ roles' \in [Users -> Roles]
    BY <1>4 DEF Reroled, client, KInv, ChannelInv
  <2>2. CatalogInv' /\ ManifestTells' /\ ChannelInv'
    BY <2>1, CatalogStays, TellsStays DEF KInv, ChannelInv
  <2> QED BY <1>1, <1>2, <2>2, LogStays DEF KInv
<1>5. CASE CatalogStep
  <2>1. CatalogInv' /\ ManifestTells' /\ ChannelInv'
    BY <1>5, CNextKeeps, CatalogStepTells DEF KInv, CatalogStep
  <2> QED BY <1>1, <1>2, <2>1, LogStays DEF KInv
<1>6. CASE Ask \/ (\E cat \in {Official, {}} : Answered(cat)) \/ \E n \in DOMAIN deltas : Deliver(n)
  <2>1. UNCHANGED catalog
    BY <1>6 DEF Ask, Answered, Deliver
  <2>2. ManifestTells' /\ ChannelInv'
    BY <1>6, AskTells, AnsweredTells, DeliverTells DEF KInv
  <2> QED BY <1>1, <1>2, <2>1, <2>2, CatalogStays, LogStays DEF KInv
<1> QED BY <1>3, <1>4, <1>5, <1>6

LEMMA MNextKeeps == ASSUME KInv, MNext PROVE KInv'
<1>1. CASE \E t \in Slots, u \in Users, k \in Keys :
             \/ Help(t, u, k)
             \/ \E c \in Commands, cat \in {Official, {}} :
                  \/ \E m \in {"invoke", "stateful"} : Invoke(t, u, k, c, cat, m)
                  \/ \E w \in {"allowed", "blocked"} :
                       \/ Permission(t, u, k, c, w, cat)
                       \/ \E o \in Permissions : Bind(t, u, k, c, w, o, cat)
  <2>1. PICK t \in Slots, u \in Users, k \in Keys :
             \/ Help(t, u, k)
             \/ \E c \in Commands, cat \in {Official, {}} :
                  \/ \E m \in {"invoke", "stateful"} : Invoke(t, u, k, c, cat, m)
                  \/ \E w \in {"allowed", "blocked"} :
                       \/ Permission(t, u, k, c, w, cat)
                       \/ \E o \in Permissions : Bind(t, u, k, c, w, o, cat)
    BY <1>1
  <2>2. CASE Help(t, u, k)
    BY <2>2, HelpKeeps
  <2>3. ASSUME NEW c \in Commands, NEW cat \in {Official, {}}, NEW m \in {"invoke", "stateful"},
               Invoke(t, u, k, c, cat, m)
        PROVE  KInv'
    BY <2>3, InvokeKeeps
  <2>4. ASSUME NEW c \in Commands, NEW cat \in {Official, {}}, NEW w \in {"allowed", "blocked"},
               Permission(t, u, k, c, w, cat)
        PROVE  KInv'
    BY <2>4, PermissionKeeps
  <2>5. ASSUME NEW c \in Commands, NEW cat \in {Official, {}}, NEW w \in {"allowed", "blocked"},
               NEW o \in Permissions, Bind(t, u, k, c, w, o, cat)
        PROVE  KInv'
    BY <2>5, BindKeeps
  <2> QED BY <2>1, <2>2, <2>3, <2>4, <2>5
<1>2. CASE \E t \in Slots : CommitInvocation(t) \/ CommitChange(t) \/ Lost(t)
  BY <1>2, CommitInvocationKeeps, CommitChangeKeeps, LostKeeps
<1> QED BY <1>1, <1>2, SurroundingsKeep DEF MNext

LEMMA MStutterKeeps == ASSUME KInv, UNCHANGED mvars PROVE KInv'
<1>1. UNCHANGED <<catalog, roles, dissolved, binding, version, deltas, done, invoked, answer,
                  copy, handler>>
  BY DEF mvars, tables, client
<1>2. CatalogInv' /\ ManifestTells' /\ ChannelInv'
  BY <1>1, CatalogStays, TellsStays DEF KInv, ChannelInv
<1>3. HandlersRead'
  BY <1>1 DEF KInv, HandlersRead, WantsWhatIsThere, SawTheRow
<1> QED BY <1>1, <1>2, <1>3, LogStays DEF KInv

LEMMA KInvHolds == MSpec => []KInv
<1>1. KInv /\ [MNext]_mvars => KInv'
  BY MNextKeeps, MStutterKeeps
<1> QED BY <1>1, KInit, PTL DEF MSpec

\* Whatever lists bots sync, in whatever order and up to whichever conflict, and
\* whatever managers allow and block, the tables of channel and registry hold
\* values of their types, and names and aliases lead to the commands they belong to.
THEOREM CatalogAndManifestAgree == MSpec => []ManifestInv
<1>1. KInv => ManifestInv
  <2> SUFFICES ASSUME KInv PROVE ManifestInv
    OBVIOUS
  <2>1. \A t \in Slots : handler[t].kind \in {"idle", "invoke", "stateful", "help", "permission", "bind"}
    <3> SUFFICES ASSUME NEW t \in Slots
                 PROVE  handler[t].kind \in {"idle", "invoke", "stateful", "help", "permission", "bind"}
      OBVIOUS
    <3>1. handler[t] \in UnderWay
      BY DEF KInv, ChannelInv
    <3> QED BY <3>1 DEF UnderWay, NoHandler, Asked, Checked, Permitted, Bound
  <2> QED BY <2>1 DEF KInv, CatalogInv, ChannelInv, ManifestInv, ManifestTypeOK
<1> QED BY <1>1, KInvHolds, PTL

\* A client at the channel's version, with a catalog that was the registry's and
\* is, has the channel's commands, whichever deltas reached it in whatever order.
THEOREM ManifestsFollow == MSpec => []ManifestFollows
<1>1. KInv => ManifestFollows
  BY ManifestIsRight DEF KInv
<1> QED BY <1>1, KInvHolds, PTL

\* An invocation answered at once runs on the row the channel has at that moment,
\* whatever was changed while the handler waited for the bot.
THEOREM ChecksAreCurrent == MSpec => []CheckedIsCurrent
<1>1. KInv => CheckedIsCurrent
  BY DEF KInv
<1> QED BY <1>1, KInvHolds, PTL

\* One operation id has one effect, whichever handlers of it wait at the same time.
THEOREM OperationsActOnce == MSpec => []ActsOnce
<1>1. KInv => ActsOnce
  BY DEF KInv, LoggedOnce
<1> QED BY <1>1, KInvHolds, PTL

=============================================================================
