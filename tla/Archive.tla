-------------------------------- MODULE Archive --------------------------------
(***************************************************************************)
(* The way of the business data into PostgreSQL.  Every object that keeps  *)
(* data (a channel, a user directory, a DM directory, the bot registry) is *)
(* a source: it writes an archive record in the transaction that changes   *)
(* its rows, numbers its records, and its alarm sends them to a queue that *)
(* repeats and reorders.  The consumer first stores a batch in a raw log   *)
(* and then, source by source, applies what is next in number to the       *)
(* tables, one record and one transaction at a time.                       *)
(*                                                                         *)
(* A row holds the number of the record that wrote it, 0 when it is absent *)
(* or soft-deleted.  Most rows have one source.  A row of chat.attachments *)
(* has several: the directory of the user who uploaded it and every        *)
(* channel that shows it write the same row, each with a number of its own *)
(* sequence.  Records passed validation when they were made; a flush of    *)
(* several batches is several flushes; the queue's own limit on            *)
(* redeliveries is left out.                                               *)
(***************************************************************************)
EXTENDS Naturals, Sequences, FiniteSets

CONSTANTS
  Sources,      \* objects that archive, each with a sequence of its own
  Plain,        \* rows written one at a time (upsert)
  Scoped,       \* rows of one scope, written together (replace_scope)
  Shared,       \* rows several sources write, one at a time (chat.attachments)
  Consumers,    \* invocations of the consumer that run at the same time
  MaxSeq,       \* bound: records per source
  MaxAttempts,  \* sends of a record before it is given up (20 in the code)
  MaxFaults     \* bound: faults, each kind at most once

ASSUME ArchiveAssumption == /\ MaxSeq \in Nat
                            /\ MaxAttempts \in Nat \ {0}
                            /\ MaxFaults \in Nat
                            /\ Shared \cap (Plain \cup Scoped) = {}

VARIABLES
  log,       \* source -> its records, [op, rows] each
  past,      \* source -> its rows after each record
  outbox,    \* source -> record -> [status, attempts]
  arming,    \* sources that committed a record and have not set the alarm
  alarm,     \* sources whose alarm is set
  sending,   \* source -> records of the flush that waits for the queue
  queue,     \* messages <<source, number>> in the queue, delivered or not
  consumer,  \* consumer -> where it is
  raw,       \* messages in the raw log
  applied,   \* those of them marked applied
  watermark, \* source -> number of the last record applied
  table,     \* source -> row of its own -> [at, live] in the normalized tables
  shared,    \* shared row -> source and number of the record it is from, or <<>>
  faults     \* kinds of faults that have happened

source == <<log, past, outbox, arming, alarm, sending>>
archive == <<raw, applied, watermark, table, shared>>
avars == <<source, queue, consumer, archive, faults>>

Rows == Plain \cup Scoped
Numbers == 1 .. MaxSeq
Messages == Sources \X Numbers
Records == [op : {"upsert"}, rows : {{k} : k \in Plain \cup Shared}]
           \cup [op : {"replace"}, rows : SUBSET Scoped]

Idle == [pc |-> "idle", batch |-> {}, acks |-> {}, todo |-> {}, next |-> <<>>]

ArchiveTypeOK ==
  /\ log \in [Sources -> UNION {[1 .. n -> Records] : n \in 0 .. MaxSeq}]
  /\ \A s \in Sources : past[s] \in [1 .. Len(log[s]) -> [Rows -> 0 .. Len(log[s])]]
  /\ outbox \in [Sources -> [Numbers -> [status : {"none", "pending", "queued", "failed"},
                                         attempts : 0 .. MaxAttempts]]]
  /\ arming \subseteq Sources /\ alarm \subseteq Sources
  /\ sending \in [Sources -> SUBSET Numbers]
  /\ queue \subseteq Messages
  /\ consumer \in [Consumers -> [pc : {"idle", "persist", "drain"},
                                 batch : SUBSET Messages, acks : SUBSET Messages,
                                 todo : SUBSET Sources, next : {<<>>} \cup Messages]]
  /\ applied \subseteq raw /\ raw \subseteq Messages
  /\ watermark \in [Sources -> 0 .. MaxSeq]
  /\ table \in [Sources -> [Rows -> [at : 0 .. MaxSeq, live : BOOLEAN]]]
  /\ shared \in [Shared -> {<<>>} \cup Messages]
  /\ faults \subseteq {"stranded", "evicted", "refused", "drain", "died", "unacked"}

AInit ==
  /\ log = [s \in Sources |-> <<>>]
  /\ past = [s \in Sources |-> <<>>]
  /\ outbox = [s \in Sources |-> [n \in Numbers |-> [status |-> "none", attempts |-> 0]]]
  /\ arming = {} /\ alarm = {}
  /\ sending = [s \in Sources |-> {}]
  /\ queue = {}
  /\ consumer = [c \in Consumers |-> Idle]
  /\ raw = {} /\ applied = {}
  /\ watermark = [s \in Sources |-> 0]
  /\ table = [s \in Sources |-> [k \in Rows |-> [at |-> 0, live |-> FALSE]]]
  /\ shared = [k \in Shared |-> <<>>]
  /\ faults = {}

(* One more fault of a kind that has not happened yet. *)
Fault(kind) == /\ kind \notin faults
               /\ Cardinality(faults) < MaxFaults
               /\ faults' = faults \cup {kind}

-----------------------------------------------------------------------------
(* The source. *)

\* The rows that are of source s alone after its first n records.
AsOf(s, n) == IF n = 0 THEN [k \in Rows |-> 0] ELSE past[s][n]

Pending(s) == {n \in Numbers : outbox[s][n].status = "pending"}

(* The business write and its record, in one transaction. *)
Write(s, r) ==
  LET n == Len(log[s]) + 1
  IN /\ n <= MaxSeq
     /\ log' = [log EXCEPT ![s] = Append(@, r)]
     /\ past' = [past EXCEPT ![s] = Append(@,
                  [k \in Rows |-> IF k \in r.rows THEN n
                                  ELSE IF r.op = "replace" /\ k \in Scoped THEN 0
                                  ELSE AsOf(s, n - 1)[k]])]
     /\ outbox' = [outbox EXCEPT ![s][n].status = "pending"]
     /\ arming' = arming \cup {s}
     /\ UNCHANGED <<alarm, sending, queue, consumer, archive, faults>>

(* scheduleArchiveAlarm, after the transaction. *)
Arm(s) == /\ s \in arming
          /\ arming' = arming \ {s}
          /\ alarm' = IF Pending(s) = {} THEN alarm \ {s} ELSE alarm \cup {s}
          /\ UNCHANGED <<log, past, outbox, sending, queue, consumer, archive, faults>>

(* The alarm reads what is due; a record not sent before is due at once. *)
Flush(s) == /\ s \in alarm
            /\ sending[s] = {}
            /\ alarm' = alarm \ {s}
            /\ \E due \in SUBSET Pending(s) :
                 /\ due # {}
                 /\ \A n \in Pending(s) \ due : outbox[s][n].attempts > 0
                 /\ sending' = [sending EXCEPT ![s] = due]
            /\ UNCHANGED <<log, past, outbox, arming, queue, consumer, archive, faults>>

Bumped(s) == [n \in Numbers |->
                LET attempts == outbox[s][n].attempts + 1
                IN [status |-> IF attempts >= MaxAttempts THEN "failed" ELSE "pending",
                    attempts |-> attempts]]


\* The rest of the alarm: with records left, the next alarm is set.
Rearms(s) == alarm' = IF \E n \in Numbers : outbox'[s][n].status = "pending"
                        THEN alarm \cup {s} ELSE alarm \ {s}

Answered(s, rows) ==
  /\ sending[s] # {}
  /\ outbox' = [outbox EXCEPT ![s] = [n \in Numbers |-> IF n \in sending[s]
                                        THEN rows[n] ELSE outbox[s][n]]]
  /\ sending' = [sending EXCEPT ![s] = {}]
  /\ Rearms(s)
  /\ UNCHANGED <<log, past, arming, consumer, archive, faults>>

Queued(s) == [n \in Numbers |-> [outbox[s][n] EXCEPT !.status = "queued"]]

(* sendBatch is answered. *)
Sent(s) == /\ Answered(s, Queued(s))
           /\ queue' = queue \cup {<<s, n>> : n \in sending[s]}

(* sendBatch fails, and the queue may have the records all the same. *)
SendFails(s) == /\ Answered(s, Bumped(s))
                /\ \/ UNCHANGED queue
                   \/ queue' = queue \cup {<<s, n>> : n \in sending[s]}

(* The object is evicted while it sends: the platform runs the alarm again. *)
EvictedSending(s) == /\ sending[s] # {}
                     /\ Fault("evicted")
                     /\ sending' = [sending EXCEPT ![s] = {}]
                     /\ alarm' = alarm \cup {s}
                     /\ \/ UNCHANGED queue
                        \/ queue' = queue \cup {<<s, n>> : n \in sending[s]}
                     /\ UNCHANGED <<log, past, outbox, arming, consumer, archive>>

(* The object is evicted between the commit and its alarm. *)
Stranded(s) == /\ s \in arming
               /\ Fault("stranded")
               /\ arming' = arming \ {s}
               /\ UNCHANGED <<log, past, outbox, alarm, sending, queue, consumer, archive>>

-----------------------------------------------------------------------------
(* The consumer. *)

SourcesOf(msgs) == {m[1] : m \in msgs}

(* A batch; the queue keeps its messages until they are acknowledged. *)
Deliver(c, batch) ==
  /\ consumer[c].pc = "idle"
  /\ batch # {} /\ batch \subseteq queue
  /\ consumer' = [consumer EXCEPT ![c] = [Idle EXCEPT !.pc = "persist", !.batch = batch]]
  /\ UNCHANGED <<source, queue, archive, faults>>

\* The state of the consumer after the transaction that stores its batch.
Stored(c, acks) == [consumer[c] EXCEPT !.pc = "drain", !.acks = acks, !.todo = SourcesOf(acks)]

(* The batch is in the raw log, records that were there before included. *)
Persist(c) == /\ consumer[c].pc = "persist"
              /\ raw' = raw \cup consumer[c].batch
              /\ consumer' = [consumer EXCEPT ![c] = Stored(c, consumer[c].batch)]
              /\ UNCHANGED <<source, queue, applied, watermark, table, shared, faults>>

(* The database refuses one insert.  The transaction is aborted from there *)
(* on, COMMIT ends it as a rollback and reports no error: the messages     *)
(* before the refused one count as stored.                                 *)
Refused(c) == /\ consumer[c].pc = "persist"
              /\ Fault("refused")
              /\ \E m \in consumer[c].batch : \E before \in SUBSET (consumer[c].batch \ {m}) :
                   consumer' = [consumer EXCEPT ![c] = Stored(c, before)]
              /\ UNCHANGED <<source, queue, archive>>

\* Mutant: the watermark is read without FOR UPDATE.
Unguarded(s) == TRUE

\* No other consumer holds the row lock on the watermark of s.
Unlocked(s) == \A d \in Consumers : consumer[d].next # <<>> => consumer[d].next[1] # s

(* Lock the watermark of a source and read the record that follows it. *)
Fetch(c, s) ==
  LET next == <<s, watermark[s] + 1>>
  IN /\ consumer[c].pc = "drain" /\ consumer[c].next = <<>>
     /\ s \in consumer[c].todo
     /\ Unlocked(s)
     /\ IF next \in raw \ applied
          THEN consumer' = [consumer EXCEPT ![c].next = next]
          ELSE consumer' = [consumer EXCEPT ![c].todo = @ \ {s}]
     /\ UNCHANGED <<source, queue, archive, faults>>

\* A row as record n leaves it; an upsert never overwrites a later one.
Replayed(row, k, r, n) ==
  IF row.at > n THEN row
  ELSE IF k \in r.rows THEN [at |-> n, live |-> TRUE]
  ELSE IF r.op = "replace" /\ k \in Scoped /\ row.live THEN [at |-> n, live |-> FALSE]
  ELSE row

\* The guard of the upsert compares numbers, whatever source they are from.
Overwrites(k, n) == shared[k] = <<>> \/ shared[k][2] <= n

(* Apply it, mark it, move the watermark and release the lock. *)
Apply(c) ==
  LET s == consumer[c].next[1]
      n == consumer[c].next[2]
  IN /\ consumer[c].next # <<>>
     /\ table' = [table EXCEPT ![s] = [k \in Rows |-> Replayed(@[k], k, log[s][n], n)]]
     /\ shared' = [k \in Shared |-> IF k \in log[s][n].rows /\ Overwrites(k, n)
                                     THEN <<s, n>> ELSE shared[k]]
     /\ applied' = applied \cup {<<s, n>>}
     /\ watermark' = [watermark EXCEPT ![s] = n]
     /\ consumer' = [consumer EXCEPT ![c].next = <<>>]
     /\ UNCHANGED <<source, queue, raw, faults>>

(* A record that cannot be applied ends the drain, of every other source too. *)
DrainFails(c) == /\ consumer[c].next # <<>>
                 /\ Fault("drain")
                 /\ consumer' = [consumer EXCEPT ![c].next = <<>>, ![c].todo = {}]
                 /\ UNCHANGED <<source, queue, archive>>

(* Acknowledge what is stored; the rest comes again. *)
Ack(c) == /\ consumer[c].pc = "drain" /\ consumer[c].todo = {}
          /\ queue' = queue \ consumer[c].acks
          /\ consumer' = [consumer EXCEPT ![c] = Idle]
          /\ UNCHANGED <<source, archive, faults>>

(* The acknowledgement is lost, or a second copy of the messages is left. *)
AckLost(c) == /\ consumer[c].pc = "drain" /\ consumer[c].todo = {}
              /\ Fault("unacked")
              /\ consumer' = [consumer EXCEPT ![c] = Idle]
              /\ UNCHANGED <<source, queue, archive>>

(* The consumer dies, or cannot reach the database: the batch comes again. *)
Dies(c) == /\ consumer[c].pc # "idle"
           /\ Fault("died")
           /\ consumer' = [consumer EXCEPT ![c] = Idle]
           /\ UNCHANGED <<source, queue, archive>>

(* archive:replay, run by hand: drain every source that has raw records. *)
ReplayAll(c) == /\ consumer[c].pc = "idle"
                /\ raw # applied
                /\ consumer' = [consumer EXCEPT ![c] =
                     [Idle EXCEPT !.pc = "drain", !.todo = SourcesOf(raw \ applied)]]
                /\ UNCHANGED <<source, queue, archive, faults>>

-----------------------------------------------------------------------------
(* A consumer goes on with its batch. *)
Works(c) == Persist(c) \/ (\E s \in Sources : Fetch(c, s)) \/ Apply(c) \/ Ack(c)

ANext == \/ \E s \in Sources : \/ \E r \in Records : Write(s, r)
                               \/ Arm(s) \/ Flush(s) \/ Sent(s) \/ SendFails(s)
                               \/ EvictedSending(s) \/ Stranded(s)
         \/ \E c \in Consumers : \/ \E batch \in SUBSET queue : Deliver(c, batch)
                                 \/ Works(c) \/ Refused(c) \/ DrainFails(c)
                                 \/ AckLost(c) \/ Dies(c) \/ ReplayAll(c)

ASpec == AInit /\ [][ANext]_avars

(* Alarms fire and handlers go on; the queue delivers what it holds, even  *)
(* when an operator keeps running replays, and a row lock is granted in    *)
(* the end.  No fairness for a write, a fault or a replay.                 *)
AFairSpec ==
  /\ ASpec
  /\ \A s \in Sources : /\ WF_avars(Arm(s)) /\ WF_avars(Flush(s))
                        /\ WF_avars(Sent(s) \/ SendFails(s))
  /\ \A c \in Consumers : /\ SF_avars(\E batch \in SUBSET queue : Deliver(c, batch))
                          /\ SF_avars(Works(c))

-----------------------------------------------------------------------------
\* The applied records that write a shared row.
WritersOf(k) == {m \in Messages : m[2] <= watermark[m[1]] /\ k \in log[m[1]][m[2]].rows}

(* Whatever the queue repeats or reorders and however many consumers run,  *)
(* the tables hold the rows of each source as they were after one of its   *)
(* records, the one its watermark names: none is skipped, applied twice or *)
(* applied over a later one (drain.ts, replay.ts).  A row that several     *)
(* sources write is no such prefix: it holds what the applied record with  *)
(* the greatest number says, of whichever source, and not what was written *)
(* last; a record with a smaller number of another source has no effect.   *)
ArchiveIsPrefix ==
  /\ \A s \in Sources :
       /\ watermark[s] <= Len(log[s])
       /\ AsOf(s, watermark[s]) = [k \in Rows |-> IF table[s][k].live THEN table[s][k].at ELSE 0]
  /\ \A k \in Shared :
       /\ shared[k] # <<>> => shared[k] \in WritersOf(k)
       /\ \A m \in WritersOf(k) : shared[k] # <<>> /\ m[2] <= shared[k][2]

(* A record the source has let go of is in the queue or in the raw log:    *)
(* until an insert is refused, no answer the source, the queue and the     *)
(* database give each other, or fail to, loses one.                        *)
NothingLost ==
  "refused" \notin faults =>
    \A s \in Sources, n \in Numbers :
      outbox[s][n].status = "queued" => <<s, n>> \in queue \cup raw

(* Source, queue and archive hold values of their types, a record is given *)
(* up after MaxAttempts, what is applied is in the raw log, and nothing    *)
(* that was sent is lost.                                                  *)
ArchiveInv == ArchiveTypeOK /\ NothingLost

(* Every record of a source is applied in the end, in whatever order the   *)
(* messages came and whoever died on the way, unless the source was        *)
(* evicted before its alarm, the database refused or could not apply a     *)
(* record, or the queue refused one for MaxAttempts times.                 *)
Excused(s) == \/ faults \cap {"stranded", "refused", "drain"} # {}
              \/ \E n \in Numbers : outbox[s][n].status = "failed"


(* What the consumer says of itself: a message that is acknowledged is in  *)
(* the raw log (process-batch.ts).  The code acknowledges messages of a    *)
(* transaction that was rolled back.                                       *)
AckedIsPersisted == [][\A m \in queue \ queue' : m \in raw']_avars
=============================================================================
