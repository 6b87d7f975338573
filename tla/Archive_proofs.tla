----------------------------- MODULE Archive_proofs -----------------------------
(***************************************************************************)
(* For any sources, rows, consumers, numbers of records and faults: the    *)
(* rows of one source are those of a prefix of its records, a row that     *)
(* several sources write is from the greatest number among them, and       *)
(* nothing that was sent is lost.  The queue proves nothing for the tables: what orders the      *)
(* records is their number, and what keeps two consumers apart is the lock *)
(* on a watermark, which is why the invariant is about both.               *)
(***************************************************************************)
EXTENDS Archive, SequenceTheorems, TLAPS

\* Messages of records that were written.
Existing == {m \in Messages : m[2] <= Len(log[m[1]])}

\* The logs, and the rows after each record.
Logs ==
  /\ log \in [Sources -> Seq(Records)]
  /\ past \in [Sources -> Seq([Rows -> Nat])]
  /\ \A s \in Sources :
       /\ Len(log[s]) <= MaxSeq
       /\ Len(past[s]) = Len(log[s])
       /\ \A n \in 1 .. Len(log[s]), k \in Rows : past[s][n][k] <= n

\* The value of a row after record n, from its value before.
After(s, n, k) == IF k \in log[s][n].rows THEN n
                  ELSE IF log[s][n].op = "replace" /\ k \in Scoped THEN 0
                  ELSE AsOf(s, n - 1)[k]

History == \A s \in Sources : \A n \in 1 .. Len(log[s]), k \in Rows : past[s][n][k] = After(s, n, k)

OutboxRows == [status : {"none", "pending", "queued", "failed"}, attempts : 0 .. MaxAttempts]

\* The outbox has exactly the records that were written, and a flush carries
\* pending ones.
Outboxes ==
  /\ outbox \in [Sources -> [Numbers -> OutboxRows]]
  /\ arming \subseteq Sources /\ alarm \subseteq Sources
  /\ sending \in [Sources -> SUBSET Numbers]
  /\ \A s \in Sources, n \in Numbers :
       /\ n <= Len(log[s]) <=> outbox[s][n].status # "none"
       /\ outbox[s][n].status \in {"none", "pending"} => outbox[s][n].attempts < MaxAttempts
       /\ n \in sending[s] => outbox[s][n].status = "pending"

ConsumerStates == [pc : {"idle", "persist", "drain"},
                   batch : SUBSET Messages, acks : SUBSET Messages,
                   todo : SUBSET Sources, next : {<<>>} \cup Messages]

\* Every message stands for a record.
Mail ==
  /\ queue \subseteq Existing /\ raw \subseteq Existing
  /\ consumer \in [Consumers -> ConsumerStates]
  /\ \A c \in Consumers : consumer[c].batch \subseteq Existing
  /\ faults \subseteq {"stranded", "evicted", "refused", "drain", "died", "unacked"}

\* What is applied, and who may apply the next record.
Prefixes ==
  /\ watermark \in [Sources -> 0 .. MaxSeq]
  /\ applied \subseteq raw
  /\ \A s \in Sources :
       /\ watermark[s] <= Len(log[s])
       /\ \A n \in Numbers : <<s, n>> \in applied <=> n <= watermark[s]

Locks ==
  /\ \A c \in Consumers : consumer[c].next # <<>> =>
       \E s \in Sources : /\ consumer[c].next = <<s, watermark[s] + 1>>
                          /\ consumer[c].next \in raw
  /\ \A c, d \in Consumers :
       /\ consumer[c].next # <<>> /\ consumer[d].next # <<>>
       /\ consumer[c].next[1] = consumer[d].next[1]
       => c = d

Tables ==
  /\ table \in [Sources -> [Rows -> [at : 0 .. MaxSeq, live : BOOLEAN]]]
  /\ \A s \in Sources, k \in Rows :
       /\ table[s][k].at <= watermark[s]
       /\ AsOf(s, watermark[s])[k] = IF table[s][k].live THEN table[s][k].at ELSE 0

\* A shared row is from the applied record with the greatest number.
SharedRows ==
  /\ shared \in [Shared -> {<<>>} \cup Messages]
  /\ \A k \in Shared :
       /\ shared[k] # <<>> => shared[k] \in WritersOf(k)
       /\ \A m \in WritersOf(k) : shared[k] # <<>> /\ m[2] <= shared[k][2]

\* Messages that are about to be acknowledged are stored.
Vouched == "refused" \notin faults =>
             \A c \in Consumers : consumer[c].pc = "drain" => consumer[c].acks \subseteq raw

IInv == /\ Logs /\ History /\ Outboxes /\ Mail /\ Prefixes /\ Locks /\ Tables
        /\ SharedRows /\ Vouched /\ NothingLost

-----------------------------------------------------------------------------
LEMMA InitInv == AInit => IInv
<1> SUFFICES ASSUME AInit PROVE IInv
  OBVIOUS
<1> USE ArchiveAssumption DEF AInit
<1>1. Logs
  <2>1. << >> \in Seq(Records) /\ << >> \in Seq([Rows -> Nat])
    OBVIOUS
  <2>2. \A s \in Sources : log[s] = << >> /\ past[s] = << >>
    OBVIOUS
  <2>3. log \in [Sources -> Seq(Records)] /\ past \in [Sources -> Seq([Rows -> Nat])]
    BY <2>1
  <2>4. QED
    BY <2>2, <2>3 DEF Logs
<1>2. History
  BY DEF History
<1>3. Outboxes
  BY DEF Outboxes, OutboxRows, Numbers
<1>4. Mail
  BY DEF Mail, ConsumerStates, Idle
<1>5. Prefixes
  BY DEF Prefixes, Numbers
<1>6. Locks
  BY DEF Locks, Idle
<1>7. Tables
  BY DEF Tables, AsOf
<1>8. Vouched /\ NothingLost
  BY DEF Vouched, NothingLost, Idle
<1>9. SharedRows
  <2>1. \A s \in Sources, n \in Numbers : ~(n <= watermark[s])
    BY DEF Numbers
  <2>2. \A k \in Shared : WritersOf(k) = {}
    BY <2>1 DEF WritersOf, Messages
  <2>3. QED
    BY <2>2 DEF SharedRows
<1>10. QED
  BY <1>1, <1>2, <1>3, <1>4, <1>5, <1>6, <1>7, <1>8, <1>9 DEF IInv

-----------------------------------------------------------------------------
(* A write appends a record, and the rows after it. *)

LEMMA WriteFacts ==
  ASSUME Logs, NEW s \in Sources, NEW r \in Records, Write(s, r),
         NEW n, n = Len(log[s]) + 1
  PROVE  /\ n \in Numbers
         /\ Len(log'[s]) = n /\ Len(past'[s]) = n
         /\ log' \in [Sources -> Seq(Records)] /\ past' \in [Sources -> Seq([Rows -> Nat])]
         /\ \A i \in 1 .. Len(log[s]) : log'[s][i] = log[s][i] /\ past'[s][i] = past[s][i]
         /\ log'[s][n] = r
         /\ \A k \in Rows : past'[s][n][k] = IF k \in r.rows THEN n
                                          ELSE IF r.op = "replace" /\ k \in Scoped THEN 0
                                          ELSE AsOf(s, n - 1)[k]
         /\ \A o \in Sources \ {s} : log'[o] = log[o] /\ past'[o] = past[o]
<1> DEFINE row == [k \in Rows |-> IF k \in r.rows THEN n
                                  ELSE IF r.op = "replace" /\ k \in Scoped THEN 0
                                  ELSE AsOf(s, n - 1)[k]]
<1>1. log[s] \in Seq(Records) /\ past[s] \in Seq([Rows -> Nat]) /\ Len(past[s]) = Len(log[s])
  BY DEF Logs
<1>2. Len(log[s]) \in Nat
  BY <1>1, LenProperties
<1>3. n \in Nat /\ n \in Numbers
  BY <1>2, ArchiveAssumption DEF Write, Numbers
<1>4. AsOf(s, n - 1) \in [Rows -> Nat]
  <2>1. CASE n - 1 = 0
    BY <2>1 DEF AsOf
  <2>2. CASE n - 1 # 0
    <3>1. n - 1 \in 1 .. Len(past[s])
      BY <1>1, <1>2, <2>2
    <3>2. past[s][n - 1] \in [Rows -> Nat]
      BY <1>1, <3>1, ElementOfSeq
    <3>3. QED
      BY <2>2, <3>2 DEF AsOf
  <2>3. QED
    BY <2>1, <2>2
<1>5. row \in [Rows -> Nat]
  BY <1>3, <1>4
<1>6. log' = [log EXCEPT ![s] = Append(log[s], r)] /\ past' = [past EXCEPT ![s] = Append(past[s], row)]
  BY DEF Write
<1>7. /\ Append(log[s], r) \in Seq(Records) /\ Len(Append(log[s], r)) = n
      /\ \A i \in 1 .. Len(log[s]) : Append(log[s], r)[i] = log[s][i]
      /\ Append(log[s], r)[n] = r
  BY <1>1, AppendProperties
<1>8. /\ Append(past[s], row) \in Seq([Rows -> Nat]) /\ Len(Append(past[s], row)) = n
      /\ \A i \in 1 .. Len(log[s]) : Append(past[s], row)[i] = past[s][i]
      /\ Append(past[s], row)[n] = row
  BY <1>1, <1>5, AppendProperties
<1>9. log'[s] = Append(log[s], r) /\ past'[s] = Append(past[s], row)
  BY <1>6 DEF Logs
<1>10. \A o \in Sources \ {s} : log'[o] = log[o] /\ past'[o] = past[o]
  BY <1>6 DEF Logs
<1>11. log' \in [Sources -> Seq(Records)] /\ past' \in [Sources -> Seq([Rows -> Nat])]
  BY <1>6, <1>7, <1>8 DEF Logs
<1>12. \A k \in Rows : past'[s][n][k] = row[k]
  BY <1>8, <1>9
<1>13. QED
  BY <1>3, <1>7, <1>8, <1>9, <1>10, <1>11, <1>12

LEMMA LogsWrite ==
  ASSUME Logs, History, NEW s \in Sources, NEW r \in Records, Write(s, r)
  PROVE  Logs' /\ History'
<1>. PICK n : n = Len(log[s]) + 1
  OBVIOUS
<1>1. /\ n \in Numbers /\ n = Len(log[s]) + 1
      /\ Len(log'[s]) = n /\ Len(past'[s]) = n
      /\ log' \in [Sources -> Seq(Records)] /\ past' \in [Sources -> Seq([Rows -> Nat])]
      /\ \A i \in 1 .. Len(log[s]) : log'[s][i] = log[s][i] /\ past'[s][i] = past[s][i]
      /\ log'[s][n] = r
      /\ \A k \in Rows : past'[s][n][k] = IF k \in r.rows THEN n
                                       ELSE IF r.op = "replace" /\ k \in Scoped THEN 0
                                       ELSE AsOf(s, n - 1)[k]
      /\ \A o \in Sources \ {s} : log'[o] = log[o] /\ past'[o] = past[o]
  BY WriteFacts
<1>2. Len(log[s]) \in Nat /\ n <= MaxSeq /\ n \in Nat
  BY <1>1, ArchiveAssumption DEF Numbers
<1>3. \A k \in Rows : AsOf(s, n - 1)[k] <= n
  <2>1. CASE n = 1
    BY <2>1 DEF AsOf
  <2>2. CASE n # 1
    <3>1. n - 1 \in 1 .. Len(log[s]) /\ n - 1 # 0
      BY <1>1, <1>2, <2>2
    <3> DEFINE m == n - 1
    <3> HIDE DEF m
    <3>a. m \in 1 .. Len(log[s]) /\ m \in 1 .. Len(past[s])
      BY <3>1 DEF Logs, m
    <3>b. \A k \in Rows : past[s][m][k] <= m
      BY <3>a DEF Logs
    <3>c. past[s] \in Seq([Rows -> Nat])
      BY DEF Logs
    <3>d. past[s][m] \in [Rows -> Nat]
      BY <3>a, <3>c, ElementOfSeq
    <3>2. \A k \in Rows : past[s][n - 1][k] <= n - 1
      BY <3>b DEF m
    <3>3. \A k \in Rows : past[s][n - 1][k] \in Nat
      BY <3>d DEF m
    <3>4. QED
      BY <1>2, <3>1, <3>2, <3>3 DEF AsOf
  <2>3. QED
    BY <2>1, <2>2
<1>4. ASSUME NEW k \in Rows
      PROVE  past'[s][n][k] <= n
  <2>1. past'[s][n][k] \in {n, 0, AsOf(s, n - 1)[k]}
    BY <1>1
  <2>2. n <= n /\ 0 <= n
    BY <1>2
  <2>3. QED
    BY <1>3, <2>1, <2>2
<1>5. \A m \in 1 .. n : m \in 1 .. Len(log[s]) \/ m = n
  BY <1>1, <1>2
<1>6. Logs'
  <2>1. ASSUME NEW o \in Sources
        PROVE  /\ Len(log'[o]) <= MaxSeq
               /\ Len(past'[o]) = Len(log'[o])
               /\ \A m \in 1 .. Len(log'[o]), k \in Rows : past'[o][m][k] <= m
    <3>1. CASE o = s
      BY <1>1, <1>2, <1>4, <1>5, <3>1, ZenonT(60) DEF Logs
    <3>2. CASE o # s
      BY <1>1, <3>2 DEF Logs
    <3>3. QED
      BY <3>1, <3>2
  <2>2. QED
    BY <1>1, <2>1 DEF Logs
<1>7. \A m \in 0 .. Len(log[s]) : AsOf(s, m)' = AsOf(s, m)
  BY <1>1, <1>2 DEF AsOf
<1>8. \A o \in Sources \ {s}, m \in Nat : AsOf(o, m)' = AsOf(o, m)
  BY <1>1 DEF AsOf
<1>9. ASSUME NEW o \in Sources, NEW m \in 1 .. Len(log'[o]), NEW k \in Rows
      PROVE  past'[o][m][k] = After(o, m, k)'
  <2>1. CASE o # s
    <3>1. m \in 1 .. Len(log[o]) /\ m - 1 \in Nat
      BY <1>1, <2>1
    <3>2. past[o][m][k] = After(o, m, k)
      BY <3>1 DEF History
    <3>3. QED
      BY <1>1, <1>8, <2>1, <3>1, <3>2 DEF After
  <2>2. CASE o = s /\ m = n
    <3>1. AsOf(s, n - 1)' = AsOf(s, n - 1)
      BY <1>1, <1>2, <1>7
    <3>2. QED
      BY <1>1, <2>2, <3>1 DEF After
  <2>3. CASE o = s /\ m # n
    <3>1. m \in 1 .. Len(log[s]) /\ m - 1 \in 0 .. Len(log[s])
      BY <1>1, <1>2, <1>5, <2>3
    <3>2. past[s][m][k] = After(s, m, k)
      BY <3>1 DEF History
    <3>3. QED
      BY <1>1, <1>7, <2>3, <3>1, <3>2 DEF After
  <2>4. QED
    BY <2>1, <2>2, <2>3
<1>10. QED
  BY <1>6, <1>9 DEF History

-----------------------------------------------------------------------------
(* The outbox of a source. *)

Sends(s) == Arm(s) \/ Flush(s) \/ Sent(s) \/ SendFails(s) \/ EvictedSending(s) \/ Stranded(s)

LEMMA LogLengths ==
  ASSUME Logs
  PROVE  \A s \in Sources : Len(log[s]) \in Nat
BY LenProperties DEF Logs

LEMMA OutboxesWrite ==
  ASSUME Logs, Outboxes, NEW s \in Sources, NEW r \in Records, Write(s, r)
  PROVE  Outboxes'
<1>. PICK n : n = Len(log[s]) + 1
  OBVIOUS
<1>1. /\ n \in Numbers /\ Len(log'[s]) = n
      /\ \A o \in Sources \ {s} : log'[o] = log[o]
  BY WriteFacts
<1>2. Len(log[s]) \in Nat /\ n \in Nat
  BY <1>1, LogLengths DEF Numbers
<1>3. /\ outbox' = [outbox EXCEPT ![s] = [outbox[s] EXCEPT ![n] = [outbox[s][n] EXCEPT !.status = "pending"]]]
      /\ arming' = arming \cup {s} /\ UNCHANGED <<alarm, sending>>
  BY DEF Write
<1>4. outbox[s][n].status = "none" /\ outbox[s][n] \in OutboxRows /\ outbox[s][n].attempts < MaxAttempts
  BY <1>1, <1>2 DEF Outboxes
<1>5. [outbox[s][n] EXCEPT !.status = "pending"] = [status |-> "pending", attempts |-> outbox[s][n].attempts]
  BY <1>4 DEF OutboxRows
<1>6. [outbox[s][n] EXCEPT !.status = "pending"] \in OutboxRows
  BY <1>4, <1>5 DEF OutboxRows
<1>7. /\ outbox'[s][n] = [status |-> "pending", attempts |-> outbox[s][n].attempts]
      /\ \A m \in Numbers \ {n} : outbox'[s][m] = outbox[s][m]
      /\ \A o \in Sources \ {s} : outbox'[o] = outbox[o]
  BY <1>1, <1>3, <1>5 DEF Outboxes
<1>8. outbox' \in [Sources -> [Numbers -> OutboxRows]]
  BY <1>3, <1>6 DEF Outboxes
<1>9. ASSUME NEW o \in Sources, NEW m \in Numbers
      PROVE  /\ m <= Len(log'[o]) <=> outbox'[o][m].status # "none"
             /\ outbox'[o][m].status \in {"none", "pending"} => outbox'[o][m].attempts < MaxAttempts
             /\ m \in sending'[o] => outbox'[o][m].status = "pending"
  <2>1. CASE o # s
    BY <1>1, <1>3, <1>7, <2>1 DEF Outboxes
  <2>2. CASE o = s /\ m = n
    BY <1>1, <1>2, <1>4, <1>7, <2>2
  <2>3. CASE o = s /\ m # n
    <3>1. m <= Len(log[s]) <=> m <= n
      BY <1>2, <2>3 DEF Numbers
    <3>2. QED
      BY <1>1, <1>3, <1>7, <2>3, <3>1 DEF Outboxes
  <2>4. QED
    BY <2>1, <2>2, <2>3
<1>10. QED
  BY <1>3, <1>8, <1>9 DEF Outboxes

(* An answer of the queue, or none, changes the rows of the flush alone. *)
LEMMA OutboxesAnswer ==
  ASSUME Outboxes, NEW s \in Sources, NEW rows, Answered(s, rows),
         \A n \in sending[s] : /\ rows[n] \in OutboxRows /\ rows[n].status # "none"
                               /\ rows[n].status = "pending" => rows[n].attempts < MaxAttempts
  PROVE  Outboxes'
<1>1. /\ outbox' = [outbox EXCEPT ![s] = [n \in Numbers |-> IF n \in sending[s]
                                        THEN rows[n] ELSE outbox[s][n]]]
      /\ sending' = [sending EXCEPT ![s] = {}]
      /\ UNCHANGED <<log, arming>>
  BY DEF Answered
<1>2. alarm' \subseteq Sources
  BY DEF Answered, Rearms, Outboxes
<1>3. [n \in Numbers |-> IF n \in sending[s] THEN rows[n] ELSE outbox[s][n]] \in [Numbers -> OutboxRows]
  BY DEF Outboxes
<1>4. outbox' \in [Sources -> [Numbers -> OutboxRows]] /\ sending' \in [Sources -> SUBSET Numbers]
  BY <1>1, <1>3 DEF Outboxes
<1>5. /\ \A n \in Numbers : outbox'[s][n] = IF n \in sending[s] THEN rows[n] ELSE outbox[s][n]
      /\ \A o \in Sources \ {s} : outbox'[o] = outbox[o]
      /\ sending'[s] = {}
      /\ \A o \in Sources \ {s} : sending'[o] = sending[o]
  BY <1>1 DEF Outboxes
<1>6. ASSUME NEW o \in Sources, NEW m \in Numbers
      PROVE  /\ m <= Len(log'[o]) <=> outbox'[o][m].status # "none"
             /\ outbox'[o][m].status \in {"none", "pending"} => outbox'[o][m].attempts < MaxAttempts
             /\ m \in sending'[o] => outbox'[o][m].status = "pending"
  <2>1. CASE o # s
    BY <1>1, <1>5, <2>1 DEF Outboxes
  <2>2. CASE o = s /\ m \in sending[s]
    BY <1>1, <1>5, <2>2 DEF Outboxes
  <2>3. CASE o = s /\ m \notin sending[s]
    BY <1>1, <1>5, <2>3 DEF Outboxes
  <2>4. QED
    BY <2>1, <2>2, <2>3
<1>7. QED
  BY <1>1, <1>2, <1>4, <1>6 DEF Outboxes

LEMMA OutboxesSends ==
  ASSUME Outboxes, NEW s \in Sources, Sends(s)
  PROVE  Outboxes'
<1>1. CASE Arm(s) \/ Stranded(s)
  BY <1>1 DEF Arm, Stranded, Outboxes
<1>2. CASE Flush(s)
  <2>1. PICK due \in SUBSET Pending(s) : sending' = [sending EXCEPT ![s] = due]
    BY <1>2 DEF Flush
  <2>2. UNCHANGED <<log, outbox, arming>> /\ alarm' = alarm \ {s}
    BY <1>2 DEF Flush
  <2>3. /\ sending' \in [Sources -> SUBSET Numbers]
        /\ \A o \in Sources : \A n \in sending'[o] : n \in sending[o] \/ outbox[o][n].status = "pending"
    BY <2>1 DEF Pending, Outboxes
  <2>4. QED
    BY <2>2, <2>3 DEF Outboxes
<1>3. CASE Sent(s)
  <2>1. ASSUME NEW n \in sending[s]
        PROVE  Queued(s)[n] \in OutboxRows /\ Queued(s)[n].status = "queued"
    <3>1. n \in Numbers /\ outbox[s][n] \in OutboxRows
      BY DEF Outboxes
    <3>2. Queued(s)[n] = [status |-> "queued", attempts |-> outbox[s][n].attempts]
      BY <3>1 DEF Queued, OutboxRows
    <3>3. QED
      BY <3>1, <3>2 DEF OutboxRows
  <2>2. Answered(s, Queued(s))
    BY <1>3 DEF Sent
  <2>3. QED
    BY <2>1, <2>2, OutboxesAnswer
<1>4. CASE SendFails(s)
  <2>1. ASSUME NEW n \in sending[s]
        PROVE  /\ Bumped(s)[n] \in OutboxRows /\ Bumped(s)[n].status # "none"
               /\ Bumped(s)[n].status = "pending" => Bumped(s)[n].attempts < MaxAttempts
    <3>1. n \in Numbers /\ outbox[s][n].attempts \in 0 .. MaxAttempts /\ outbox[s][n].attempts < MaxAttempts
      BY DEF Outboxes, OutboxRows
    <3>2. Bumped(s)[n] = [status |-> IF outbox[s][n].attempts + 1 >= MaxAttempts THEN "failed" ELSE "pending",
                          attempts |-> outbox[s][n].attempts + 1]
      BY <3>1 DEF Bumped
    <3>3. QED
      BY <3>1, <3>2, ArchiveAssumption DEF OutboxRows
  <2>2. Answered(s, Bumped(s))
    BY <1>4 DEF SendFails
  <2>3. QED
    BY <2>1, <2>2, OutboxesAnswer
<1>5. CASE EvictedSending(s)
  BY <1>5 DEF EvictedSending, Outboxes
<1>6. QED
  BY <1>1, <1>2, <1>3, <1>4, <1>5 DEF Sends

-----------------------------------------------------------------------------
(* The consumers. *)

Consumes(c) == \/ \E batch \in SUBSET queue : Deliver(c, batch)
               \/ Persist(c) \/ Refused(c) \/ (\E s \in Sources : Fetch(c, s)) \/ Apply(c)
               \/ DrainFails(c) \/ Ack(c) \/ AckLost(c) \/ Dies(c) \/ ReplayAll(c)

\* What a handler of a batch becomes.
Becomes(c, h) == /\ consumer' = [consumer EXCEPT ![c] = h]
                 /\ h \in ConsumerStates /\ h.batch \subseteq Existing

LEMMA ConsumerFields ==
  ASSUME Mail, NEW c \in Consumers
  PROVE  /\ consumer[c] \in ConsumerStates
         /\ consumer[c].batch \subseteq Existing /\ consumer[c].batch \subseteq Messages
         /\ consumer[c].todo \subseteq Sources
         /\ Idle \in ConsumerStates /\ Idle.batch = {} /\ Idle.next = << >> /\ Idle.pc = "idle"
BY DEF Mail, ConsumerStates, Idle

LEMMA SourcesOfMessages ==
  ASSUME NEW msgs \in SUBSET Messages
  PROVE  SourcesOf(msgs) \subseteq Sources
BY DEF SourcesOf, Messages

LEMMA HandlerSteps ==
  ASSUME Mail, applied \subseteq raw, NEW c \in Consumers, Consumes(c)
  PROVE  \E h : Becomes(c, h)
<1>0. /\ consumer[c] \in ConsumerStates
      /\ consumer[c].batch \subseteq Existing /\ consumer[c].batch \subseteq Messages
      /\ consumer[c].todo \subseteq Sources
      /\ Idle \in ConsumerStates /\ Idle.batch = {}
  BY ConsumerFields
<1>1. CASE \E batch \in SUBSET queue : Deliver(c, batch)
  <2>1. PICK batch \in SUBSET queue :
          consumer' = [consumer EXCEPT ![c] = [Idle EXCEPT !.pc = "persist", !.batch = batch]]
    BY <1>1 DEF Deliver
  <2>2. batch \subseteq Existing /\ batch \subseteq Messages
    BY <2>1 DEF Mail, Existing
  <2>3. [Idle EXCEPT !.pc = "persist", !.batch = batch] \in ConsumerStates
    BY <2>2 DEF Idle, ConsumerStates
  <2>4. [Idle EXCEPT !.pc = "persist", !.batch = batch].batch = batch
    BY DEF Idle
  <2>5. QED
    BY <2>1, <2>2, <2>3, <2>4 DEF Becomes
<1>2. ASSUME NEW acks \in SUBSET consumer[c].batch
      PROVE  Stored(c, acks) \in ConsumerStates /\ Stored(c, acks).batch = consumer[c].batch
  <2>1. acks \subseteq Messages /\ SourcesOf(acks) \subseteq Sources
    BY <1>0, <1>2, SourcesOfMessages
  <2>2. QED
    BY <1>0, <2>1 DEF Stored, ConsumerStates
<1>3. CASE Persist(c) \/ Refused(c)
  <2>1. \E acks \in SUBSET consumer[c].batch : consumer' = [consumer EXCEPT ![c] = Stored(c, acks)]
    BY <1>3 DEF Persist, Refused
  <2>2. QED
    BY <1>0, <1>2, <2>1 DEF Becomes
<1>4. CASE \E s \in Sources : Fetch(c, s)
  <2>1. PICK s \in Sources : Fetch(c, s)
    BY <1>4
  <2>2. CASE <<s, watermark[s] + 1>> \in raw \ applied
    <3>1. <<s, watermark[s] + 1>> \in Messages
      BY <2>2 DEF Mail, Existing
    <3>2. consumer' = [consumer EXCEPT ![c] = [consumer[c] EXCEPT !.next = <<s, watermark[s] + 1>>]]
      BY <2>1, <2>2 DEF Fetch
    <3>3. /\ [consumer[c] EXCEPT !.next = <<s, watermark[s] + 1>>] \in ConsumerStates
          /\ [consumer[c] EXCEPT !.next = <<s, watermark[s] + 1>>].batch = consumer[c].batch
      BY <1>0, <3>1 DEF ConsumerStates
    <3>4. QED
      BY <1>0, <3>2, <3>3 DEF Becomes
  <2>3. CASE <<s, watermark[s] + 1>> \notin raw \ applied
    <3>1. consumer' = [consumer EXCEPT ![c] = [consumer[c] EXCEPT !.todo = consumer[c].todo \ {s}]]
      BY <2>1, <2>3 DEF Fetch
    <3>2. /\ [consumer[c] EXCEPT !.todo = consumer[c].todo \ {s}] \in ConsumerStates
          /\ [consumer[c] EXCEPT !.todo = consumer[c].todo \ {s}].batch = consumer[c].batch
      BY <1>0 DEF ConsumerStates
    <3>3. QED
      BY <1>0, <3>1, <3>2 DEF Becomes
  <2>4. QED
    BY <2>2, <2>3
<1>5. CASE Apply(c)
  <2>1. consumer' = [consumer EXCEPT ![c] = [consumer[c] EXCEPT !.next = << >>]]
    BY <1>5 DEF Apply
  <2>2. /\ [consumer[c] EXCEPT !.next = << >>] \in ConsumerStates
        /\ [consumer[c] EXCEPT !.next = << >>].batch = consumer[c].batch
    BY <1>0 DEF ConsumerStates
  <2>3. QED
    BY <1>0, <2>1, <2>2 DEF Becomes
<1>6. CASE DrainFails(c)
  <2>1. consumer' = [consumer EXCEPT ![c] = [consumer[c] EXCEPT !.next = << >>, !.todo = {}]]
    BY <1>6 DEF DrainFails, Mail
  <2>2. /\ [consumer[c] EXCEPT !.next = << >>, !.todo = {}] \in ConsumerStates
        /\ [consumer[c] EXCEPT !.next = << >>, !.todo = {}].batch = consumer[c].batch
    BY <1>0 DEF ConsumerStates
  <2>3. QED
    BY <1>0, <2>1, <2>2 DEF Becomes
<1>7. CASE Ack(c) \/ AckLost(c) \/ Dies(c)
  <2>1. consumer' = [consumer EXCEPT ![c] = Idle]
    BY <1>7 DEF Ack, AckLost, Dies
  <2>2. QED
    BY <1>0, <2>1 DEF Becomes
<1>8. CASE ReplayAll(c)
  <2>1. SourcesOf(raw \ applied) \subseteq Sources
    <3>1. raw \ applied \subseteq Messages
      BY DEF Mail, Existing
    <3>2. QED
      BY <3>1, SourcesOfMessages
  <2>2. consumer' = [consumer EXCEPT ![c] = [Idle EXCEPT !.pc = "drain", !.todo = SourcesOf(raw \ applied)]]
    BY <1>8 DEF ReplayAll
  <2>3. /\ [Idle EXCEPT !.pc = "drain", !.todo = SourcesOf(raw \ applied)] \in ConsumerStates
        /\ [Idle EXCEPT !.pc = "drain", !.todo = SourcesOf(raw \ applied)].batch = {}
    BY <2>1 DEF Idle, ConsumerStates
  <2>4. QED
    BY <2>2, <2>3 DEF Becomes
<1>9. QED
  BY <1>1, <1>3, <1>4, <1>5, <1>6, <1>7, <1>8 DEF Consumes

-----------------------------------------------------------------------------
(* What each kind of step leaves alone. *)

FaultKinds == {"stranded", "evicted", "refused", "drain", "died", "unacked"}

LEMMA StepKinds ==
  ANext => \/ \E s \in Sources, r \in Records : Write(s, r)
           \/ \E s \in Sources : Sends(s)
           \/ \E c \in Consumers : Consumes(c)
BY DEF ANext, Works, Sends, Consumes

LEMMA SendsFacts ==
  ASSUME NEW s \in Sources, Sends(s)
  PROVE  /\ UNCHANGED <<log, past, consumer, raw, applied, watermark, table, shared>>
         /\ queue \subseteq queue' /\ queue' \subseteq queue \cup {<<s, n>> : n \in sending[s]}
         /\ faults \subseteq faults' /\ faults' \ faults \subseteq FaultKinds
<1> USE DEF archive, Fault, FaultKinds
<1>1. CASE Arm(s) \/ Stranded(s)
  BY <1>1 DEF Arm, Stranded
<1>2. CASE Flush(s)
  BY <1>2 DEF Flush
<1>3. CASE Sent(s) \/ SendFails(s)
  BY <1>3 DEF Sent, SendFails, Answered
<1>4. CASE EvictedSending(s)
  BY <1>4 DEF EvictedSending
<1>5. QED
  BY <1>1, <1>2, <1>3, <1>4 DEF Sends

LEMMA ConsumesFacts ==
  ASSUME NEW c \in Consumers, Consumes(c)
  PROVE  /\ UNCHANGED <<log, past, outbox, arming, alarm, sending>>
         /\ raw \subseteq raw' /\ raw' \subseteq raw \cup consumer[c].batch
         /\ queue' \subseteq queue
         /\ queue' # queue => Ack(c)
         /\ faults \subseteq faults' /\ faults' \ faults \subseteq FaultKinds
         /\ UNCHANGED <<applied, watermark, table, shared>> \/ Apply(c)
<1> USE DEF source, archive, Fault, FaultKinds
<1>1. CASE \E batch \in SUBSET queue : Deliver(c, batch)
  BY <1>1 DEF Deliver
<1>2. CASE Persist(c) \/ Refused(c)
  BY <1>2 DEF Persist, Refused
<1>3. CASE \E s \in Sources : Fetch(c, s)
  BY <1>3 DEF Fetch
<1>4. CASE Apply(c)
  BY <1>4 DEF Apply
<1>5. CASE DrainFails(c) \/ Dies(c)
  BY <1>5 DEF DrainFails, Dies
<1>6. CASE Ack(c) \/ AckLost(c)
  BY <1>6 DEF Ack, AckLost
<1>7. CASE ReplayAll(c)
  BY <1>7 DEF ReplayAll
<1>8. QED
  BY <1>1, <1>2, <1>3, <1>4, <1>5, <1>6, <1>7 DEF Consumes

LEMMA ExistingGrows ==
  ASSUME Logs, \/ UNCHANGED log
               \/ \E s \in Sources, r \in Records : Write(s, r)
  PROVE  Existing \subseteq Existing'
<1>1. CASE UNCHANGED log
  BY <1>1 DEF Existing
<1>2. ASSUME NEW s \in Sources, NEW r \in Records, Write(s, r)
      PROVE  Existing \subseteq Existing'
  <2>. PICK n : n = Len(log[s]) + 1
    OBVIOUS
  <2>1. /\ n \in Numbers /\ Len(log'[s]) = n
        /\ \A o \in Sources \ {s} : log'[o] = log[o]
    BY <1>2, WriteFacts
  <2>2. Len(log[s]) \in Nat
    BY LogLengths
  <2>3. \A o \in Sources, m \in Numbers : m <= Len(log[o]) => m <= Len(log'[o])
    BY <2>1, <2>2 DEF Numbers
  <2>4. QED
    BY <2>3 DEF Existing, Messages
<1>3. QED
  BY <1>1, <1>2

LEMMA MailSteps ==
  ASSUME Logs, Outboxes, Mail, Prefixes, ANext
  PROVE  Mail'
<1>1. CASE \E s \in Sources, r \in Records : Write(s, r)
  <2>1. UNCHANGED <<queue, consumer, raw, faults>>
    BY <1>1 DEF Write, archive
  <2>2. Existing \subseteq Existing'
    BY <1>1, ExistingGrows
  <2>3. QED
    BY <2>1, <2>2 DEF Mail
<1>2. ASSUME NEW s \in Sources, Sends(s)
      PROVE  Mail'
  <2>1. Existing' = Existing /\ UNCHANGED <<consumer, raw>>
    BY <1>2, SendsFacts DEF Existing
  <2>2. \A n \in sending[s] : <<s, n>> \in Existing
    BY DEF Outboxes, Existing, Messages
  <2>3. queue' \subseteq Existing
    BY <1>2, <2>2, SendsFacts DEF Mail
  <2>4. faults' \subseteq FaultKinds
    BY <1>2, SendsFacts DEF Mail, FaultKinds
  <2>5. QED
    BY <2>1, <2>3, <2>4 DEF Mail, FaultKinds
<1>3. ASSUME NEW c \in Consumers, Consumes(c)
      PROVE  Mail'
  <2>1. Existing' = Existing
    BY <1>3, ConsumesFacts DEF Existing
  <2>2. queue' \subseteq Existing /\ raw' \subseteq Existing
    BY <1>3, ConsumesFacts DEF Mail
  <2>3. faults' \subseteq FaultKinds
    BY <1>3, ConsumesFacts DEF Mail, FaultKinds
  <2>4. PICK h : Becomes(c, h)
    BY <1>3, HandlerSteps DEF Prefixes
  <2>5. /\ consumer' \in [Consumers -> ConsumerStates]
        /\ \A d \in Consumers : consumer'[d].batch \subseteq Existing
    BY <2>4 DEF Becomes, Mail
  <2>6. QED
    BY <2>1, <2>2, <2>3, <2>5 DEF Mail, FaultKinds
<1>4. QED
  BY <1>1, <1>2, <1>3, StepKinds

-----------------------------------------------------------------------------
(* The prefix, the locks and the tables. *)

\* A consumer applies the record after the watermark of a source.
AppliesNext(c, s, n) ==
  /\ n = watermark[s] + 1 /\ n \in Numbers /\ n <= Len(log[s])
  /\ consumer[c].next = <<s, n>> /\ <<s, n>> \in raw
  /\ table' = [table EXCEPT ![s] = [k \in Rows |-> Replayed(table[s][k], k, log[s][n], n)]]
  /\ shared' = [k \in Shared |-> IF k \in log[s][n].rows /\ Overwrites(k, n)
                                  THEN <<s, n>> ELSE shared[k]]
  /\ applied' = applied \cup {<<s, n>>}
  /\ watermark' = [watermark EXCEPT ![s] = n]
  /\ consumer' = [consumer EXCEPT ![c] = [consumer[c] EXCEPT !.next = << >>]]
  /\ UNCHANGED <<log, past, raw>>

LEMMA ApplyFacts ==
  ASSUME Mail, Locks, NEW c \in Consumers, Apply(c)
  PROVE  \E s \in Sources, n \in Numbers : AppliesNext(c, s, n)
<1>1. consumer[c].next # << >>
  BY DEF Apply
<1>2. PICK s \in Sources : /\ consumer[c].next = <<s, watermark[s] + 1>>
                           /\ consumer[c].next \in raw
  BY <1>1 DEF Locks
<1>3. PICK n : n = watermark[s] + 1
  OBVIOUS
<1>4. <<s, n>> \in raw /\ <<s, n>> \in Existing
  BY <1>2, <1>3 DEF Mail
<1>5. n \in Numbers /\ n <= Len(log[s])
  BY <1>4 DEF Existing, Messages
<1>6. consumer[c].next[1] = s /\ consumer[c].next[2] = n
  BY <1>2, <1>3
<1>7. /\ table' = [table EXCEPT ![s] = [k \in Rows |-> Replayed(table[s][k], k, log[s][n], n)]]
      /\ shared' = [k \in Shared |-> IF k \in log[s][n].rows /\ Overwrites(k, n)
                                      THEN <<s, n>> ELSE shared[k]]
      /\ applied' = applied \cup {<<s, n>>}
      /\ watermark' = [watermark EXCEPT ![s] = n]
      /\ consumer' = [consumer EXCEPT ![c] = [consumer[c] EXCEPT !.next = << >>]]
      /\ UNCHANGED <<log, past, raw>>
  BY <1>6 DEF Apply, source
<1>8. QED
  BY <1>2, <1>3, <1>4, <1>5, <1>7 DEF AppliesNext

LEMMA PrefixesSteps ==
  ASSUME Logs, Mail, Prefixes, Locks, ANext
  PROVE  Prefixes'
<1>1. ASSUME NEW s \in Sources, NEW r \in Records, Write(s, r)
      PROVE  Prefixes'
  <2>. PICK n : n = Len(log[s]) + 1
    OBVIOUS
  <2>1. Len(log'[s]) = n /\ \A o \in Sources \ {s} : log'[o] = log[o]
    BY <1>1, WriteFacts
  <2>2. UNCHANGED <<applied, raw, watermark>>
    BY <1>1 DEF Write, archive
  <2>3. \A o \in Sources : watermark[o] <= Len(log'[o])
    <3>1. Len(log[s]) \in Nat /\ watermark[s] \in Nat
      BY LogLengths DEF Prefixes
    <3>2. QED
      BY <2>1, <3>1 DEF Prefixes
  <2>4. QED
    BY <2>2, <2>3 DEF Prefixes
<1>2. ASSUME NEW s \in Sources, Sends(s)
      PROVE  Prefixes'
  BY <1>2, SendsFacts DEF Prefixes
<1>3. ASSUME NEW c \in Consumers, Consumes(c), ~Apply(c)
      PROVE  Prefixes'
  BY <1>3, ConsumesFacts DEF Prefixes
<1>4. ASSUME NEW c \in Consumers, Apply(c)
      PROVE  Prefixes'
  <2>1. PICK s \in Sources, n \in Numbers : AppliesNext(c, s, n)
    BY <1>4, ApplyFacts
  <2>2. /\ n = watermark[s] + 1 /\ n <= Len(log[s]) /\ <<s, n>> \in raw
        /\ applied' = applied \cup {<<s, n>>} /\ watermark' = [watermark EXCEPT ![s] = n]
        /\ UNCHANGED <<log, raw>>
    BY <2>1 DEF AppliesNext
  <2>3. watermark' \in [Sources -> 0 .. MaxSeq]
    BY <2>2, ArchiveAssumption DEF Prefixes, Numbers
  <2>4. watermark'[s] = n /\ \A o \in Sources \ {s} : watermark'[o] = watermark[o]
    BY <2>2 DEF Prefixes
  <2>5. watermark[s] \in Nat
    BY DEF Prefixes
  <2>6. ASSUME NEW o \in Sources, NEW m \in Numbers
        PROVE  <<o, m>> \in applied' <=> m <= watermark'[o]
    <3>1. <<o, m>> \in applied' <=> <<o, m>> \in applied \/ (o = s /\ m = n)
      BY <2>2
    <3>2. <<o, m>> \in applied <=> m <= watermark[o]
      BY DEF Prefixes
    <3>3. m \in Nat
      BY DEF Numbers
    <3>4. QED
      BY <2>2, <2>4, <2>5, <3>1, <3>2, <3>3
  <2>7. QED
    BY <2>2, <2>3, <2>4, <2>6 DEF Prefixes
<1>5. QED
  BY <1>1, <1>2, <1>3, <1>4, StepKinds

\* Locks are kept where watermarks stand still and nobody takes one.
LEMMA LocksKept ==
  ASSUME Locks, UNCHANGED watermark, raw \subseteq raw',
         \A d \in Consumers : consumer'[d].next \in {consumer[d].next, << >>}
  PROVE  Locks'
<1>1. \A d \in Consumers : consumer'[d].next # << >> =>
         consumer'[d].next = consumer[d].next /\ consumer[d].next # << >>
  OBVIOUS
<1>2. \A d \in Consumers : consumer'[d].next # << >> =>
         \E s \in Sources : /\ consumer'[d].next = <<s, watermark'[s] + 1>>
                            /\ consumer'[d].next \in raw'
  BY <1>1 DEF Locks
<1>3. \A c, d \in Consumers :
         /\ consumer'[c].next # << >> /\ consumer'[d].next # << >>
         /\ consumer'[c].next[1] = consumer'[d].next[1]
         => c = d
  BY <1>1 DEF Locks
<1>4. QED
  BY <1>2, <1>3 DEF Locks

LEMMA LocksSteps ==
  ASSUME Logs, Mail, Prefixes, Locks, ANext
  PROVE  Locks'
<1>1. ASSUME NEW s \in Sources, NEW r \in Records, Write(s, r)
      PROVE  Locks'
  BY <1>1, LocksKept DEF Write, archive
<1>2. ASSUME NEW s \in Sources, Sends(s)
      PROVE  Locks'
  BY <1>2, SendsFacts, LocksKept
<1>3. ASSUME NEW c \in Consumers, Consumes(c), ~Apply(c),
             ~\E s \in Sources : Fetch(c, s) /\ <<s, watermark[s] + 1>> \in raw \ applied
      PROVE  Locks'
  <2>1. UNCHANGED watermark /\ raw \subseteq raw'
    BY <1>3, ConsumesFacts
  <2>2. consumer[c] \in ConsumerStates /\ Idle.next = << >>
    BY ConsumerFields
  <2>3. /\ \A d \in Consumers \ {c} : consumer'[d] = consumer[d]
        /\ consumer'[c].next \in {consumer[c].next, << >>}
    <3>1. CASE \E batch \in SUBSET queue : Deliver(c, batch)
      BY <3>1 DEF Deliver, Mail, Idle
    <3>2. CASE Persist(c) \/ Refused(c)
      <4>1. PICK acks : consumer' = [consumer EXCEPT ![c] = Stored(c, acks)]
        BY <3>2 DEF Persist, Refused
      <4>2. Stored(c, acks).next = consumer[c].next
        BY <2>2 DEF Stored, ConsumerStates
      <4>3. QED
        BY <4>1, <4>2 DEF Mail
    <3>3. CASE \E s \in Sources : Fetch(c, s)
      <4>1. PICK s \in Sources : consumer' = [consumer EXCEPT ![c].todo = @ \ {s}]
        BY <1>3, <3>3 DEF Fetch
      <4>2. QED
        BY <2>2, <4>1 DEF Mail, ConsumerStates
    <3>4. CASE DrainFails(c)
      BY <2>2, <3>4 DEF DrainFails, Mail, ConsumerStates
    <3>5. CASE Ack(c) \/ AckLost(c) \/ Dies(c)
      BY <2>2, <3>5 DEF Ack, AckLost, Dies, Mail
    <3>6. CASE ReplayAll(c)
      BY <3>6 DEF ReplayAll, Mail, Idle
    <3>7. QED
      BY <1>3, <3>1, <3>2, <3>3, <3>4, <3>5, <3>6 DEF Consumes
  <2>4. QED
    BY <2>1, <2>3, LocksKept
<1>4. ASSUME NEW c \in Consumers, NEW s \in Sources, Fetch(c, s), <<s, watermark[s] + 1>> \in raw \ applied
      PROVE  Locks'
  <2>1. /\ consumer' = [consumer EXCEPT ![c] = [consumer[c] EXCEPT !.next = <<s, watermark[s] + 1>>]]
        /\ UNCHANGED <<raw, watermark>> /\ Unlocked(s)
    BY <1>4 DEF Fetch, archive
  <2>2. /\ \A d \in Consumers \ {c} : consumer'[d] = consumer[d]
        /\ consumer'[c].next = <<s, watermark[s] + 1>>
    BY <2>1 DEF Mail, ConsumerStates
  <2>3. \A d \in Consumers \ {c} : consumer'[d].next # << >> => consumer'[d].next[1] # s
    BY <2>1, <2>2 DEF Unlocked
  <2>4. consumer'[c].next[1] = s
    BY <2>2
  <2>5. ASSUME NEW d \in Consumers, consumer'[d].next # << >>
        PROVE  \E o \in Sources : /\ consumer'[d].next = <<o, watermark'[o] + 1>>
                                  /\ consumer'[d].next \in raw'
    <3>1. CASE d = c
      BY <1>4, <2>1, <2>2, <3>1
    <3>2. CASE d # c
      BY <2>1, <2>2, <2>5, <3>2 DEF Locks
    <3>3. QED
      BY <3>1, <3>2
  <2>6. ASSUME NEW d \in Consumers, NEW e \in Consumers,
               consumer'[d].next # << >>, consumer'[e].next # << >>,
               consumer'[d].next[1] = consumer'[e].next[1]
        PROVE  d = e
    <3>1. CASE d # c /\ e # c
      BY <2>2, <2>6, <3>1 DEF Locks
    <3>2. CASE d = c \/ e = c
      BY <2>3, <2>4, <2>6, <3>2
    <3>3. QED
      BY <3>1, <3>2
  <2>7. QED
    BY <2>5, <2>6 DEF Locks
<1>5. ASSUME NEW c \in Consumers, Apply(c)
      PROVE  Locks'
  <2>1. PICK s \in Sources, n \in Numbers : AppliesNext(c, s, n)
    BY <1>5, ApplyFacts
  <2>2. /\ \A d \in Consumers \ {c} : consumer'[d] = consumer[d]
        /\ consumer'[c].next = << >>
    BY <2>1 DEF AppliesNext, Mail, ConsumerStates
  <2>3. /\ \A o \in Sources \ {s} : watermark'[o] = watermark[o]
        /\ UNCHANGED raw
        /\ consumer[c].next = <<s, n>>
    BY <2>1 DEF AppliesNext, Prefixes
  <2>4. consumer[c].next # << >> /\ consumer[c].next[1] = s
    BY <1>5, <2>3 DEF Apply
  <2>5. ASSUME NEW d \in Consumers, consumer'[d].next # << >>
        PROVE  \E o \in Sources : /\ consumer'[d].next = <<o, watermark'[o] + 1>>
                                  /\ consumer'[d].next \in raw'
    <3>1. d # c /\ consumer'[d] = consumer[d]
      BY <2>2, <2>5
    <3>2. PICK o \in Sources : consumer[d].next = <<o, watermark[o] + 1>> /\ consumer[d].next \in raw
      BY <2>5, <3>1 DEF Locks
    <3>3. consumer[d].next[1] = o
      BY <3>2
    <3>4. o # s
      BY <2>4, <2>5, <3>1, <3>3 DEF Locks
    <3>5. QED
      BY <2>3, <3>1, <3>2, <3>4
  <2>6. \A d, e \in Consumers :
          /\ consumer'[d].next # << >> /\ consumer'[e].next # << >>
          /\ consumer'[d].next[1] = consumer'[e].next[1]
          => d = e
    BY <2>2 DEF Locks
  <2>7. QED
    BY <2>5, <2>6 DEF Locks
<1>6. QED
  BY <1>1, <1>2, <1>3, <1>4, <1>5, StepKinds

LEMMA TablesSteps ==
  ASSUME Logs, History, Mail, Prefixes, Locks, Tables, ANext
  PROVE  Tables'
<1>1. ASSUME NEW s \in Sources, NEW r \in Records, Write(s, r)
      PROVE  Tables'
  <2>. PICK n : n = Len(log[s]) + 1
    OBVIOUS
  <2>1. /\ \A i \in 1 .. Len(log[s]) : past'[s][i] = past[s][i]
        /\ \A o \in Sources \ {s} : past'[o] = past[o]
    BY <1>1, WriteFacts
  <2>2. UNCHANGED <<table, watermark>>
    BY <1>1 DEF Write, archive
  <2>3. \A o \in Sources : AsOf(o, watermark[o])' = AsOf(o, watermark[o])
    <3>1. \A o \in Sources : watermark[o] \in Nat /\ Len(log[o]) \in Nat /\ watermark[o] <= Len(log[o])
      BY LogLengths DEF Prefixes
    <3>2. \A o \in Sources : watermark[o] # 0 => past'[o][watermark[o]] = past[o][watermark[o]]
      BY <2>1, <3>1
    <3>3. QED
      BY <2>2, <3>2 DEF AsOf
  <2>4. QED
    BY <2>2, <2>3 DEF Tables
<1>2. ASSUME UNCHANGED <<past, table, watermark>>
      PROVE  Tables'
  BY <1>2 DEF Tables, AsOf
<1>3. ASSUME NEW s \in Sources, Sends(s)
      PROVE  Tables'
  BY <1>2, <1>3, SendsFacts
<1>4. ASSUME NEW c \in Consumers, Consumes(c), ~Apply(c)
      PROVE  Tables'
  BY <1>2, <1>4, ConsumesFacts
<1>5. ASSUME NEW c \in Consumers, Apply(c)
      PROVE  Tables'
  <2>1. PICK s \in Sources, n \in Numbers : AppliesNext(c, s, n)
    BY <1>5, ApplyFacts
  <2>2. /\ n = watermark[s] + 1 /\ n <= Len(log[s]) /\ n \in Nat /\ n <= MaxSeq
        /\ table' = [table EXCEPT ![s] = [k \in Rows |-> Replayed(table[s][k], k, log[s][n], n)]]
        /\ watermark' = [watermark EXCEPT ![s] = n]
        /\ UNCHANGED past
    BY <2>1, ArchiveAssumption DEF AppliesNext, Numbers
  <2>3. /\ watermark[s] \in Nat /\ Len(log[s]) \in Nat
        /\ watermark'[s] = n /\ \A o \in Sources \ {s} : watermark'[o] = watermark[o]
    BY <2>2, LogLengths DEF Prefixes
  <2>4. /\ \A k \in Rows : table'[s][k] = Replayed(table[s][k], k, log[s][n], n)
        /\ \A o \in Sources \ {s} : table'[o] = table[o]
    BY <2>2 DEF Tables
  <2>5. \A k \in Rows : AsOf(s, n)[k] = After(s, n, k) /\ AsOf(s, n - 1) = AsOf(s, watermark[s])
    <3>1. n \in 1 .. Len(log[s]) /\ n # 0 /\ n - 1 = watermark[s]
      BY <2>2, <2>3
    <3>2. QED
      BY <3>1 DEF History, AsOf
  <2>6. ASSUME NEW k \in Rows
        PROVE  /\ table'[s][k] \in [at : 0 .. MaxSeq, live : BOOLEAN]
               /\ table'[s][k].at <= n
               /\ AsOf(s, n)[k] = IF table'[s][k].live THEN table'[s][k].at ELSE 0
    <3> DEFINE row == table[s][k]
               r == log[s][n]
    <3>1. /\ row \in [at : 0 .. MaxSeq, live : BOOLEAN] /\ row.at <= watermark[s]
          /\ AsOf(s, watermark[s])[k] = IF row.live THEN row.at ELSE 0
      BY DEF Tables
    <3>2. ~(row.at > n) /\ row.at <= n
      BY <2>2, <2>3, <3>1
    <3>3. table'[s][k] = IF k \in r.rows THEN [at |-> n, live |-> TRUE]
                         ELSE IF r.op = "replace" /\ k \in Scoped /\ row.live
                              THEN [at |-> n, live |-> FALSE] ELSE row
      BY <2>4, <3>2 DEF Replayed
    <3>4. AsOf(s, n)[k] = IF k \in r.rows THEN n
                          ELSE IF r.op = "replace" /\ k \in Scoped THEN 0
                          ELSE IF row.live THEN row.at ELSE 0
      BY <2>5, <3>1 DEF After
    <3>5. n \in 0 .. MaxSeq /\ n <= n
      BY <2>2
    <3>6. CASE k \in r.rows
      BY <3>3, <3>4, <3>5, <3>6
    <3>7. CASE k \notin r.rows /\ r.op = "replace" /\ k \in Scoped /\ row.live
      BY <3>3, <3>4, <3>5, <3>7
    <3>8. CASE k \notin r.rows /\ ~(r.op = "replace" /\ k \in Scoped /\ row.live)
      BY <3>1, <3>2, <3>3, <3>4, <3>8
    <3>9. QED
      BY <3>6, <3>7, <3>8
  <2>7. table' \in [Sources -> [Rows -> [at : 0 .. MaxSeq, live : BOOLEAN]]]
    <3>1. [k \in Rows |-> Replayed(table[s][k], k, log[s][n], n)]
            \in [Rows -> [at : 0 .. MaxSeq, live : BOOLEAN]]
      BY <2>4, <2>6
    <3>2. QED
      BY <2>2, <3>1 DEF Tables
  <2>8. \A o \in Sources, m \in Nat : AsOf(o, m)' = AsOf(o, m)
    BY <2>2 DEF AsOf
  <2>9. ASSUME NEW o \in Sources, NEW k \in Rows
        PROVE  /\ table'[o][k].at <= watermark'[o]
               /\ AsOf(o, watermark[o])'[k] = IF table'[o][k].live THEN table'[o][k].at ELSE 0
    <3>1. AsOf(o, watermark[o])' = AsOf(o, watermark'[o])
      BY <2>2 DEF AsOf
    <3>2. CASE o = s
      BY <2>3, <2>6, <3>1, <3>2
    <3>3. CASE o # s
      BY <2>3, <2>4, <3>1, <3>3 DEF Tables
    <3>4. QED
      BY <3>2, <3>3
  <2>10. QED
    BY <2>7, <2>9 DEF Tables
<1>6. QED
  BY <1>1, <1>3, <1>4, <1>5, StepKinds

(* Applying a record adds it to the writers of its rows, and a row follows *)
(* when its number is not smaller.                                         *)
LEMMA SharedApply ==
  ASSUME Prefixes, SharedRows, NEW c \in Consumers, NEW s \in Sources, NEW n \in Numbers,
         AppliesNext(c, s, n)
  PROVE  SharedRows'
<1>1. /\ n = watermark[s] + 1 /\ watermark' = [watermark EXCEPT ![s] = n] /\ log' = log
      /\ shared' = [k \in Shared |-> IF k \in log[s][n].rows /\ Overwrites(k, n)
                                      THEN <<s, n>> ELSE shared[k]]
  BY DEF AppliesNext
<1>2. <<s, n>> \in Messages /\ n \in Nat /\ n <= n
  BY DEF Messages, Numbers
<1>3. shared' \in [Shared -> {<<>>} \cup Messages]
  BY <1>1, <1>2 DEF SharedRows
<1>4. ASSUME NEW k \in Shared, NEW m \in Messages
      PROVE  m \in WritersOf(k)' <=> m \in WritersOf(k) \/ (m = <<s, n>> /\ k \in log[s][n].rows)
  <2>1. m = <<m[1], m[2]>> /\ m[1] \in Sources /\ m[2] \in Nat
    BY DEF Messages, Numbers
  <2>2. m[2] <= watermark'[m[1]] <=> m[2] <= watermark[m[1]] \/ m = <<s, n>>
    <3>1. CASE m[1] = s
      <4>1. watermark'[s] = n /\ watermark[s] \in Nat
        BY <1>1 DEF Prefixes
      <4>2. m[2] <= n <=> m[2] <= watermark[s] \/ m[2] = n
        BY <1>1, <2>1, <4>1
      <4>3. m = <<s, n>> <=> m[2] = n
        BY <2>1, <3>1
      <4>4. QED
        BY <3>1, <4>1, <4>2, <4>3
    <3>2. CASE m[1] # s
      <4>1. watermark'[m[1]] = watermark[m[1]]
        BY <1>1, <2>1, <3>2 DEF Prefixes
      <4>2. m # <<s, n>>
        BY <3>2
      <4>3. QED
        BY <4>1, <4>2
    <3>3. QED
      BY <3>1, <3>2
  <2>3. m = <<s, n>> => m[1] = s /\ m[2] = n
    OBVIOUS
  <2>4. QED
    BY <1>1, <2>2, <2>3 DEF WritersOf
<1>5. ASSUME NEW k \in Shared
      PROVE  /\ shared'[k] # <<>> => shared'[k] \in WritersOf(k)'
             /\ \A m \in WritersOf(k)' : shared'[k] # <<>> /\ m[2] <= shared'[k][2]
  <2>1. /\ shared[k] \in {<<>>} \cup Messages
        /\ shared[k] # <<>> => shared[k] \in WritersOf(k)
        /\ \A m \in WritersOf(k) : shared[k] # <<>> /\ m[2] <= shared[k][2]
    BY DEF SharedRows
  <2>2. WritersOf(k)' \subseteq Messages /\ WritersOf(k) \subseteq Messages
    BY DEF WritersOf, Messages
  <2>3. \A m \in Messages : m[2] \in Nat
    BY DEF Messages, Numbers
  <2>4. <<s, n>>[2] = n /\ <<s, n>> # <<>>
    OBVIOUS
  <2>5. CASE k \in log[s][n].rows /\ Overwrites(k, n)
    <3>1. shared'[k] = <<s, n>>
      BY <1>1, <2>5
    <3>2. \A m \in WritersOf(k) : m[2] <= n
      <4>1. \A m \in WritersOf(k) : shared[k] # <<>> /\ shared[k][2] <= n /\ m[2] <= shared[k][2]
        BY <2>1, <2>5 DEF Overwrites
      <4>2. shared[k] # <<>> => shared[k][2] \in Nat
        BY <2>1, <2>3
      <4>3. ASSUME NEW m \in WritersOf(k)
            PROVE  m[2] <= n
        <5>1. m[2] \in Nat /\ shared[k][2] \in Nat
          BY <2>2, <2>3, <4>1, <4>2
        <5>2. QED
          BY <1>2, <4>1, <5>1
      <4>4. QED
        BY <4>3
    <3>3. QED
      BY <1>2, <1>4, <2>2, <2>4, <2>5, <3>1, <3>2
  <2>6. CASE k \in log[s][n].rows /\ ~Overwrites(k, n)
    <3>1. shared'[k] = shared[k] /\ shared[k] # <<>> /\ ~(shared[k][2] <= n)
      BY <1>1, <2>6 DEF Overwrites
    <3>2. shared[k][2] \in Nat
      BY <2>1, <2>3, <3>1
    <3>3. n <= shared[k][2]
      BY <1>2, <3>1, <3>2
    <3>4. QED
      BY <1>4, <2>1, <2>2, <2>4, <3>1, <3>3
  <2>7. CASE k \notin log[s][n].rows
    <3>1. shared'[k] = shared[k] /\ \A m \in Messages : m \in WritersOf(k)' <=> m \in WritersOf(k)
      BY <1>1, <1>4, <2>7
    <3>2. QED
      BY <2>1, <2>2, <3>1
  <2>8. QED
    BY <2>5, <2>6, <2>7
<1>6. QED
  BY <1>3, <1>5 DEF SharedRows

LEMMA SharedSteps ==
  ASSUME Logs, Mail, Prefixes, Locks, SharedRows, ANext
  PROVE  SharedRows'
<1>1. ASSUME UNCHANGED <<watermark, shared>>,
             \A s \in Sources, n \in Numbers : n <= watermark[s] => log'[s][n] = log[s][n]
      PROVE  SharedRows'
  <2>1. \A k \in Shared : WritersOf(k)' = WritersOf(k)
    BY <1>1 DEF WritersOf, Messages
  <2>2. QED
    BY <1>1, <2>1 DEF SharedRows
<1>2. ASSUME NEW s \in Sources, NEW r \in Records, Write(s, r)
      PROVE  SharedRows'
  <2>. PICK n : n = Len(log[s]) + 1
    OBVIOUS
  <2>1. /\ \A i \in 1 .. Len(log[s]) : log'[s][i] = log[s][i]
        /\ \A o \in Sources \ {s} : log'[o] = log[o]
    BY <1>2, WriteFacts
  <2>2. UNCHANGED <<watermark, shared>>
    BY <1>2 DEF Write, archive
  <2>3. ASSUME NEW o \in Sources, NEW i \in Numbers, i <= watermark[o]
        PROVE  log'[o][i] = log[o][i]
    <3>1. Len(log[o]) \in Nat /\ watermark[o] \in Nat /\ watermark[o] <= Len(log[o])
      BY LogLengths DEF Prefixes
    <3>2. i \in 1 .. Len(log[o])
      BY <2>3, <3>1 DEF Numbers
    <3>3. QED
      BY <2>1, <3>2
  <2>4. QED
    BY <1>1, <2>2, <2>3
<1>3. ASSUME NEW s \in Sources, Sends(s)
      PROVE  SharedRows'
  BY <1>1, <1>3, SendsFacts
<1>4. ASSUME NEW c \in Consumers, Consumes(c)
      PROVE  SharedRows'
  <2>1. CASE Apply(c)
    BY <2>1, ApplyFacts, SharedApply
  <2>2. CASE UNCHANGED <<applied, watermark, table, shared>>
    BY <1>1, <1>4, <2>2, ConsumesFacts
  <2>3. QED
    BY <1>4, <2>1, <2>2, ConsumesFacts
<1>5. QED
  BY <1>2, <1>3, <1>4, StepKinds

-----------------------------------------------------------------------------
(* Nothing is lost on the way. *)

LEMMA VouchedSteps ==
  ASSUME Mail, Vouched, ANext
  PROVE  Vouched'
<1>1. CASE (\E s \in Sources, r \in Records : Write(s, r)) \/ \E s \in Sources : Sends(s)
  <2>1. UNCHANGED <<consumer, raw>> /\ faults \subseteq faults'
    BY <1>1, SendsFacts DEF Write, archive
  <2>2. QED
    BY <2>1 DEF Vouched
<1>2. ASSUME NEW c \in Consumers, Consumes(c), "refused" \notin faults'
      PROVE  \A d \in Consumers : consumer'[d].pc = "drain" => consumer'[d].acks \subseteq raw'
  <2>1. raw \subseteq raw' /\ "refused" \notin faults
    BY <1>2, ConsumesFacts
  <2>2. \A d \in Consumers : consumer[d].pc = "drain" => consumer[d].acks \subseteq raw
    BY <2>1 DEF Vouched
  <2>3. consumer[c] \in ConsumerStates
    BY ConsumerFields
  <2>4. \A d \in Consumers \ {c} : consumer'[d] = consumer[d]
    BY <1>2 DEF Consumes, Deliver, Persist, Refused, Fetch, Apply, DrainFails, Ack, AckLost,
                Dies, ReplayAll, Mail
  <2>5. consumer'[c].pc = "drain" => consumer'[c].acks \subseteq raw'
    <3>1. CASE (\E batch \in SUBSET queue : Deliver(c, batch)) \/ Ack(c) \/ AckLost(c) \/ Dies(c)
      <4>1. CASE \E batch \in SUBSET queue : Deliver(c, batch)
        <5>1. PICK batch :
                consumer' = [consumer EXCEPT ![c] = [Idle EXCEPT !.pc = "persist", !.batch = batch]]
          BY <4>1 DEF Deliver
        <5>2. [Idle EXCEPT !.pc = "persist", !.batch = batch].pc = "persist"
          BY DEF Idle
        <5>3. QED
          BY <5>1, <5>2 DEF Mail
      <4>2. CASE Ack(c) \/ AckLost(c) \/ Dies(c)
        <5>1. consumer' = [consumer EXCEPT ![c] = Idle]
          BY <4>2 DEF Ack, AckLost, Dies
        <5>2. Idle.pc = "idle"
          BY DEF Idle
        <5>3. QED
          BY <5>1, <5>2 DEF Mail
      <4>3. QED
        BY <3>1, <4>1, <4>2
    <3>2. CASE Persist(c)
      <4>1. consumer' = [consumer EXCEPT ![c] = Stored(c, consumer[c].batch)] /\ raw' = raw \cup consumer[c].batch
        BY <3>2 DEF Persist
      <4>2. Stored(c, consumer[c].batch).acks = consumer[c].batch
        BY <2>3 DEF Stored, ConsumerStates
      <4>3. QED
        BY <4>1, <4>2 DEF Mail
    <3>3. CASE Refused(c)
      BY <1>2, <3>3 DEF Refused, Fault
    <3>4. CASE (\E s \in Sources : Fetch(c, s)) \/ Apply(c) \/ DrainFails(c)
      <4>1. consumer'[c].pc = consumer[c].pc /\ consumer'[c].acks = consumer[c].acks
        <5>1. CASE \E s \in Sources : Fetch(c, s)
          <6>1. PICK s \in Sources :
                  \/ consumer' = [consumer EXCEPT ![c] = [consumer[c] EXCEPT !.next = <<s, watermark[s] + 1>>]]
                  \/ consumer' = [consumer EXCEPT ![c] = [consumer[c] EXCEPT !.todo = consumer[c].todo \ {s}]]
            BY <5>1 DEF Fetch
          <6>2. QED
            BY <2>3, <6>1 DEF Mail, ConsumerStates
        <5>2. CASE Apply(c)
          <6>1. consumer' = [consumer EXCEPT ![c] = [consumer[c] EXCEPT !.next = << >>]]
            BY <5>2 DEF Apply
          <6>2. QED
            BY <2>3, <6>1 DEF Mail, ConsumerStates
        <5>3. CASE DrainFails(c)
          <6>1. consumer' = [consumer EXCEPT ![c] = [consumer[c] EXCEPT !.next = << >>, !.todo = {}]]
            BY <5>3 DEF DrainFails, Mail
          <6>2. QED
            BY <2>3, <6>1 DEF Mail, ConsumerStates
        <5>4. QED
          BY <3>4, <5>1, <5>2, <5>3
      <4>2. QED
        BY <2>1, <2>2, <4>1
    <3>5. CASE ReplayAll(c)
      BY <3>5 DEF ReplayAll, Idle, Mail
    <3>6. QED
      BY <1>2, <3>1, <3>2, <3>3, <3>4, <3>5 DEF Consumes
  <2>6. QED
    BY <2>1, <2>2, <2>4, <2>5
<1>3. QED
  BY <1>1, <1>2, StepKinds DEF Vouched

LEMMA NothingLostSteps ==
  ASSUME Logs, Outboxes, Vouched, NothingLost, ANext
  PROVE  NothingLost'
<1>1. ASSUME NEW s \in Sources, NEW r \in Records, Write(s, r)
      PROVE  NothingLost'
  <2>. PICK n : n = Len(log[s]) + 1
    OBVIOUS
  <2>1. UNCHANGED <<queue, raw, faults>>
    BY <1>1 DEF Write, archive
  <2>2. outbox' = [outbox EXCEPT ![s] = [outbox[s] EXCEPT ![n] = [outbox[s][n] EXCEPT !.status = "pending"]]]
    BY <1>1 DEF Write
  <2>3. n \in Numbers
    BY <1>1, WriteFacts
  <2>4. [outbox[s][n] EXCEPT !.status = "pending"].status # "queued"
    BY <2>3 DEF Outboxes, OutboxRows
  <2>5. \A o \in Sources, m \in Numbers : outbox'[o][m].status = "queued" => outbox[o][m].status = "queued"
    BY <2>2, <2>3, <2>4 DEF Outboxes
  <2>6. QED
    BY <2>1, <2>5 DEF NothingLost
<1>2. ASSUME NEW s \in Sources, Sends(s)
      PROVE  NothingLost'
  <2>1. /\ UNCHANGED raw /\ queue \subseteq queue' /\ faults \subseteq faults'
    BY <1>2, SendsFacts
  <2>2. \A o \in Sources, m \in Numbers : outbox'[o][m].status = "queued" =>
          outbox[o][m].status = "queued" \/ <<o, m>> \in queue'
    <3>1. CASE UNCHANGED outbox
      BY <3>1
    <3>2. ASSUME NEW rows, Answered(s, rows), NEW o \in Sources, NEW m \in Numbers,
                 outbox'[o][m].status = "queued"
          PROVE  outbox[o][m].status = "queued" \/ (o = s /\ m \in sending[s] /\ rows[m].status = "queued")
      BY <3>2 DEF Answered, Outboxes
    <3>3. CASE Sent(s)
      BY <3>2, <3>3 DEF Sent
    <3>4. CASE SendFails(s)
      <4>1. \A m \in Numbers : Bumped(s)[m].status # "queued"
        BY DEF Bumped
      <4>2. QED
        BY <3>2, <3>4, <4>1 DEF SendFails
    <3>5. QED
      BY <1>2, <3>1, <3>3, <3>4 DEF Sends, Arm, Flush, EvictedSending, Stranded
  <2>3. QED
    BY <2>1, <2>2 DEF NothingLost
<1>3. ASSUME NEW c \in Consumers, Consumes(c)
      PROVE  NothingLost'
  <2>1. UNCHANGED outbox /\ raw \subseteq raw' /\ faults \subseteq faults' /\ (queue' # queue => Ack(c))
    BY <1>3, ConsumesFacts
  <2>2. CASE queue' = queue
    BY <2>1, <2>2 DEF NothingLost
  <2>3. CASE Ack(c)
    <3>1. queue' = queue \ consumer[c].acks /\ consumer[c].pc = "drain"
      BY <2>3 DEF Ack
    <3>2. "refused" \notin faults => consumer[c].acks \subseteq raw
      BY <3>1 DEF Vouched
    <3>3. QED
      BY <2>1, <3>1, <3>2 DEF NothingLost
  <2>4. QED
    BY <2>1, <2>2, <2>3
<1>4. QED
  BY <1>1, <1>2, <1>3, StepKinds

-----------------------------------------------------------------------------
(* The invariant, and what follows from it. *)

LEMMA LogsSteps ==
  ASSUME Logs, History, ANext
  PROVE  Logs' /\ History'
<1>1. CASE \E s \in Sources, r \in Records : Write(s, r)
  BY <1>1, LogsWrite
<1>2. CASE (\E s \in Sources : Sends(s)) \/ (\E c \in Consumers : Consumes(c))
  <2>1. UNCHANGED <<log, past>>
    BY <1>2, SendsFacts, ConsumesFacts
  <2>2. Logs'
    BY <2>1 DEF Logs
  <2>3. \A s \in Sources, n \in Nat, k \in Rows : After(s, n, k)' = After(s, n, k)
    BY <2>1 DEF After, AsOf
  <2>4. History'
    <3>1. \A s \in Sources : \A n \in 1 .. Len(log[s]), k \in Rows : After(s, n, k)' = After(s, n, k)
      BY <2>3
    <3>2. QED
      BY <2>1, <3>1 DEF History
  <2>5. QED
    BY <2>2, <2>4
<1>3. QED
  BY <1>1, <1>2, StepKinds

LEMMA OutboxesSteps ==
  ASSUME Logs, Outboxes, ANext
  PROVE  Outboxes'
<1>1. CASE \E s \in Sources, r \in Records : Write(s, r)
  BY <1>1, OutboxesWrite
<1>2. CASE \E s \in Sources : Sends(s)
  BY <1>2, OutboxesSends
<1>3. CASE \E c \in Consumers : Consumes(c)
  <2>1. UNCHANGED <<log, outbox, arming, alarm, sending>>
    BY <1>3, ConsumesFacts
  <2>2. QED
    BY <2>1 DEF Outboxes
<1>4. QED
  BY <1>1, <1>2, <1>3, StepKinds

LEMMA InvSteps ==
  ASSUME IInv, [ANext]_avars
  PROVE  IInv'
<1>1. CASE ANext
  BY <1>1, LogsSteps, OutboxesSteps, MailSteps, PrefixesSteps, LocksSteps, TablesSteps,
     SharedSteps, VouchedSteps, NothingLostSteps DEF IInv
<1>2. CASE UNCHANGED avars
  <2>1. UNCHANGED <<log, past, outbox, arming, alarm, sending, queue, consumer, raw, applied,
                    watermark, table, shared, faults>>
    BY <1>2 DEF avars, source, archive
  <2>2. Logs' /\ History'
    BY <2>1 DEF IInv, Logs, History, After, AsOf
  <2>3. Outboxes'
    BY <2>1 DEF IInv, Outboxes
  <2>4. Mail'
    BY <2>1 DEF IInv, Mail, Existing
  <2>5. Prefixes' /\ Locks'
    BY <2>1 DEF IInv, Prefixes, Locks
  <2>6. Tables'
    BY <2>1 DEF IInv, Tables, AsOf
  <2>7. Vouched' /\ NothingLost'
    BY <2>1 DEF IInv, Vouched, NothingLost
  <2>8. SharedRows'
    BY <2>1 DEF IInv, SharedRows, WritersOf
  <2>9. QED
    BY <2>2, <2>3, <2>4, <2>5, <2>6, <2>7, <2>8 DEF IInv
<1>3. QED
  BY <1>1, <1>2

LEMMA InvHolds == ASpec => []IInv
<1>1. AInit => IInv
  BY InitInv
<1>2. IInv /\ [ANext]_avars => IInv'
  BY InvSteps
<1>3. QED
  BY <1>1, <1>2, PTL DEF ASpec

LEMMA PrefixFromInv == IInv => ArchiveIsPrefix
<1> SUFFICES ASSUME IInv, NEW s \in Sources
             PROVE  /\ watermark[s] <= Len(log[s])
                    /\ AsOf(s, watermark[s]) =
                         [k \in Rows |-> IF table[s][k].live THEN table[s][k].at ELSE 0]
  BY DEF ArchiveIsPrefix, IInv, SharedRows
<1>1. watermark[s] <= Len(log[s]) /\ watermark[s] \in Nat
  BY DEF IInv, Prefixes
<1>2. AsOf(s, watermark[s]) \in [Rows -> Nat]
  <2>1. CASE watermark[s] = 0
    BY <2>1 DEF AsOf
  <2>2. CASE watermark[s] # 0
    <3>1. past[s] \in Seq([Rows -> Nat]) /\ Len(past[s]) = Len(log[s])
      BY DEF IInv, Logs
    <3>2. Len(log[s]) \in Nat
      BY LogLengths DEF IInv
    <3>3. watermark[s] \in 1 .. Len(past[s])
      BY <1>1, <2>2, <3>1, <3>2
    <3>4. past[s][watermark[s]] \in [Rows -> Nat]
      BY <3>1, <3>3, ElementOfSeq
    <3>5. QED
      BY <2>2, <3>4 DEF AsOf
  <2>3. QED
    BY <2>1, <2>2
<1>3. \A k \in Rows : AsOf(s, watermark[s])[k] = IF table[s][k].live THEN table[s][k].at ELSE 0
  BY DEF IInv, Tables
<1>4. QED
  BY <1>1, <1>2, <1>3

LEMMA TypesFromInv == IInv => ArchiveTypeOK
<1> SUFFICES ASSUME IInv PROVE ArchiveTypeOK
  OBVIOUS
<1>1. log \in [Sources -> UNION {[1 .. n -> Records] : n \in 0 .. MaxSeq}]
  <2>1. log \in [Sources -> Seq(Records)]
    BY DEF IInv, Logs
  <2>2. ASSUME NEW s \in Sources
        PROVE  log[s] \in UNION {[1 .. n -> Records] : n \in 0 .. MaxSeq}
    <3>1. log[s] \in Seq(Records)
      BY <2>1
    <3>2. Len(log[s]) \in 0 .. MaxSeq
      BY LogLengths, ArchiveAssumption DEF IInv, Logs
    <3>3. log[s] \in [1 .. Len(log[s]) -> Records]
      BY <3>1, LenProperties
    <3>4. QED
      BY <3>2, <3>3
  <2>3. QED
    BY <2>1, <2>2
<1>2. ASSUME NEW s \in Sources
      PROVE  past[s] \in [1 .. Len(log[s]) -> [Rows -> 0 .. Len(log[s])]]
  <2>1. past[s] \in Seq([Rows -> Nat]) /\ Len(past[s]) = Len(log[s]) /\ Len(log[s]) \in Nat
    BY LogLengths DEF IInv, Logs
  <2>2. past[s] \in [1 .. Len(log[s]) -> [Rows -> Nat]]
    BY <2>1, LenProperties
  <2>3. ASSUME NEW n \in 1 .. Len(log[s])
        PROVE  past[s][n] \in [Rows -> 0 .. Len(log[s])]
    <3>1. past[s][n] \in [Rows -> Nat]
      BY <2>2
    <3>2. \A k \in Rows : past[s][n][k] <= n
      BY DEF IInv, Logs
    <3>3. \A k \in Rows : past[s][n][k] \in 0 .. Len(log[s])
      BY <2>1, <3>1, <3>2
    <3>4. QED
      BY <3>1, <3>3
  <2>4. QED
    BY <2>2, <2>3
<1>3. /\ outbox \in [Sources -> [Numbers -> [status : {"none", "pending", "queued", "failed"},
                                             attempts : 0 .. MaxAttempts]]]
      /\ arming \subseteq Sources /\ alarm \subseteq Sources
      /\ sending \in [Sources -> SUBSET Numbers]
  BY DEF IInv, Outboxes, OutboxRows
<1>4. /\ queue \subseteq Messages /\ raw \subseteq Messages
      /\ faults \subseteq {"stranded", "evicted", "refused", "drain", "died", "unacked"}
  BY DEF IInv, Mail, Existing
<1>5. consumer \in [Consumers -> [pc : {"idle", "persist", "drain"},
                                  batch : SUBSET Messages, acks : SUBSET Messages,
                                  todo : SUBSET Sources, next : {<<>>} \cup Messages]]
  BY DEF IInv, Mail, ConsumerStates
<1>6. applied \subseteq raw /\ watermark \in [Sources -> 0 .. MaxSeq]
  BY DEF IInv, Prefixes
<1>7. table \in [Sources -> [Rows -> [at : 0 .. MaxSeq, live : BOOLEAN]]]
  BY DEF IInv, Tables
<1>8. shared \in [Shared -> {<<>>} \cup Messages]
  BY DEF IInv, SharedRows
<1>9. QED
  BY <1>1, <1>2, <1>3, <1>4, <1>5, <1>6, <1>7, <1>8 DEF ArchiveTypeOK

(* Whatever the queue repeats or reorders, whoever dies and however many   *)
(* consumers and hand-run replays there are, the rows of one source are    *)
(* those of a prefix of its records, and a row that several sources write  *)
(* holds the applied record with the greatest number (drain.ts, replay.ts).*)
THEOREM TablesArePrefixes == ASpec => []ArchiveIsPrefix
BY InvHolds, PrefixFromInv, PTL

(* Every part keeps its type, a record is given up only after MaxAttempts, *)
(* and a record that counts as sent is in the queue or in the raw log      *)
(* until the database refuses an insert (queue-flush.ts, process-batch.ts).*)
THEOREM ArchiveInvHolds == ASpec => []ArchiveInv
<1>1. IInv => ArchiveInv
  BY TypesFromInv DEF ArchiveInv, IInv
<1>2. QED
  BY <1>1, InvHolds, PTL
=============================================================================
