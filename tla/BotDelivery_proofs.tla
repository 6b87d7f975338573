--------------------------- MODULE BotDelivery_proofs ---------------------------
(***************************************************************************)
(* For any users, components, drawings, sockets, handlers and failures:    *)
(* type correctness, the policies, one interaction per operation, effects  *)
(* once, and what "completed" means.  Interactions are numbered without a  *)
(* gap, so a commit takes a number that no table knows; everything else    *)
(* about a number is said of committed ones only.                          *)
(***************************************************************************)
EXTENDS BotDelivery, FiniteSetTheorems, TLAPS

\* Interactions have the numbers up to some n.
Numbered == \E n \in Nat : Committed = 1 .. n

\* Nothing on its way names an interaction that was not committed.
Linked ==
  /\ \A i \in Deliveries \ Committed :
       /\ outbox[i] = "none"
       /\ deliveries[i].status = "none"
       /\ i \notin inbox
  /\ \A t \in Results : result[t] # NoResult => result[t].of \in Committed

\* Every interaction has its operation, and every operation its interaction.
Owned ==
  /\ \A o \in Users \X Keys : acks[o] # 0 => acks[o] \in Committed
  /\ \A i \in Committed : \E o \in Users \X Keys : \A p \in Users \X Keys : acks[p] = i <=> p = o

\* What a handler of an answer knows of its interaction.
Answering(h) ==
  /\ h.at = "ending" => h.answer \in Bodies /\ applied[h.of] # NoBody
  /\ h.at = "telling" /\ h.answer \in Bodies => applied[h.of] # NoBody /\ settled[h.of] = 1

Answerings == \A t \in Results : Answering(result[t])

IInv == /\ DeliveryTypeOK /\ Numbered /\ Linked /\ Owned /\ PolicyHolds
        /\ EffectsOnce /\ CompletedMeansApplied /\ Answerings

-----------------------------------------------------------------------------
(* The connection keeps its types, whoever uses it. *)
LEMMA GatewaySteps ==
  ASSUME GTypeOK, Comes \/ Lapse \/ \E k \in Sockets : Greeted(k)
  PROVE  GTypeOK'
<1> USE GatewayAssumption DEF GTypeOK, Sockets
<1>1. ASSUME NEW k \in Sockets, Accept(k) \/ Hello(k) \/ Lose(k) \/ Close(k) \/ Greeted(k)
      PROVE  GTypeOK'
  BY <1>1 DEF Accept, Hello, Lose, Close, Greeted, Disconnected
<1>2. CASE Lapse
  BY <1>2 DEF Lapse, Disconnected
<1>3. QED
  BY <1>1, <1>2 DEF Comes

LEMMA CommittedPlain == Committed \subseteq Deliveries
  BY DEF Committed

LEMMA InitInv == DInit => IInv
<1> SUFFICES ASSUME DInit PROVE IInv
  OBVIOUS
<1> USE DeliveryAssumption, GatewayAssumption, BodiesAssumption DEF DInit
<1>1. Committed = {}
  BY DEF Committed, NoInteraction
<1>2. GTypeOK
  BY DEF GInit, GTypeOK, Sockets
<1>3. DeliveryTypeOK
  <2>1. /\ NoInteraction \in InteractionRows /\ NoSubmit \in SubmitHandlers
        /\ NoDelivery \in DeliveryRows /\ NoResult \in ResultHandlers
    BY DEF InteractionRows, SubmitHandlers, DeliveryRows, ResultHandlers, NoDelivery
  <2>2. interactions \in [Deliveries -> InteractionRows]
    BY <2>1
  <2>3. acks \in [Users \X Keys -> 0 .. MaxDeliveries]
    OBVIOUS
  <2>4. submit \in [Submits -> SubmitHandlers]
    BY <2>1
  <2>5. applied \in [Deliveries -> Bodies \cup {NoBody}]
    OBVIOUS
  <2>6. posted \in [Deliveries -> Nat] /\ settled \in [Deliveries -> 0 .. 1]
    OBVIOUS
  <2>7. deliveries \in [Deliveries -> DeliveryRows]
    BY <2>1
  <2>8. result \in [Results -> ResultHandlers]
    BY <2>1
  <2>9. outbox \in [Deliveries -> {"none", "pending", "delivered", "dead_letter"}]
    OBVIOUS
  <2>10. /\ dissolved \in BOOLEAN /\ components \in Lists /\ inbox \subseteq Deliveries
         /\ under \in [Deliveries -> Policies \cup {"none"}]
    OBVIOUS
  <2>11. faults \in 0 .. MaxFaults
    OBVIOUS
  <2>12. QED
    BY <1>2, <2>2, <2>3, <2>4, <2>5, <2>6, <2>7, <2>8, <2>9, <2>10, <2>11 DEF DeliveryTypeOK
<1>4. Numbered
  BY <1>1 DEF Numbered
<1>5. Linked /\ Owned
  BY <1>1 DEF Linked, Owned, NoDelivery
<1>6. PolicyHolds
  BY <1>1 DEF PolicyHolds, Active
<1>7. EffectsOnce /\ CompletedMeansApplied /\ Answerings
  BY DEF EffectsOnce, CompletedMeansApplied, Answerings, Answering, NoResult, NoInteraction, NoDelivery, NoBody
<1>8. QED
  BY <1>3, <1>4, <1>5, <1>6, <1>7 DEF IInv

-----------------------------------------------------------------------------
(* What an end does to an interaction, and to its count. *)
LEMMA EndTypes ==
  ASSUME DeliveryTypeOK, CompletedMeansApplied,
         NEW i \in Committed, NEW how \in {"completed", "failed"}, Finalize(i, how)
  PROVE  /\ interactions' \in [Deliveries -> InteractionRows]
         /\ settled' \in [Deliveries -> 0 .. 1]
<1>1. i \in Deliveries /\ interactions[i] # NoInteraction
  BY DEF Committed, NoInteraction
<1>2. [interactions[i] EXCEPT !.status = how] \in InteractionRows
  BY <1>1 DEF DeliveryTypeOK, InteractionRows
<1>3. settled[i] = 0 \/ ~Ends(i, how)
  BY <1>1 DEF DeliveryTypeOK, CompletedMeansApplied, Ends
<1>4. QED
  BY <1>1, <1>2, <1>3 DEF DeliveryTypeOK, Finalize

LEMMA RowTypes ==
  ASSUME NEW d \in DeliveryRows, NEW to \in {"sent", "completed", "failed"},
         to = "sent" => d.attempts < SendAttempts
  PROVE  [d EXCEPT !.status = to] \in DeliveryRows
<1>1. d \in [status : {"none", "pending", "sent", "completed", "failed"}, attempts : 0 .. SendAttempts]
  BY DEF DeliveryRows
<1>2. [d EXCEPT !.status = to] = [status |-> to, attempts |-> d.attempts]
  BY <1>1
<1>3. QED
  BY <1>1, <1>2 DEF DeliveryRows

LEMMA FailTypes ==
  ASSUME DeliveryTypeOK, NEW i \in Deliveries, Fails(i)
  PROVE  deliveries' \in [Deliveries -> DeliveryRows]
BY DEF DeliveryTypeOK, DeliveryRows, Fails

LEMMA EnqueueTypes ==
  ASSUME DeliveryTypeOK, NEW i \in Deliveries, EnqueueDelivery(i)
  PROVE  deliveries' \in [Deliveries -> DeliveryRows] /\ inbox' \subseteq Deliveries
<1>1. Enqueued(i) \in DeliveryRows
  BY DeliveryAssumption DEF DeliveryTypeOK, Enqueued, DeliveryRows, NoDelivery
<1>2. QED
  BY <1>1 DEF DeliveryTypeOK, EnqueueDelivery, Sends

(* Whatever is drawn is a list of components. *)
LEMMA DisablingTypes ==
  ASSUME NEW list \in Lists, NEW D
  PROVE  Disabling(list, D) \in Lists
<1>1. PICK E \in SUBSET Components : list \in [E -> [policy : Policies, disabled : BOOLEAN]]
  BY DEF Lists
<1>2. \A c \in E : [list[c] EXCEPT !.disabled = list[c].disabled \/ c \in D]
                    \in [policy : Policies, disabled : BOOLEAN]
  <2> SUFFICES ASSUME NEW c \in E
               PROVE  [list[c] EXCEPT !.disabled = list[c].disabled \/ c \in D]
                        \in [policy : Policies, disabled : BOOLEAN]
    OBVIOUS
  <2>1. list[c] \in [policy : Policies, disabled : BOOLEAN]
    BY <1>1
  <2> DEFINE flag == list[c].disabled \/ c \in D
  <2>2. flag \in BOOLEAN
    OBVIOUS
  <2> HIDE DEF flag
  <2>3. [list[c] EXCEPT !.disabled = flag] \in [policy : Policies, disabled : BOOLEAN]
    BY <2>1, <2>2
  <2>4. QED
    BY <2>3 DEF flag
<1>3. Disabling(list, D) \in [E -> [policy : Policies, disabled : BOOLEAN]]
  BY <1>1, <1>2 DEF Disabling
<1>4. QED
  BY <1>3 DEF Lists

LEMMA RedrawnTypes ==
  ASSUME DeliveryTypeOK
  PROVE  Redrawn \subseteq Lists
<1>1. \A list \in Layouts \cup {components} : list \in Lists
  BY DeliveryAssumption DEF DeliveryTypeOK
<1>2. QED
  BY <1>1, DisablingTypes DEF Redrawn

LEMMA TypeSteps ==
  ASSUME DeliveryTypeOK, CompletedMeansApplied, Linked, DNext
  PROVE  DeliveryTypeOK'
<1> USE DeliveryAssumption DEF channel, ending
<1>1. CASE Connection
  <2>1. GTypeOK'
    BY <1>1, GatewaySteps DEF DeliveryTypeOK, Connection
  <2>2. QED
    BY <1>1, <2>1 DEF DeliveryTypeOK, Connection
<1>. GTypeOK' \/ ~(UNCHANGED gateway)
  BY DEF DeliveryTypeOK, GTypeOK, gateway
<1>2. CASE Dissolve
  BY <1>2 DEF DeliveryTypeOK, Dissolve
<1>2a. CASE Redraw
  BY <1>2a, RedrawnTypes DEF DeliveryTypeOK, Redraw
<1>3. ASSUME NEW t \in Submits, NEW u \in Users, NEW c \in Components, NEW k \in Keys,
             Submit(t, u, c, k)
      PROVE  DeliveryTypeOK'
  <2>1. components[c].policy \in Policies
    BY <1>3 DEF Submit, Offered, DeliveryTypeOK, Lists
  <2>2. [at |-> "asking", user |-> u, component |-> c, key |-> k, policy |-> components[c].policy]
          \in SubmitHandlers
    BY <2>1 DEF SubmitHandlers
  <2>3. QED
    BY <1>3, <2>2 DEF DeliveryTypeOK, Submit
<1>4. ASSUME NEW t \in Submits, Asked(t) \/ SubmitLost(t)
      PROVE  DeliveryTypeOK'
  <2>1. submit' \in [Submits -> SubmitHandlers]
    BY <1>4 DEF DeliveryTypeOK, Asked, SubmitLost, SubmitHandlers, NoSubmit
  <2>2. QED
    BY <1>4, <2>1 DEF DeliveryTypeOK, Asked, SubmitLost
<1>5. ASSUME NEW t \in Submits, Commit(t)
      PROVE  DeliveryTypeOK'
  <2> DEFINE h == submit[t]
             i == Cardinality(Committed) + 1
  <2>1. h.user \in Users /\ h.component \in Components /\ h.key \in Keys /\ h.policy \in Policies
    BY <1>5 DEF DeliveryTypeOK, Commit, SubmitHandlers, NoSubmit
  <2>2. i \in Deliveries /\ i \in 0 .. MaxDeliveries
    BY <1>5 DEF Commit, Deliveries
  <2>3. [status |-> "pending", user |-> h.user, component |-> h.component] \in InteractionRows
    BY <2>1 DEF InteractionRows
  <2>4. NoSubmit \in SubmitHandlers
    BY DEF SubmitHandlers
  <2>5. Locked(h) \in Lists
    BY DisablingTypes DEF DeliveryTypeOK, Locked
  <2>6. /\ submit' \in [Submits -> SubmitHandlers]
        /\ interactions' \in [Deliveries -> InteractionRows]
        /\ acks' \in [Users \X Keys -> 0 .. MaxDeliveries]
        /\ components' \in Lists
        /\ under' \in [Deliveries -> Policies \cup {"none"}]
        /\ outbox' \in [Deliveries -> {"none", "pending", "delivered", "dead_letter"}]
    BY <1>5, <2>1, <2>2, <2>3, <2>4, <2>5 DEF DeliveryTypeOK, Commit
  <2>7. QED
    BY <1>5, <2>6 DEF DeliveryTypeOK, Commit
<1>6. ASSUME NEW i \in Deliveries, Flush(i) \/ FlushFails(i)
      PROVE  DeliveryTypeOK'
  <2>1. deliveries' \in [Deliveries -> DeliveryRows] /\ inbox' \subseteq Deliveries
    BY <1>6, EnqueueTypes DEF DeliveryTypeOK, Flush, FlushFails
  <2>2. faults' \in 0 .. MaxFaults
    BY <1>6 DEF DeliveryTypeOK, Flush, FlushFails
  <2>3. QED
    BY <1>6, <2>1, <2>2 DEF DeliveryTypeOK, Flush, FlushFails
<1>7. ASSUME NEW i \in Deliveries, Redeliver(i)
      PROVE  DeliveryTypeOK'
  <2>1. Bumped(i) \in DeliveryRows
    <3>1. /\ deliveries[i].attempts \in Nat
          /\ deliveries[i].attempts + 1 <= SendAttempts
      BY <1>7 DEF Redeliver, DeliveryTypeOK, DeliveryRows
    <3>2. QED
      BY <3>1 DEF Bumped, DeliveryRows
  <2>2. deliveries' \in [Deliveries -> DeliveryRows]
    <3>1. deliveries[i] \in DeliveryRows /\ deliveries[i].attempts < SendAttempts
      BY <1>7 DEF Redeliver, DeliveryTypeOK, DeliveryRows
    <3>2. [deliveries[i] EXCEPT !.status = "sent"] \in DeliveryRows
      BY <3>1, RowTypes
    <3>3. QED
      BY <1>7, <2>1, <3>2 DEF DeliveryTypeOK, Redeliver
  <2>3. QED
    BY <1>7, <2>2 DEF DeliveryTypeOK, Redeliver, Sends
<1>8. ASSUME NEW t \in Results, NEW i \in Deliveries, NEW a \in Answers, Answer(t, i, a)
      PROVE  DeliveryTypeOK'
  <2>1. i \in Committed
    BY <1>8 DEF Answer, Linked
  <2>2. /\ [at |-> "telling", of |-> i, answer |-> a] \in ResultHandlers
        /\ [at |-> "applying", of |-> i, answer |-> a] \in ResultHandlers
    BY DEF ResultHandlers
  <2>3. /\ interactions' \in [Deliveries -> InteractionRows]
        /\ settled' \in [Deliveries -> 0 .. 1]
    BY <1>8, <2>1, EndTypes DEF Answer, DeliveryTypeOK
  <2>4. deliveries' \in [Deliveries -> DeliveryRows]
    BY <1>8, FailTypes DEF Answer, DeliveryTypeOK
  <2>5. QED
    BY <1>8, <2>2, <2>3, <2>4 DEF DeliveryTypeOK, Answer
<1>9. ASSUME NEW t \in Results, result[t] # NoResult
      PROVE  /\ result[t].of \in Committed /\ result[t].of \in Deliveries
             /\ NoResult \in ResultHandlers
             /\ \A at \in {"ending", "telling"} : [result[t] EXCEPT !.at = at] \in ResultHandlers
  BY <1>9 DEF Linked, DeliveryTypeOK, ResultHandlers
<1>10. ASSUME NEW t \in Results, Apply(t)
       PROVE  DeliveryTypeOK'
  <2> DEFINE i == result[t].of
  <2>1. result[t] # NoResult
    BY <1>10 DEF Apply, NoResult
  <2>2. result' \in [Results -> ResultHandlers]
    BY <1>10, <1>9, <2>1 DEF Apply, DeliveryTypeOK
  <2>3. /\ interactions' \in [Deliveries -> InteractionRows]
        /\ settled' \in [Deliveries -> 0 .. 1]
    BY <1>10, <1>9, <2>1, EndTypes DEF Apply, DeliveryTypeOK
  <2>4. deliveries' \in [Deliveries -> DeliveryRows]
    BY <1>10, <1>9, <2>1, FailTypes DEF Apply, DeliveryTypeOK
  <2>5. /\ applied' \in [Deliveries -> Bodies \cup {NoBody}]
        /\ posted' \in [Deliveries -> Nat]
    <3>1. i \in Deliveries
      BY <1>9, <2>1
    <3>2. posted[i] + 1 \in Nat
      BY <3>1 DEF DeliveryTypeOK
    <3>3. QED
      BY <1>10, <3>1, <3>2 DEF Apply, DeliveryTypeOK, Posted
  <2>6. QED
    <3>1. UNCHANGED <<gateway, dissolved, under, acks, outbox, submit, inbox, faults>>
      BY <1>10 DEF Apply
    <3>2. components' \in Lists
      BY <1>10, RedrawnTypes DEF Apply, DeliveryTypeOK
    <3>3. QED
      BY <2>2, <2>3, <2>4, <2>5, <3>1, <3>2 DEF DeliveryTypeOK
<1>11. ASSUME NEW t \in Results, Complete(t)
       PROVE  DeliveryTypeOK'
  <2>1. result[t] # NoResult
    BY <1>11 DEF Complete, NoResult
  <2>2. result' \in [Results -> ResultHandlers]
    BY <1>11, <1>9, <2>1 DEF Complete, DeliveryTypeOK
  <2>3. /\ interactions' \in [Deliveries -> InteractionRows]
        /\ settled' \in [Deliveries -> 0 .. 1]
    BY <1>11, <1>9, <2>1, EndTypes DEF Complete
  <2>4. QED
    BY <1>11, <2>2, <2>3 DEF DeliveryTypeOK, Complete
<1>12. ASSUME NEW t \in Results, Tell(t) \/ ResultLost(t)
       PROVE  DeliveryTypeOK'
  <2>1. result[t] # NoResult
    BY <1>12 DEF Tell, ResultLost, NoResult
  <2>2. result' \in [Results -> ResultHandlers]
    BY <1>12, <1>9, <2>1 DEF Tell, ResultLost, DeliveryTypeOK
  <2>3. [deliveries[result[t].of] EXCEPT !.status = "completed"] \in DeliveryRows
    <3>1. deliveries[result[t].of] \in DeliveryRows
      BY <1>9, <2>1 DEF DeliveryTypeOK
    <3>2. QED
      BY <3>1, RowTypes
  <2>4. deliveries' \in [Deliveries -> DeliveryRows]
    BY <1>12, <1>9, <2>1, <2>3, FailTypes DEF Tell, ResultLost, DeliveryTypeOK
  <2>5. faults' \in 0 .. MaxFaults
    BY <1>12 DEF Tell, ResultLost, DeliveryTypeOK
  <2>6. QED
    BY <1>12, <2>2, <2>4, <2>5 DEF DeliveryTypeOK, Tell, ResultLost
<1>13. QED
  BY <1>1, <1>2, <1>2a, <1>3, <1>4, <1>5, <1>6, <1>7, <1>8, <1>10, <1>11, <1>12 DEF DNext

-----------------------------------------------------------------------------
(* A step leaves the interactions alone, ends one, or commits one. *)

EndsOne == \E i \in Committed, how \in {"completed", "failed"} :
  /\ interactions[i].status = "pending"
  /\ interactions' = [interactions EXCEPT ![i].status = how]

Keeps == /\ UNCHANGED <<acks, under>>
         /\ UNCHANGED interactions \/ EndsOne

LEMMA Roster ==
  ASSUME DeliveryTypeOK, Linked, DNext
  PROVE  Keeps \/ \E t \in Submits : Commit(t) /\ Commits(submit[t])
<1> USE DEF channel, ending
<1>1. ASSUME NEW i \in Committed, NEW how \in {"completed", "failed"}, Finalize(i, how)
      PROVE  UNCHANGED interactions \/ EndsOne
  BY <1>1 DEF Finalize, Ends, EndsOne
<1>2. CASE Connection \/ Dissolve \/ Redraw
  BY <1>2 DEF Connection, Dissolve, Redraw, Keeps
<1>3. ASSUME NEW t \in Submits,
             (\E u \in Users, c \in Components, k \in Keys : Submit(t, u, c, k))
               \/ Asked(t) \/ SubmitLost(t)
      PROVE  Keeps
  BY <1>3 DEF Submit, Asked, SubmitLost, Keeps
<1>4. ASSUME NEW t \in Submits, Commit(t), ~Commits(submit[t])
      PROVE  Keeps
  BY <1>4 DEF Commit, Keeps
<1>5. ASSUME NEW i \in Deliveries, Flush(i) \/ FlushFails(i) \/ Redeliver(i)
      PROVE  Keeps
  BY <1>5 DEF Flush, FlushFails, Redeliver, Keeps
<1>6. ASSUME NEW t \in Results, NEW i \in Deliveries, NEW a \in Answers, Answer(t, i, a)
      PROVE  Keeps
  <2>1. i \in Committed
    BY <1>6 DEF Answer, Linked
  <2>2. UNCHANGED interactions \/ EndsOne
    BY <1>1, <1>6, <2>1 DEF Answer
  <2>3. QED
    BY <1>6, <2>2 DEF Answer, Keeps
<1>7. ASSUME NEW t \in Results, Apply(t) \/ Complete(t)
      PROVE  Keeps
  <2>1. result[t].of \in Committed
    BY <1>7 DEF Apply, Complete, NoResult, Linked
  <2>2. UNCHANGED interactions \/ EndsOne
    BY <1>1, <1>7, <2>1 DEF Apply, Complete
  <2>3. UNCHANGED <<acks, under>>
    BY <1>7 DEF Apply, Complete
  <2>4. QED
    BY <2>2, <2>3 DEF Keeps
<1>8. ASSUME NEW t \in Results, Tell(t) \/ ResultLost(t)
      PROVE  Keeps
  BY <1>8 DEF Tell, ResultLost, Keeps
<1>9. QED
  BY <1>2, <1>3, <1>4, <1>5, <1>6, <1>7, <1>8 DEF DNext

LEMMA KeepsFacts ==
  ASSUME DeliveryTypeOK, Keeps
  PROVE  /\ Committed' = Committed
         /\ \A i \in Committed : /\ interactions'[i].user = interactions[i].user
                                 /\ interactions'[i].component = interactions[i].component
         /\ \A c \in Components : Active(c)' \subseteq Active(c)
<1>1. CASE UNCHANGED interactions
  BY <1>1 DEF Committed, Active
<1>2. CASE EndsOne
  <2>1. PICK i \in Committed, how \in {"completed", "failed"} :
          /\ interactions[i].status = "pending"
          /\ interactions' = [interactions EXCEPT ![i].status = how]
    BY <1>2 DEF EndsOne
  <2>2. i \in Deliveries /\ interactions[i] \in InteractionRows /\ interactions[i] # NoInteraction
    BY <2>1 DEF DeliveryTypeOK, Committed, NoInteraction
  <2>3. /\ interactions'[i].status = how
        /\ interactions'[i].user = interactions[i].user
        /\ interactions'[i].component = interactions[i].component
    BY <2>1, <2>2 DEF DeliveryTypeOK, InteractionRows
  <2>4. \A j \in Deliveries \ {i} : interactions'[j] = interactions[j]
    BY <2>1, <2>2 DEF DeliveryTypeOK
  <2>5. Committed' = Committed
    BY <2>1, <2>2, <2>3, <2>4 DEF Committed
  <2>6. \A c \in Components : Active(c)' \subseteq Active(c)
    BY <2>1, <2>2, <2>3, <2>4, <2>5 DEF Active, Committed
  <2>7. QED
    BY <2>3, <2>4, <2>5, <2>6 DEF Committed
<1>3. QED
  BY <1>1, <1>2 DEF Keeps

(* A commit takes the next number. *)
LEMMA CommitFacts ==
  ASSUME DeliveryTypeOK, Numbered, NEW t \in Submits, Commit(t), Commits(submit[t]),
         NEW i, i = Cardinality(Committed) + 1
  PROVE  /\ i \in Deliveries \ Committed /\ i # 0
         /\ Committed' = Committed \cup {i}
         /\ Numbered'
         /\ submit[t] \in [at : {"asking", "committing"}, user : Users, component : Components, key : Keys,
                           policy : Policies]
         /\ interactions'[i] = [status |-> "pending", user |-> submit[t].user,
                               component |-> submit[t].component]
         /\ \A j \in Committed : interactions'[j] = interactions[j]
<1>1. PICK n \in Nat : Committed = 1 .. n
  BY DEF Numbered
<1>2. Cardinality(Committed) = n
  BY <1>1, FS_Interval
<1>3. i \in Deliveries \ Committed /\ i # 0
  BY <1>1, <1>2 DEF Commit
<1>4. /\ \A j \in Deliveries \ {i} : interactions'[j] = interactions[j]
      /\ interactions'[i] = [status |-> "pending", user |-> submit[t].user,
                             component |-> submit[t].component]
  BY <1>3 DEF Commit, DeliveryTypeOK
<1>5. Committed' = Committed \cup {i}
  <2>1. interactions'[i].status # "none"
    BY <1>4
  <2>2. \A j \in Deliveries : j \in Committed' <=> j \in Committed \/ j = i
    BY <1>4, <2>1 DEF Committed
  <2>3. QED
    BY <1>3, <2>2 DEF Committed
<1>6. Numbered'
  <2>1. Committed' = 1 .. n + 1
    BY <1>1, <1>2, <1>5
  <2>2. QED
    BY <2>1 DEF Numbered
<1>7. submit[t] \in SubmitHandlers /\ submit[t] # NoSubmit
  BY DEF Commit, DeliveryTypeOK, NoSubmit
<1>8. QED
  BY <1>3, <1>4, <1>5, <1>6, <1>7 DEF Committed, SubmitHandlers

-----------------------------------------------------------------------------
LEMMA NumberedSteps ==
  ASSUME IInv, DNext
  PROVE  Numbered'
<1>1. CASE Keeps
  BY <1>1, KeepsFacts DEF IInv, Numbered
<1>2. ASSUME NEW t \in Submits, Commit(t), Commits(submit[t])
      PROVE  Numbered'
  BY <1>2, CommitFacts DEF IInv
<1>3. QED
  BY <1>1, <1>2, Roster DEF IInv

LEMMA OwnedSteps ==
  ASSUME IInv, DNext
  PROVE  Owned'
<1>1. CASE Keeps
  BY <1>1, KeepsFacts DEF IInv, Owned, Keeps
<1>2. ASSUME NEW t \in Submits, Commit(t), Commits(submit[t])
      PROVE  Owned'
  <2> DEFINE i == Cardinality(Committed) + 1
             o == <<submit[t].user, submit[t].key>>
  <2>1. /\ i \in Deliveries \ Committed /\ i # 0
        /\ Committed' = Committed \cup {i}
        /\ o \in Users \X Keys
    BY <1>2, CommitFacts DEF IInv
  <2>2. acks[o] = 0 /\ acks' = [acks EXCEPT ![o] = i]
    BY <1>2 DEF Commit, Commits
  <2>3. acks \in [Users \X Keys -> 0 .. MaxDeliveries]
    BY DEF IInv, DeliveryTypeOK
  <2>4. acks'[o] = i /\ \A p \in (Users \X Keys) \ {o} : acks'[p] = acks[p]
    BY <2>1, <2>2, <2>3
  <2>5. \A p \in Users \X Keys : acks[p] # i
    BY <2>1 DEF IInv, Owned
  <2>6. \A p \in Users \X Keys : acks'[p] # 0 => acks'[p] \in Committed'
    BY <2>1, <2>4 DEF IInv, Owned
  <2>7. ASSUME NEW j \in Committed'
        PROVE  \E q \in Users \X Keys : \A p \in Users \X Keys : acks'[p] = j <=> p = q
    <3>1. CASE j = i
      BY <2>1, <2>4, <2>5, <3>1
    <3>2. CASE j # i
      <4>1. j \in Committed /\ j # 0
        BY <2>1, <3>2 DEF Committed, Deliveries
      <4>2. PICK q \in Users \X Keys : \A p \in Users \X Keys : acks[p] = j <=> p = q
        BY <4>1 DEF IInv, Owned
      <4>3. \A p \in Users \X Keys : acks'[p] = j <=> p = q
        BY <2>2, <2>4, <3>2, <4>1, <4>2
      <4>4. QED
        BY <4>3
    <3>3. QED
      BY <3>1, <3>2
  <2>8. QED
    BY <2>6, <2>7 DEF Owned
<1>3. QED
  BY <1>1, <1>2, Roster DEF IInv

(* The gate looks at what stands when the interaction is committed, with the  *)
(* greatest number so far; from then on what stands only gets less.           *)
LEMMA PoliciesSteps ==
  ASSUME IInv, DNext
  PROVE  PolicyHolds'
<1>0. \A c \in Components : Active(c) \subseteq Committed
  BY DEF Active
<1>1. CASE Keeps
  <2>1. /\ \A i \in Committed : interactions'[i].user = interactions[i].user
        /\ \A c \in Components : Active(c)' \subseteq Active(c)
        /\ under' = under
    BY <1>1, KeepsFacts DEF IInv, Keeps
  <2>2. ASSUME NEW c \in Components, NEW i \in Active(c)', NEW j \in Active(c)', i < j
        PROVE  /\ under'[j] # "exclusive"
               /\ interactions'[i].user = interactions'[j].user => under'[j] # "per_user_once"
    <3>1. i \in Active(c) /\ j \in Active(c) /\ i \in Committed /\ j \in Committed
      BY <1>0, <2>1, <2>2
    <3>2. /\ under[j] # "exclusive"
          /\ interactions[i].user = interactions[j].user => under[j] # "per_user_once"
      BY <2>2, <3>1 DEF IInv, PolicyHolds
    <3>3. QED
      BY <2>1, <3>1, <3>2
  <2>3. QED
    BY <2>2 DEF PolicyHolds
<1>2. ASSUME NEW t \in Submits, Commit(t), Commits(submit[t])
      PROVE  PolicyHolds'
  <2> DEFINE n == Cardinality(Committed) + 1
             h == submit[t]
  <2>1. /\ n \in Deliveries \ Committed
        /\ Committed' = Committed \cup {n}
        /\ h.component \in Components
        /\ interactions'[n] = [status |-> "pending", user |-> h.user, component |-> h.component]
        /\ \A j \in Committed : interactions'[j] = interactions[j]
    BY <1>2, CommitFacts DEF IInv
  <2>2. Gate(h)
    BY <1>2 DEF Commits
  <2>3. under'[n] = h.policy /\ \A j \in Committed : under'[j] = under[j]
    <3>1. under' = [under EXCEPT ![n] = h.policy]
      BY <1>2 DEF Commit
    <3>2. QED
      BY <2>1, <3>1 DEF IInv, DeliveryTypeOK, Committed
  <2>4. \A j \in Committed : j < n
    <3>1. PICK m \in Nat : Committed = 1 .. m
      BY DEF IInv, Numbered
    <3>2. Cardinality(Committed) = m
      BY <3>1, FS_Interval
    <3>3. QED
      BY <3>1, <3>2
  <2>5. \A c \in Components :
          Active(c)' = IF c = h.component THEN Active(c) \cup {n} ELSE Active(c)
    BY <2>1 DEF Active
  <2> HIDE DEF n
  <2>6. ASSUME NEW c \in Components, NEW i \in Active(c)', NEW j \in Active(c)', i < j
        PROVE  /\ under'[j] # "exclusive"
               /\ interactions'[i].user = interactions'[j].user => under'[j] # "per_user_once"
    <3>1. i \in Active(c) /\ i \in Committed
      <4>1. i = n => ~(i < j)
        BY <1>0, <2>1, <2>4, <2>5 DEF Deliveries, Committed
      <4>2. QED
        BY <1>0, <2>5, <2>6, <4>1
    <3>2. CASE j = n
      <4>1. c = h.component
        BY <1>0, <2>1, <2>5, <3>2
      <4>2. /\ h.policy # "exclusive"
            /\ h.policy = "per_user_once" => interactions[i].user # h.user
        BY <2>2, <3>1, <4>1 DEF Gate, ActiveOf
      <4>3. QED
        BY <2>1, <2>3, <3>1, <3>2, <4>2
    <3>3. CASE j # n
      <4>1. j \in Active(c) /\ j \in Committed
        BY <1>0, <2>5, <3>3
      <4>2. /\ under[j] # "exclusive"
            /\ interactions[i].user = interactions[j].user => under[j] # "per_user_once"
        BY <2>6, <3>1, <4>1 DEF IInv, PolicyHolds
      <4>3. QED
        BY <2>1, <2>3, <3>1, <4>1, <4>2
    <3>4. QED
      BY <3>2, <3>3
  <2>7. QED
    BY <2>6 DEF PolicyHolds
<1>3. QED
  BY <1>1, <1>2, Roster DEF IInv

-----------------------------------------------------------------------------
LEMMA LinkedSteps ==
  ASSUME IInv, DNext
  PROVE  Linked'
<1> USE DEF channel, ending
<1>0. Committed \subseteq Committed'
  BY Roster, KeepsFacts, CommitFacts DEF IInv
<1>1. ASSUME UNCHANGED <<outbox, deliveries, inbox, result>>
      PROVE  Linked'
  BY <1>0, <1>1 DEF IInv, Linked, Committed
<1>2. CASE Connection \/ Dissolve \/ Redraw
  BY <1>1, <1>2 DEF Connection, Dissolve, Redraw
<1>3. ASSUME NEW t \in Submits,
             (\E u \in Users, c \in Components, k \in Keys : Submit(t, u, c, k))
               \/ Asked(t) \/ SubmitLost(t)
      PROVE  Linked'
  BY <1>1, <1>3 DEF Submit, Asked, SubmitLost
<1>4. ASSUME NEW t \in Submits, Commit(t)
      PROVE  Linked'
  <2>1. CASE ~Commits(submit[t])
    BY <1>1, <1>4, <2>1 DEF Commit
  <2>2. CASE Commits(submit[t])
    <3> DEFINE i == Cardinality(Committed) + 1
    <3>1. Committed' = Committed \cup {i}
      BY <1>4, <2>2, CommitFacts DEF IInv
    <3>2. /\ \A j \in Deliveries \ {i} : outbox'[j] = outbox[j]
          /\ UNCHANGED <<deliveries, inbox, result>>
      BY <1>4, <2>2 DEF Commit, IInv, DeliveryTypeOK
    <3>3. QED
      BY <3>1, <3>2 DEF IInv, Linked
  <2>3. QED
    BY <2>1, <2>2
<1>5. ASSUME NEW i \in Deliveries, Flush(i) \/ FlushFails(i) \/ Redeliver(i)
      PROVE  Linked'
  <2>1. i \in Committed
    BY <1>5 DEF Flush, FlushFails, Redeliver, IInv, Linked
  <2>2. \A j \in Deliveries \ {i} :
          outbox'[j] = outbox[j] /\ deliveries'[j] = deliveries[j] /\ (j \in inbox' => j \in inbox)
    BY <1>5 DEF Flush, FlushFails, Redeliver, EnqueueDelivery, Sends, IInv, DeliveryTypeOK
  <2>3. UNCHANGED result
    BY <1>5 DEF Flush, FlushFails, Redeliver
  <2>4. ASSUME NEW j \in Deliveries, j \notin Committed'
        PROVE  outbox'[j] = "none" /\ deliveries'[j].status = "none" /\ j \notin inbox'
    <3>1. j \in Deliveries \ Committed /\ j # i
      BY <1>0, <2>1, <2>4
    <3>2. outbox'[j] = outbox[j] /\ deliveries'[j] = deliveries[j] /\ (j \in inbox' => j \in inbox)
      BY <2>2, <3>1
    <3>3. outbox[j] = "none" /\ deliveries[j].status = "none" /\ j \notin inbox
      BY <3>1 DEF IInv, Linked
    <3>4. QED
      BY <3>2, <3>3
  <2>5. \A s \in Results : result'[s] # NoResult => result'[s].of \in Committed'
    BY <1>0, <2>3 DEF IInv, Linked
  <2>6. QED
    BY <2>4, <2>5 DEF Linked
<1>6. ASSUME NEW t \in Results, NEW i \in Deliveries, NEW a \in Answers, Answer(t, i, a)
      PROVE  Linked'
  <2>1. i \in Committed
    BY <1>6 DEF Answer, IInv, Linked
  <2>2. \A j \in Deliveries \ {i} : deliveries'[j] = deliveries[j]
    BY <1>6 DEF Answer, Fails, IInv, DeliveryTypeOK
  <2>3. \A s \in Results : result'[s] = result[s] \/ result'[s].of = i
    BY <1>6 DEF Answer, IInv, DeliveryTypeOK
  <2>4. UNCHANGED <<outbox, inbox>>
    BY <1>6 DEF Answer
  <2>5. QED
    BY <1>0, <2>1, <2>2, <2>3, <2>4 DEF IInv, Linked, Committed
<1>7. ASSUME NEW t \in Results, Apply(t) \/ Complete(t) \/ Tell(t) \/ ResultLost(t)
      PROVE  Linked'
  <2> DEFINE i == result[t].of
  <2>1. i \in Committed
    BY <1>7 DEF Apply, Complete, Tell, ResultLost, NoResult, IInv, Linked
  <2>2. \A j \in Deliveries \ {i} : deliveries'[j] = deliveries[j]
    BY <1>7 DEF Apply, Complete, Tell, ResultLost, Fails, IInv, DeliveryTypeOK
  <2>3. result[t] \in ResultHandlers /\ result[t] # NoResult
    BY <1>7 DEF Apply, Complete, Tell, ResultLost, NoResult, IInv, DeliveryTypeOK
  <2>4. \A at : [result[t] EXCEPT !.at = at].of = i
    BY <2>3 DEF ResultHandlers
  <2>5. \A s \in Results : result'[s] \in {result[s], NoResult} \/ result'[s].of = i
    <3>1. \/ result' = [result EXCEPT ![t] = NoResult]
          \/ \E at \in {"ending", "telling"} :
               result' = [result EXCEPT ![t] = [result[t] EXCEPT !.at = at]]
      BY <1>7 DEF Apply, Complete, Tell, ResultLost
    <3>2. \A s \in Results \ {t} : result'[s] = result[s]
      BY <3>1 DEF IInv, DeliveryTypeOK
    <3>3. result'[t] = NoResult \/ \E at : result'[t] = [result[t] EXCEPT !.at = at]
      BY <3>1 DEF IInv, DeliveryTypeOK
    <3>4. QED
      BY <2>4, <3>2, <3>3
  <2>6. UNCHANGED <<outbox, inbox>>
    BY <1>7 DEF Apply, Complete, Tell, ResultLost
  <2>7. QED
    BY <1>0, <2>1, <2>2, <2>5, <2>6 DEF IInv, Linked, Committed
<1>8. QED
  BY <1>2, <1>3, <1>4, <1>5, <1>6, <1>7 DEF DNext

-----------------------------------------------------------------------------
(* The effects: applied once, before anything is called completed.         *)

(* What an answer did, as far as the effects are concerned: how an end     *)
(* changes an interaction and its count, and nothing else of the kind.     *)
LEMMA Ending ==
  ASSUME DeliveryTypeOK, CompletedMeansApplied,
         NEW i \in Committed, NEW how \in {"completed", "failed"}, Finalize(i, how)
  PROVE  /\ settled'[i] = 1
         /\ interactions'[i].status \in {interactions[i].status, how}
         /\ interactions'[i].status \in {"completed", "failed"}
         /\ \A j \in Deliveries \ {i} : /\ settled'[j] = settled[j]
                                        /\ interactions'[j] = interactions[j]
<1>1. i \in Deliveries /\ interactions[i] \in InteractionRows /\ interactions[i] # NoInteraction
  BY DEF DeliveryTypeOK, Committed, NoInteraction
<1>2. interactions[i].status \in {"pending", "completed", "failed"}
  BY <1>1 DEF InteractionRows
<1>3. CASE Ends(i, how)
  <2>1. settled[i] = 0
    BY <1>1, <1>3 DEF Ends, DeliveryTypeOK, CompletedMeansApplied
  <2>2. interactions'[i].status = how /\ settled'[i] = 1
    BY <1>1, <1>3, <2>1 DEF Finalize, DeliveryTypeOK, InteractionRows
  <2>3. QED
    BY <1>1, <1>3, <2>2 DEF Finalize, DeliveryTypeOK
<1>4. CASE ~Ends(i, how)
  BY <1>1, <1>2, <1>4 DEF Ends, Finalize, CompletedMeansApplied
<1>5. QED
  BY <1>3, <1>4

(* Deliveries are completed by nothing but an answer that was carried out. *)
LEMMA NotCompleted ==
  ASSUME DeliveryTypeOK, NEW i \in Deliveries, Fails(i) \/ EnqueueDelivery(i) \/ Redeliver(i)
  PROVE  \A j \in Deliveries : deliveries'[j].status = "completed" => deliveries[j].status = "completed"
<1>1. CASE Fails(i)
  BY <1>1 DEF Fails, DeliveryTypeOK, DeliveryRows
<1>2. CASE EnqueueDelivery(i)
  BY <1>2 DEF EnqueueDelivery, Enqueued, NoDelivery, DeliveryTypeOK, DeliveryRows
<1>3. CASE Redeliver(i)
  <2>1. deliveries[i] \in DeliveryRows
    BY DEF DeliveryTypeOK
  <2>2. /\ [deliveries[i] EXCEPT !.status = "sent"].status # "completed"
        /\ Bumped(i).status # "completed"
    BY <2>1 DEF DeliveryRows, Bumped
  <2>3. QED
    BY <1>3, <2>2 DEF Redeliver, DeliveryTypeOK
<1>4. QED
  BY <1>1, <1>2, <1>3

Effects == EffectsOnce /\ CompletedMeansApplied /\ Answerings

LEMMA EffectsSteps ==
  ASSUME IInv, DNext
  PROVE  Effects'
<1> USE DEF channel, ending
<1>1. ASSUME UNCHANGED <<interactions, applied, posted, settled, result>>,
             \A j \in Deliveries : deliveries'[j].status = "completed" => deliveries[j].status = "completed"
      PROVE  Effects'
  BY <1>1 DEF IInv, Effects, EffectsOnce, CompletedMeansApplied, Answerings, Answering
<1>2. CASE Connection \/ Dissolve \/ Redraw
  BY <1>1, <1>2 DEF Connection, Dissolve, Redraw
<1>3. ASSUME NEW t \in Submits,
             (\E u \in Users, c \in Components, k \in Keys : Submit(t, u, c, k))
               \/ Asked(t) \/ SubmitLost(t)
      PROVE  Effects'
  BY <1>1, <1>3 DEF Submit, Asked, SubmitLost
<1>4. ASSUME NEW t \in Submits, Commit(t)
      PROVE  Effects'
  <2>1. CASE ~Commits(submit[t])
    BY <1>1, <1>4, <2>1 DEF Commit
  <2>2. CASE Commits(submit[t])
    <3> DEFINE i == Cardinality(Committed) + 1
    <3>1. /\ i \in Deliveries /\ interactions[i].status = "none"
          /\ interactions'[i].status = "pending"
      <4>1. /\ i \in Deliveries \ Committed
            /\ interactions'[i] = [status |-> "pending", user |-> submit[t].user,
                                   component |-> submit[t].component]
        BY <1>4, <2>2, CommitFacts DEF IInv
      <4>2. QED
        BY <4>1 DEF Committed
    <3>2. \A j \in Deliveries \ {i} : interactions'[j] = interactions[j]
      BY <1>4, <2>2 DEF Commit, IInv, DeliveryTypeOK
    <3>3. UNCHANGED <<applied, posted, settled, deliveries, result>>
      BY <1>4 DEF Commit
    <3>4. CompletedMeansApplied'
      <4>1. ASSUME NEW j \in Deliveries
            PROVE  /\ interactions'[j].status = "completed" => interactions[j].status = "completed"
                   /\ interactions'[j].status \in {"completed", "failed"}
                        <=> interactions[j].status \in {"completed", "failed"}
        BY <3>1, <3>2
      <4>2. QED
        BY <3>3, <4>1 DEF IInv, CompletedMeansApplied
    <3>5. QED
      BY <3>3, <3>4 DEF IInv, Effects, EffectsOnce, Answerings, Answering
  <2>3. QED
    BY <2>1, <2>2
<1>5. ASSUME NEW i \in Deliveries, Flush(i) \/ FlushFails(i) \/ Redeliver(i)
      PROVE  Effects'
  <2>1. UNCHANGED <<interactions, applied, posted, settled, result>>
    BY <1>5 DEF Flush, FlushFails, Redeliver
  <2>2. \A j \in Deliveries : deliveries'[j].status = "completed" => deliveries[j].status = "completed"
    BY <1>5, NotCompleted DEF IInv, Flush, FlushFails
  <2>3. QED
    BY <1>1, <2>1, <2>2
<1>6. ASSUME NEW i \in Committed, Finalize(i, "failed"),
             UNCHANGED <<applied, posted, deliveries>>,
             NEW t \in Results, NEW a, a \notin Bodies,
             result' = [result EXCEPT ![t] = [at |-> "telling", of |-> i, answer |-> a]]
      PROVE  Effects'
  <2>1. EffectsOnce'
    BY <1>6 DEF IInv, EffectsOnce
  <2>2. CompletedMeansApplied'
    BY <1>6, Ending DEF IInv, CompletedMeansApplied, Committed
  <2>3. \A s \in Results : settled[result[s].of] = 1 => settled'[result[s].of] = 1 \/ result[s] = NoResult
    BY <1>6, Ending DEF IInv, Linked, Committed
  <2>4. ASSUME NEW s \in Results
        PROVE  Answering(result[s])'
    <3>1. CASE s = t
      BY <1>6, <2>4, <3>1 DEF IInv, DeliveryTypeOK, Answering
    <3>2. CASE s # t
      BY <1>6, <2>3, <2>4, <3>2 DEF IInv, DeliveryTypeOK, Answerings, Answering, NoResult
    <3>3. QED
      BY <3>1, <3>2
  <2>5. QED
    BY <1>6, <2>1, <2>2, <2>4 DEF Effects, Answerings
<1>7. ASSUME NEW t \in Results, NEW i \in Deliveries, NEW a \in Answers, Answer(t, i, a)
      PROVE  Effects'
  <2>1. i \in Committed /\ UNCHANGED <<applied, posted>>
    BY <1>7 DEF Answer, IInv, Linked
  <2>2. CASE a = "malformed" \/ dissolved
    BY <1>1, <1>7, <2>1, <2>2, NotCompleted DEF Answer, IInv
  <2>3. CASE a = "invalid" /\ ~dissolved
    <3>1. a \notin Bodies
      BY <2>3, BodiesAssumption DEF Refused
    <3>2. QED
      BY <1>6, <1>7, <2>1, <2>3, <3>1 DEF Answer
  <2>4. CASE a \notin {"malformed", "invalid"} /\ ~dissolved
    <3>1. /\ UNCHANGED <<interactions, settled, deliveries>>
          /\ result' = [result EXCEPT ![t] = [at |-> "applying", of |-> i, answer |-> a]]
      BY <1>7, <2>4 DEF Answer
    <3>2. \A s \in Results : result'[s] = result[s] \/ result'[s].at = "applying"
      BY <3>1 DEF IInv, DeliveryTypeOK
    <3>3. Answerings'
      BY <2>1, <3>1, <3>2 DEF IInv, Answerings, Answering
    <3>4. QED
      BY <2>1, <3>1, <3>3 DEF IInv, Effects, EffectsOnce, CompletedMeansApplied
  <2>5. QED
    BY <1>7, <2>2, <2>3, <2>4
<1>8. ASSUME NEW t \in Results, result[t] # NoResult
      PROVE  /\ result[t] \in [at : {"applying", "ending", "telling"}, of : Deliveries, answer : Answers]
             /\ result[t].of \in Committed /\ result[t].of \in Deliveries
  BY <1>8 DEF IInv, DeliveryTypeOK, ResultHandlers, Linked
<1>9. ASSUME NEW t \in Results, Apply(t)
      PROVE  Effects'
  <2> DEFINE i == result[t].of
             b == result[t].answer
  <2>0. /\ result[t] \in [at : {"applying", "ending", "telling"}, of : Deliveries, answer : Answers]
        /\ i \in Committed /\ i \in Deliveries
    BY <1>8, <1>9 DEF Apply, NoResult
  <2>1. CASE b = "unavailable" /\ Finalize(i, "failed")
               /\ result' = [result EXCEPT ![t].at = "telling"]
               /\ UNCHANGED <<applied, posted, deliveries>>
    <3>1. b \notin Bodies
      BY <2>1, BodiesAssumption DEF Refused
    <3>2. [result[t] EXCEPT !.at = "telling"] = [at |-> "telling", of |-> i, answer |-> b]
      BY <2>0
    <3>3. result' = [result EXCEPT ![t] = [at |-> "telling", of |-> i, answer |-> b]]
      BY <2>1, <3>2
    <3>4. QED
      BY <1>6, <2>0, <2>1, <3>1, <3>3
  <2>2. CASE /\ b \in Bodies /\ applied[i] \in {NoBody, b}
             /\ applied' = [applied EXCEPT ![i] = b] /\ Posted(i, b)
             /\ result' = [result EXCEPT ![t].at = "ending"]
             /\ UNCHANGED <<interactions, settled, deliveries>>
    <3>1. b # NoBody
      BY <2>2, BodiesAssumption
    <3>2. \A j \in Deliveries \ {i} : applied'[j] = applied[j] /\ posted'[j] = posted[j]
      BY <2>0, <2>2 DEF Posted, IInv, DeliveryTypeOK
    <3>3. applied'[i] = b
      BY <2>0, <2>2 DEF IInv, DeliveryTypeOK
    <3>4. posted'[i] = 1
      <4>1. posted[i] = IF applied[i] = NoBody THEN 0 ELSE 1
        BY <2>0 DEF IInv, EffectsOnce
      <4>2. QED
        BY <2>0, <2>2, <4>1 DEF Posted, AppliesFresh, IInv, DeliveryTypeOK
    <3>5. EffectsOnce'
      BY <3>1, <3>2, <3>3, <3>4 DEF IInv, EffectsOnce
    <3>6. \A j \in Deliveries : applied[j] # NoBody => applied'[j] # NoBody
      BY <3>1, <3>2, <3>3
    <3>7. CompletedMeansApplied'
      BY <2>2, <3>6 DEF IInv, CompletedMeansApplied
    <3>8. \A s \in Results \ {t} : result'[s] = result[s]
      BY <2>2 DEF IInv, DeliveryTypeOK
    <3>9. result'[t] = [at |-> "ending", of |-> i, answer |-> b]
      BY <2>0, <2>2 DEF IInv, DeliveryTypeOK
    <3>10. ASSUME NEW s \in Results
           PROVE  Answering(result[s])'
      <4>1. CASE s = t
        BY <2>2, <3>1, <3>3, <3>9, <4>1 DEF Answering
      <4>2. CASE s # t /\ result[s] = NoResult
        BY <3>8, <4>2 DEF Answering, NoResult
      <4>3. CASE s # t /\ result[s] # NoResult
        BY <1>8, <2>2, <3>6, <3>8, <4>3 DEF IInv, Answerings, Answering
      <4>4. QED
        BY <4>1, <4>2, <4>3
    <3>11. QED
      BY <3>5, <3>7, <3>10 DEF Effects, Answerings
  <2>3. CASE Fails(i) /\ result' = [result EXCEPT ![t] = NoResult]
               /\ UNCHANGED <<applied, posted, interactions, settled>>
    <3>1. \A s \in Results : result'[s] \in {result[s], NoResult}
      BY <2>3 DEF IInv, DeliveryTypeOK
    <3>2. Answerings'
      BY <2>3, <3>1 DEF IInv, Answerings, Answering, NoResult
    <3>3. QED
      BY <2>0, <2>3, <3>2, NotCompleted DEF IInv, Effects, EffectsOnce, CompletedMeansApplied
  <2>4. QED
    BY <1>9, <2>1, <2>2, <2>3 DEF Apply
<1>10. ASSUME NEW t \in Results, Complete(t)
       PROVE  Effects'
  <2> DEFINE i == result[t].of
  <2>1. /\ result[t] \in [at : {"applying", "ending", "telling"}, of : Deliveries, answer : Answers]
        /\ i \in Committed /\ i \in Deliveries
    BY <1>8, <1>10 DEF Complete, NoResult
  <2>2. applied[i] # NoBody
    BY <1>10 DEF Complete, IInv, Answerings, Answering
  <2>3. UNCHANGED <<applied, posted, deliveries>> /\ Finalize(i, "completed")
    BY <1>10 DEF Complete
  <2>4. /\ settled'[i] = 1
        /\ interactions'[i].status \in {"completed", "failed"}
        /\ \A j \in Deliveries \ {i} : settled'[j] = settled[j] /\ interactions'[j] = interactions[j]
    BY <2>1, <2>3, Ending DEF IInv
  <2>5. CompletedMeansApplied'
    BY <2>1, <2>2, <2>3, <2>4 DEF IInv, CompletedMeansApplied
  <2>6. /\ \A s \in Results \ {t} : result'[s] = result[s]
        /\ result'[t] = [result[t] EXCEPT !.at = "telling"]
    BY <1>10 DEF Complete, IInv, DeliveryTypeOK
  <2>7. \A j \in Deliveries : settled[j] = 1 => settled'[j] = 1
    BY <2>4
  <2>8. ASSUME NEW s \in Results
        PROVE  Answering(result[s])'
    <3>1. CASE s = t
      BY <2>1, <2>2, <2>3, <2>4, <2>6, <3>1 DEF Answering
    <3>2. CASE s # t /\ result[s] = NoResult
      BY <2>6, <3>2 DEF Answering, NoResult
    <3>3. CASE s # t /\ result[s] # NoResult
      BY <1>8, <2>3, <2>6, <2>7, <3>3 DEF IInv, Answerings, Answering
    <3>4. QED
      BY <3>1, <3>2, <3>3
  <2>9. QED
    BY <2>3, <2>5, <2>8 DEF IInv, Effects, EffectsOnce, Answerings
<1>11. ASSUME NEW t \in Results, Tell(t) \/ ResultLost(t)
       PROVE  Effects'
  <2> DEFINE i == result[t].of
  <2>1. i \in Deliveries
    BY <1>8, <1>11 DEF Tell, ResultLost, NoResult
  <2>2. /\ UNCHANGED <<interactions, applied, posted, settled>>
        /\ result' = [result EXCEPT ![t] = NoResult]
    BY <1>11 DEF Tell, ResultLost
  <2>3. \A s \in Results : result'[s] \in {result[s], NoResult}
    BY <2>2 DEF IInv, DeliveryTypeOK
  <2>4. Answerings'
    BY <2>2, <2>3 DEF IInv, Answerings, Answering, NoResult
  <2>5. \A j \in Deliveries : deliveries'[j].status = "completed" =>
          deliveries[j].status = "completed" \/ (applied[j] # NoBody /\ settled[j] = 1)
    <3>1. CASE Fails(i) \/ UNCHANGED deliveries
      BY <2>1, <3>1, NotCompleted DEF IInv
    <3>2. CASE Tell(t) /\ result[t].answer \in Bodies
      <4>1. applied[i] # NoBody /\ settled[i] = 1
        BY <3>2 DEF Tell, IInv, Answerings, Answering
      <4>2. \A j \in Deliveries \ {i} : deliveries'[j] = deliveries[j]
        BY <3>2 DEF Tell, IInv, DeliveryTypeOK
      <4>3. QED
        BY <4>1, <4>2
    <3>3. QED
      BY <1>11, <3>1, <3>2 DEF Tell, ResultLost
  <2>6. QED
    BY <2>2, <2>4, <2>5 DEF IInv, Effects, EffectsOnce, CompletedMeansApplied
<1>12. QED
  BY <1>2, <1>3, <1>4, <1>5, <1>7, <1>9, <1>10, <1>11 DEF DNext
-----------------------------------------------------------------------------
(* The invariant is inductive. *)
LEMMA InvSteps ==
  ASSUME IInv, [DNext]_dvars
  PROVE  IInv'
<1>1. CASE DNext
  <2>1. DeliveryTypeOK'
    BY <1>1, TypeSteps DEF IInv
  <2>2. Numbered' /\ Linked' /\ Owned' /\ PolicyHolds' /\ Effects'
    BY <1>1, NumberedSteps, LinkedSteps, OwnedSteps, PoliciesSteps, EffectsSteps
  <2>3. QED
    BY <2>1, <2>2 DEF IInv, Effects
<1>2. CASE UNCHANGED dvars
  <2> USE <1>2 DEF dvars, channel, ending, gateway
  <2>1. Committed' = Committed /\ \A c \in Components : Active(c)' = Active(c)
    BY DEF Committed, Active
  <2>2. DeliveryTypeOK'
    BY DEF IInv, DeliveryTypeOK, GTypeOK
  <2>3. Numbered' /\ Linked' /\ Owned'
    <3>1. Numbered'
      BY <2>1 DEF IInv, Numbered
    <3>2. Linked'
      BY <2>1 DEF IInv, Linked
    <3>3. Owned'
      BY <2>1 DEF IInv, Owned
    <3>4. QED
      BY <3>1, <3>2, <3>3
  <2>4. PolicyHolds'
    BY <2>1 DEF IInv, PolicyHolds
  <2>5. Effects'
    <3>1. EffectsOnce' /\ CompletedMeansApplied'
      BY DEF IInv, EffectsOnce, CompletedMeansApplied
    <3>2. Answerings'
      BY DEF IInv, Answerings, Answering
    <3>3. QED
      BY <3>1, <3>2 DEF Effects
  <2>6. QED
    BY <2>2, <2>3, <2>4, <2>5 DEF IInv, Effects
<1>3. QED
  BY <1>1, <1>2

LEMMA InvHolds == DSpec => []IInv
<1>1. DInit => IInv
  BY InitInv
<1>2. IInv /\ [DNext]_dvars => IInv'
  BY InvSteps
<1>3. QED
  BY <1>1, <1>2, PTL DEF DSpec

(* The tables of the channel and of the BotConnection hold values of their    *)
(* types, an interaction ends at most once, and every committed one belongs   *)
(* to exactly one operation of one user, whichever handlers of that operation *)
(* were waiting for the bot's connection when it was committed.               *)
THEOREM DeliveryInvHolds == DSpec => []DeliveryInv
<1>1. IInv => DeliveryInv
  <2> SUFFICES ASSUME IInv PROVE OncePerOperation
    BY DEF IInv, DeliveryInv
  <2> SUFFICES ASSUME NEW i \in Committed
               PROVE  Cardinality({o \in Users \X Keys : acks[o] = i}) = 1
    BY DEF OncePerOperation
  <2>1. PICK o \in Users \X Keys : \A p \in Users \X Keys : acks[p] = i <=> p = o
    BY DEF IInv, Owned
  <2>2. {p \in Users \X Keys : acks[p] = i} = {o}
    BY <2>1
  <2>3. QED
    BY <2>2, FS_Singleton
<1>2. QED
  BY <1>1, InvHolds, PTL

(* The interaction policies of a message's components, whatever number of     *)
(* users submits at a time and however the bot redraws its components while   *)
(* they wait: an exclusive interaction joins no standing one of its           *)
(* component, a per_user_once one none of its user.  The transaction's own    *)
(* gate holds them, with the policy that was read before the wait.            *)
THEOREM PoliciesHold == DSpec => []PolicyHolds
<1>1. IInv => PolicyHolds
  BY DEF IInv
<1>2. QED
  BY <1>1, InvHolds, PTL

(* The bot's effects on an interaction are applied at most once, however      *)
(* often a delivery is sent and answered, by however many handlers at a time. *)
THEOREM EffectsApplyOnce == DSpec => []EffectsOnce
<1>1. IInv => EffectsOnce
  BY DEF IInv
<1>2. QED
  BY <1>1, InvHolds, PTL

(* Neither an interaction nor its delivery is called completed before the     *)
(* effects are applied, and an end is counted exactly once.                   *)
THEOREM CompletedIsApplied == DSpec => []CompletedMeansApplied
<1>1. IInv => CompletedMeansApplied
  BY DEF IInv
<1>2. QED
  BY <1>1, InvHolds, PTL

=============================================================================
