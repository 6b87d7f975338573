------------------------------- MODULE BotDelivery -------------------------------
(***************************************************************************)
(* Interactions with a bot's message, from the user's click to the bot's   *)
(* answer.  A submit is checked, waits for the bot's connection and a      *)
(* name, and is checked again in the transaction that commits it with a    *)
(* row of the channel's outbox.  The outbox hands the row to the bot's     *)
(* BotConnection once; from there a delivery is sent, and sent again until *)
(* the bot has answered it or three attempts have found no connection.  An *)
(* answer goes back to the channel, which applies its effects in one       *)
(* transaction, ends the interaction in the next, and answers.             *)
(*                                                                         *)
(* The delivery of an interaction has the number of the interaction.  The  *)
(* client effect id of its effects is the bot's choice: here a bot names   *)
(* the effects of one interaction alike in every answer, as one that wants *)
(* them applied once must.  Answers differ in the effects' body, in where  *)
(* they are refused, and in what they make of the components.  One message *)
(* of the bot, which its effects may redraw with other components, other   *)
(* policies, or components disabled; a component whose custom id changes   *)
(* is another component.  Values, options and targets are left out.        *)
(***************************************************************************)
EXTENDS BotGateway, FiniteSets

CONSTANTS
  Users,
  Components,       \* components the message may have
  Layouts,          \* what the bot may draw: component -> [policy, disabled]
  Keys,             \* operation ids
  Bodies,           \* bodies of a bot's effects
  MaxDeliveries,    \* bound: interactions committed
  SendAttempts,     \* MAX_BOT_DELIVERY_ATTEMPTS
  MaxFaults,        \* bound: calls between the objects that fail
  Submits, Results  \* slots for handlers under way

Policies == {"multi", "per_user_once", "exclusive"}

\* Lists of components, each with its interaction_policy.
Lists == UNION {[D -> [policy : Policies, disabled : BOOLEAN]] : D \in SUBSET Components}

ASSUME DeliveryAssumption ==
  /\ Layouts \subseteq Lists
  /\ MaxDeliveries \in Nat /\ SendAttempts \in Nat \ {0} /\ MaxFaults \in Nat

VARIABLES
  dissolved,     \* the channel is dissolved
  components,    \* the message's components_json: component -> [policy, disabled]
  interactions,  \* interaction -> row of interactions
  under,         \* history: interaction -> policy it was admitted under
  acks,          \* completed idempotency rows: user and key -> interaction
  outbox,        \* interaction -> row of bot_delivery_outbox
  submit,        \* slot -> submitInteraction handler
  applied,       \* interaction -> body in bot_effects_applied
  posted,        \* history: interaction -> times its effects were applied
  settled,       \* history: interaction -> events that end it
  deliveries,    \* BotConnection: interaction -> row of bot_deliveries
  result,        \* slot -> handler of a delivery_result
  inbox,         \* the bot: deliveries received
  faults         \* failed calls so far

channel == <<dissolved, components, interactions, under, acks, outbox, submit>>
ending == <<applied, posted, settled>>
dvars == <<gateway, channel, ending, deliveries, result, inbox, faults>>

Deliveries == 1 .. MaxDeliveries
NoBody == "none"

NoInteraction == [status |-> "none", user |-> "none", component |-> "none"]
NoSubmit == [at |-> "idle", user |-> "none", component |-> "none", key |-> "none", policy |-> "none"]
NoResult == [at |-> "idle", of |-> 0, answer |-> "none"]
NoDelivery == [status |-> "none", attempts |-> 0]

\* What a bot may answer: effects the gateway refuses, effects the channel
\* refuses before or in its transaction, or effects with a body.
Refused == {"malformed", "invalid", "unavailable"}
Answers == Refused \cup Bodies

ASSUME BodiesAssumption == Bodies \cap (Refused \cup {NoBody}) = {}

InteractionRows == {NoInteraction} \cup
  [status : {"pending", "completed", "failed"}, user : Users, component : Components]
DeliveryRows ==
  {d \in [status : {"none", "pending", "sent", "completed", "failed"}, attempts : 0 .. SendAttempts] :
     d.status \in {"pending", "sent"} => d.attempts < SendAttempts}
SubmitHandlers == {NoSubmit} \cup
  [at : {"asking", "committing"}, user : Users, component : Components, key : Keys,
   policy : Policies]
ResultHandlers == {NoResult} \cup
  [at : {"applying", "ending", "telling"}, of : Deliveries, answer : Answers]

DeliveryTypeOK ==
  /\ GTypeOK
  /\ dissolved \in BOOLEAN
  /\ components \in Lists
  /\ interactions \in [Deliveries -> InteractionRows]
  /\ under \in [Deliveries -> Policies \cup {"none"}]
  /\ acks \in [Users \X Keys -> 0 .. MaxDeliveries]
  /\ outbox \in [Deliveries -> {"none", "pending", "delivered", "dead_letter"}]
  /\ submit \in [Submits -> SubmitHandlers]
  /\ applied \in [Deliveries -> Bodies \cup {NoBody}]
  /\ posted \in [Deliveries -> Nat]
  /\ settled \in [Deliveries -> 0 .. 1]
  /\ deliveries \in [Deliveries -> DeliveryRows]
  /\ result \in [Results -> ResultHandlers]
  /\ inbox \subseteq Deliveries
  /\ faults \in 0 .. MaxFaults

DInit == /\ GInit
         /\ dissolved = FALSE
         /\ components \in Layouts
         /\ interactions = [i \in Deliveries |-> NoInteraction]
         /\ under = [i \in Deliveries |-> "none"]
         /\ acks = [u \in Users \X Keys |-> 0]
         /\ outbox = [i \in Deliveries |-> "none"]
         /\ submit = [t \in Submits |-> NoSubmit]
         /\ applied = [i \in Deliveries |-> NoBody]
         /\ posted = [i \in Deliveries |-> 0]
         /\ settled = [i \in Deliveries |-> 0]
         /\ deliveries = [i \in Deliveries |-> NoDelivery]
         /\ result = [t \in Results |-> NoResult]
         /\ inbox = {}
         /\ faults = 0

-----------------------------------------------------------------------------
(* interaction.submit                                                      *)

Committed == {i \in Deliveries : interactions[i].status # "none"}

\* Interactions that count for a policy: those that have not failed.
Active(c) == {i \in Committed : /\ interactions[i].component = c
                                /\ interactions[i].status \in {"pending", "completed"}}

ActiveOf(c, u) == {i \in Active(c) : interactions[i].user = u}

Offered(c) == c \in DOMAIN components /\ ~components[c].disabled

\* The policy is that of the component as it is now, for the transaction too.
Submit(t, u, c, k) ==
  /\ submit[t] = NoSubmit
  /\ acks[<<u, k>>] = 0
  /\ ~dissolved
  /\ Offered(c)
  /\ submit' = [submit EXCEPT ![t] =
       [at |-> "asking", user |-> u, component |-> c, key |-> k, policy |-> components[c].policy]]
  /\ UNCHANGED <<gateway, dissolved, components, interactions, under, acks, outbox, ending,
                 deliveries, result, inbox, faults>>

\* The BotConnection says whether it has a connection; then the name is
\* resolved, and the answer ages.
Asked(t) ==
  /\ submit[t].at = "asking"
  /\ submit' = [submit EXCEPT ![t] =
       IF Connected THEN [@ EXCEPT !.at = "committing"] ELSE NoSubmit]
  /\ UNCHANGED <<gateway, dissolved, components, interactions, under, acks, outbox, ending,
                 deliveries, result, inbox, faults>>

\* Mutant: only what the bot has answered counts.
GateAnswered(h) ==
  CASE h.policy = "per_user_once" ->
         \A i \in ActiveOf(h.component, h.user) : interactions[i].status # "completed"
    [] h.policy = "exclusive" ->
         \A i \in Active(h.component) : interactions[i].status # "completed"
    [] OTHER -> TRUE

\* The policy's gate, in the transaction.
Gate(h) ==
  CASE h.policy = "per_user_once" -> ActiveOf(h.component, h.user) = {}
    [] h.policy = "exclusive" -> Active(h.component) = {}
    [] OTHER -> TRUE

\* The transaction looks at everything again but the message's status and the
\* user's membership.
Commits(h) == /\ acks[<<h.user, h.key>>] = 0
              /\ ~dissolved
              /\ Offered(h.component)
              /\ Gate(h)

\* disableComponentsInJson
Disabling(list, D) ==
  [c \in DOMAIN list |-> [list[c] EXCEPT !.disabled = @ \/ c \in D]]

\* An exclusive component is disabled with its interaction, until it is redrawn.
Locked(h) == IF h.policy = "exclusive" THEN Disabling(components, {h.component}) ELSE components

Commit(t) ==
  LET h == submit[t]
      i == Cardinality(Committed) + 1
  IN /\ h.at = "committing"
     /\ i \in Deliveries   \* bound
     /\ submit' = [submit EXCEPT ![t] = NoSubmit]
     /\ IF Commits(h)
        THEN /\ interactions' = [interactions EXCEPT ![i] =
                  [status |-> "pending", user |-> h.user, component |-> h.component]]
             /\ under' = [under EXCEPT ![i] = h.policy]
             /\ acks' = [acks EXCEPT ![<<h.user, h.key>>] = i]
             /\ components' = Locked(h)
             /\ outbox' = [outbox EXCEPT ![i] = "pending"]
        ELSE UNCHANGED <<interactions, under, acks, components, outbox>>
     /\ UNCHANGED <<gateway, dissolved, ending, deliveries, result, inbox, faults>>

\* A handler ends at one of its waits.
SubmitLost(t) ==
  /\ submit[t] # NoSubmit
  /\ submit' = [submit EXCEPT ![t] = NoSubmit]
  /\ UNCHANGED <<gateway, dissolved, components, interactions, under, acks, outbox, ending,
                 deliveries, result, inbox, faults>>

Dissolve == /\ ~dissolved
            /\ dissolved' = TRUE
            /\ UNCHANGED <<gateway, components, interactions, under, acks, outbox, submit, ending,
                           deliveries, result, inbox, faults>>

-----------------------------------------------------------------------------
(* From the channel to the bot                                             *)

\* A frame goes down the current socket.
Sends(i) == inbox' = IF Reaches THEN inbox \cup {i} ELSE inbox

\* enqueueDelivery: the row is inserted once, and sent at once if it can be.
Enqueued(i) == IF deliveries[i] # NoDelivery THEN deliveries[i]
               ELSE [status |-> IF Connected THEN "sent" ELSE "pending", attempts |-> 0]

EnqueueDelivery(i) ==
  /\ deliveries' = [deliveries EXCEPT ![i] = Enqueued(i)]
  /\ IF deliveries[i] = NoDelivery /\ Connected THEN Sends(i) ELSE UNCHANGED inbox

\* The channel's alarm hands over the row.
Flush(i) ==
  /\ outbox[i] = "pending"
  /\ EnqueueDelivery(i)
  /\ outbox' = [outbox EXCEPT ![i] = "delivered"]
  /\ UNCHANGED <<gateway, dissolved, components, interactions, under, acks, submit, ending,
                 result, faults>>

\* The call fails before or after it was carried out; five times, or an error
\* that is not worth repeating, and the row is given up.
FlushFails(i) ==
  /\ outbox[i] = "pending"
  /\ faults < MaxFaults
  /\ faults' = faults + 1
  /\ EnqueueDelivery(i) \/ UNCHANGED <<deliveries, inbox>>
  /\ outbox' = [outbox EXCEPT ![i] = "dead_letter"] \/ UNCHANGED outbox
  /\ UNCHANGED <<gateway, dissolved, components, interactions, under, acks, submit, ending, result>>

\* Mutant: an attempt without a connection is not counted.
Postponed(i) == [deliveries[i] EXCEPT !.status = "pending"]

\* bumpDeliveryRetry: no connection; the last attempt ends the delivery.
Bumped(i) ==
  LET n == deliveries[i].attempts + 1
  IN [status |-> IF n >= SendAttempts THEN "failed" ELSE "pending", attempts |-> n]

\* The BotConnection's alarm, or a hello, sends what is pending or sent; being
\* sent does not count as an attempt.
Redeliver(i) ==
  /\ deliveries[i].status \in {"pending", "sent"}
  /\ IF Connected
     THEN Sends(i) /\ deliveries' = [deliveries EXCEPT ![i].status = "sent"]
     ELSE deliveries' = [deliveries EXCEPT ![i] = Bumped(i)] /\ UNCHANGED inbox
  /\ UNCHANGED <<gateway, channel, ending, result, faults>>

-----------------------------------------------------------------------------
(* From the bot to the channel                                             *)

\* A delivery that was not answered ends as failed, whatever it was refused for.
Fails(i) == deliveries' = IF deliveries[i].status \in {"pending", "sent"}
                          THEN [deliveries EXCEPT ![i].status = "failed"] ELSE deliveries

\* Mutant: an answer that was refused ends the interaction again.
EndsAgain(i, how) == TRUE

\* finalizeInteractionDelivery leaves an interaction alone that has ended.
Ends(i, how) == interactions[i].status = "pending"

Finalize(i, how) ==
  IF Ends(i, how)
  THEN /\ interactions' = [interactions EXCEPT ![i].status = how]
       /\ settled' = [settled EXCEPT ![i] = @ + 1]
  ELSE UNCHANGED <<interactions, settled>>

\* handleDeliveryResult: a completed delivery is acknowledged from its row, a
\* malformed answer ends it, and any other one goes to the channel, also that
\* of a delivery that has failed.  A dissolved channel throws; effects that
\* make no sense end the interaction at once.
Answer(t, i, a) ==
  /\ result[t] = NoResult
  /\ Speaks /\ i \in inbox
  /\ deliveries[i].status # "completed"
  /\ \/ /\ a = "malformed" \/ dissolved
        /\ Fails(i)
        /\ UNCHANGED <<interactions, settled, result>>
     \/ /\ a = "invalid" /\ ~dissolved
        /\ Finalize(i, "failed")
        /\ result' = [result EXCEPT ![t] = [at |-> "telling", of |-> i, answer |-> a]]
        /\ UNCHANGED deliveries
     \/ /\ a \notin {"malformed", "invalid"} /\ ~dissolved
        /\ result' = [result EXCEPT ![t] = [at |-> "applying", of |-> i, answer |-> a]]
        /\ UNCHANGED <<deliveries, interactions, settled>>
  /\ UNCHANGED <<gateway, dissolved, components, under, acks, outbox, submit, applied, posted,
                 inbox, faults>>

\* Mutant: whether the effects were applied is not asked again.
AppliesAnew(i, b) == TRUE

\* Stored effects are answered from their row; with another body, refused.
AppliesFresh(i, b) == applied[i] = NoBody

\* Messages are sent, changed or their components disabled, each with its event.
Posted(i, b) == posted' = IF AppliesFresh(i, b) THEN [posted EXCEPT ![i] = @ + 1] ELSE posted

\* What a list of effects can make of the message's components: an update_message
\* with components replaces the list, disable_components disables some of it.
Redrawn == UNION {{Disabling(list, D) : D \in SUBSET DOMAIN list} : list \in Layouts \cup {components}}

\* The bot's summary has come.  One transaction applies every effect or none.
\* A conflict ends the handler with an error and leaves the interaction open.
Apply(t) ==
  LET h == result[t]
      i == h.of
      goes(at) == result' = [result EXCEPT ![t].at = at]
  IN /\ h.at = "applying"
     /\ \/ /\ h.answer = "unavailable"
           /\ Finalize(i, "failed")
           /\ goes("telling")
           /\ UNCHANGED <<applied, posted, components, deliveries>>
        \/ /\ h.answer \in Bodies
           /\ applied[i] \in {NoBody, h.answer}
           /\ applied' = [applied EXCEPT ![i] = h.answer]
           /\ Posted(i, h.answer)
           /\ IF AppliesFresh(i, h.answer) THEN components' \in Redrawn ELSE UNCHANGED components
           /\ goes("ending")
           /\ UNCHANGED <<interactions, settled, deliveries>>
        \/ /\ h.answer \in Bodies
           /\ applied[i] \notin {NoBody, h.answer}
           /\ Fails(i)
           /\ result' = [result EXCEPT ![t] = NoResult]
           /\ UNCHANGED <<applied, posted, components, interactions, settled>>
     /\ UNCHANGED <<gateway, dissolved, under, acks, outbox, submit, inbox, faults>>

\* The effects of the bot's other answers and of its sessions change the message too.
Redraw == /\ components' \in Redrawn
          /\ UNCHANGED <<gateway, dissolved, interactions, under, acks, outbox, submit, ending,
                         deliveries, result, inbox, faults>>

\* The interaction is completed in a transaction of its own.
Complete(t) ==
  /\ result[t].at = "ending"
  /\ Finalize(result[t].of, "completed")
  /\ result' = [result EXCEPT ![t].at = "telling"]
  /\ UNCHANGED <<gateway, dissolved, components, under, acks, outbox, submit, applied, posted,
                 deliveries, inbox, faults>>

\* The answer is back at the BotConnection, which ends the delivery.
Tell(t) ==
  LET h == result[t]
  IN /\ h.at = "telling"
     /\ IF h.answer \in Bodies
        THEN deliveries' = [deliveries EXCEPT ![h.of].status = "completed"]
        ELSE Fails(h.of)
     /\ result' = [result EXCEPT ![t] = NoResult]
     /\ UNCHANGED <<gateway, channel, ending, inbox, faults>>

\* The call to the channel fails on its way there or back, or the channel ends
\* in the middle of it: the BotConnection fails the delivery, unless it ended
\* too.
ResultLost(t) ==
  /\ result[t] # NoResult
  /\ faults < MaxFaults
  /\ faults' = faults + 1
  /\ Fails(result[t].of) \/ UNCHANGED deliveries
  /\ result' = [result EXCEPT ![t] = NoResult]
  /\ UNCHANGED <<gateway, channel, ending, inbox>>

-----------------------------------------------------------------------------
Connection == /\ Comes \/ Lapse \/ \E k \in Sockets : Greeted(k)
              /\ UNCHANGED <<channel, ending, deliveries, result, inbox, faults>>

DNext ==
  \/ Connection
  \/ Dissolve \/ Redraw
  \/ \E t \in Submits :
       \/ \E u \in Users, c \in Components, k \in Keys : Submit(t, u, c, k)
       \/ Asked(t) \/ Commit(t) \/ SubmitLost(t)
  \/ \E i \in Deliveries : Flush(i) \/ FlushFails(i) \/ Redeliver(i)
  \/ \E t \in Results :
       \/ \E i \in Deliveries, a \in Answers : Answer(t, i, a)
       \/ Apply(t) \/ Complete(t) \/ Tell(t) \/ ResultLost(t)

DSpec == DInit /\ [][DNext]_dvars

\* The lease of a connection whose bot is gone runs out.
LostLapses == Connected /\ ~Reaches /\ Lapse
              /\ UNCHANGED <<channel, ending, deliveries, result, inbox, faults>>

\* The alarms run, handlers go on, leases run out, and a bot that has a
\* delivery and a socket answers it.
DFairness ==
  /\ \A i \in Deliveries :
       /\ WF_dvars(Flush(i))
       /\ WF_dvars(Redeliver(i))
       /\ WF_dvars(\E t \in Results, a \in Answers : Answer(t, i, a))
  /\ \A t \in Results : WF_dvars(Apply(t)) /\ WF_dvars(Complete(t)) /\ WF_dvars(Tell(t))
  /\ WF_dvars(LostLapses)

DFairSpec == DSpec /\ DFairness

-----------------------------------------------------------------------------
\* Whoever submits while another submit waits for the bot's connection, and
\* however the bot redraws its message meanwhile: an interaction admitted as
\* exclusive joins no standing interaction of its component, and one admitted
\* as per_user_once none of its user.
PolicyHolds ==
  \A c \in Components : \A i, j \in Active(c) :
    i < j => /\ under[j] # "exclusive"
             /\ interactions[i].user = interactions[j].user => under[j] # "per_user_once"

\* Commands are committed once: two handlers of one operation share their
\* interaction, and no interaction is without its operation.
OncePerOperation ==
  \A i \in Committed : Cardinality({o \in Users \X Keys : acks[o] = i}) = 1

\* The tables of both objects hold values of their types, an interaction ends at
\* most once, and every one has its operation.
DeliveryInv == DeliveryTypeOK /\ OncePerOperation

\* The bot's effects on an interaction are applied once, however often the
\* delivery is sent, answered or answered by two handlers at a time.
EffectsOnce == \A i \in Deliveries : posted[i] = IF applied[i] = NoBody THEN 0 ELSE 1

\* An interaction that is completed had its effects applied; a delivery that is
\* completed ended its interaction; and everybody is told of the end once.
CompletedMeansApplied ==
  \A i \in Deliveries :
    /\ interactions[i].status = "completed" => applied[i] # NoBody
    /\ deliveries[i].status = "completed" => applied[i] # NoBody /\ settled[i] = 1
    /\ settled[i] = 1 <=> interactions[i].status \in {"completed", "failed"}

\* A committed interaction does not hang between the objects: its row is given
\* up or its delivery ends, with the bot there or not.
DeliveryEnds ==
  \A i \in Deliveries : interactions[i].status = "pending" ~>
    \/ outbox[i] = "dead_letter"
    \/ deliveries[i].status \in {"completed", "failed"}

\* The contract's offline policy: an interaction "committed, the bot gone before
\* its delivery, is marked failed after a short TTL".  The BotConnection gives
\* the delivery up and nobody tells the channel.
OfflineFails ==
  \A i \in Deliveries :
    deliveries[i].status = "failed" ~> interactions[i].status \in {"completed", "failed"}

=============================================================================
