----------------------------- MODULE MCBotDelivery -----------------------------
(* BotDelivery on small instances. *)
EXTENDS BotDelivery, TLC

CONSTANTS ada, bea, k1, k2, t1, t2, r1, r2

MCUsers == {ada, bea}
MCComponents == {"lock", "vote"}
As(policy) == [policy |-> policy, disabled |-> FALSE]
First == [lock |-> As("exclusive"), vote |-> As("per_user_once")]
Relaxed == [lock |-> As("per_user_once")]
MCLayouts == {First, Relaxed}
MCKeys == {k1, k2}
MCBodies == {"one", "other"}
MCSubmits == {t1, t2}
MCResults == {r1, r2}

\* Bound: the bot redraws the message in two ways, and disables the lock alone.
LockUsed == Disabling(First, {"lock"})
Drawings == {First, Relaxed, LockUsed, Disabling(Relaxed, {"lock"})}

\* Bound: the users submit, until nothing can be committed any more, and
\* nothing is delivered yet.
Submitting == /\ \A i \in Deliveries : outbox[i] \in {"none", "pending"}
              /\ faults = 0
              /\ \A t \in Submits : submit[t].user = bea => submit[t].key = k1
              /\ components \in Drawings
              /\ dissolved => components \in {First, LockUsed}
              /\ Cardinality(Committed) = MaxDeliveries => \A t \in Submits : submit[t] = NoSubmit

\* Bound: one interaction, of Ada with the lock, is delivered and answered,
\* and the message is redrawn by its answer.
Answering == /\ \A t \in Submits : submit[t] = NoSubmit
             /\ Cardinality(Committed) <= 1
             /\ Committed # {} => /\ interactions[1].component = "lock"
                                  /\ under[1] = "exclusive"
                                  /\ acks[<<ada, k1>>] = 1
             /\ components = LockUsed \/ (components = Relaxed /\ applied[1] # NoBody)

\* Bound: the bot comes back over a second socket as long as one delivery is
\* answered and no call fails.
OneThing == \/ socket[2] = "none" /\ (Submitting \/ Answering)
            \/ faults = 0 /\ Answering

=============================================================================
