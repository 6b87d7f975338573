-------------------------- MODULE MCProjectionOutbox --------------------------
(* ProjectionOutbox on small instances. *)
EXTENDS ProjectionOutbox, TLC

CONSTANTS ada, bea, k1, k2

MCUsers == {ada, bea}
MCKeys == {k1}
MCLimits == {NoLimit}
MCChannelOnly == {"channel"}

Showing == {"join", "remove", "update", "dissolve"}

BothTargets == {"user_directory", "channel_directory"}

\* Bound: ada creates the channel.  Failures and requests are three together,
\* two where the channel is updated; four, when the requests only join and
\* remove and the failures are retries.
AdaCreates == created_by \in {NoUser, ada}

Together == AllFailures + Cardinality(idempotency_keys)

Only(operations) == \A r \in idempotency_keys : r[2] \in operations

OneThing == /\ AdaCreates
            /\ \/ Together <= 2
               \/ Together = 3 /\ Only(Showing \ {"update"})
               \/ /\ Together = 4 /\ Only({"join", "remove"})
                  /\ AllFailures = failures["retry"]

=============================================================================
