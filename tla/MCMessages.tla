------------------------------- MODULE MCMessages -------------------------------
(* One channel's tables, Membership and Messages together, on small instances. *)
EXTENDS Messages, TLC

CONSTANTS ada, bea, k1, k2, t1, t2

MCUsers == {ada, bea}
OneKey == {k1}
TwoKeys == {k1, k2}
MCTasks == {t1, t2}
BeaReads == {bea}
Unlimited == {NoLimit}
MCLimits == {NoLimit, 0, 1}
MCBothKinds == {"channel", "dm"}
MCChannelOnly == {"channel"}
NoTargets == {}

Leaving == {"remove"}

Only(operations) == \A r \in idempotency_keys : r[2] \in operations

\* Bound: ada creates the channel.  Before the first message the clients ask
\* for three things, four of those about invites.  Messages are sent in her
\* private channel, under one key, and at most one member is removed meanwhile.
Silent == event_seq = 0 /\ \A t \in Tasks : task[t] = Idle

AdasRoom == visibility = "private" /\ kind # "dm" /\ created_by \in {NoUser, ada}

OneThing ==
  \/ /\ Silent
     /\ created_by # bea
     /\ Cardinality(idempotency_keys) = 4 => Only({"invite", "accept", "remove"})
  \/ /\ ~Silent
     /\ AdasRoom
     /\ membership_version <= 3
     /\ Cardinality(idempotency_keys) <= 1
     /\ Only(Leaving) /\ \A r \in idempotency_keys : r[3] = k1
     /\ \A t \in Tasks : task[t].req.key # k2

Removal == /\ \E a, u \in Users : RemoveMember(a, u, k1)
           /\ Remember
           /\ UNCHANGED <<chat, task, client>>

\* MNext as far as it stays within the bound.
MCNext == /\ \/ Silent /\ MembershipStep
             \/ ~Silent /\ Removal
             \/ /\ AdasRoom
                /\ \E t \in Tasks : SendStep(t) \/ MutationStep(t) \/ ReplayStep(t) \/ Drop(t)
          /\ OneThing'

MCSpec == MInit /\ [][MCNext]_mvars

MCSymmetry == Permutations(MCTasks)

=============================================================================
