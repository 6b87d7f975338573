----------------------------- MODULE MCLiveFanout -----------------------------
(* LiveFanout on small instances: one listener, bea. *)
EXTENDS LiveFanout, TLC

CONSTANTS bea, s1, s2, t1, t2

BeaOnly == {bea}
TwoSessions == {s1, s2}
TwoTasks == {t1, t2}
ToBea == [s \in Sessions |-> bea]

VARIABLE case   \* which of the two behaviours below this one is

\* A leaseUpsert returns without a lease.
Lost == \E t \in Tasks : /\ task[t].at = "upserting" /\ task'[t] # task[t]
                         /\ ~UpsertFails(t)
                         /\ \A f \in fanout' : f.id # task[t].id

\* Bound: while the channel changes, one session comes and goes, one handler
\* runs at a time and no reply is lost; a channel that changed with the same
\* members stays as it is.
Changing == /\ case = "changing"
            /\ session'[s2] = "none" /\ task'[t2] = Idle
            /\ queue' = {}
            /\ ~Lost
            /\ (\E v \in 1 .. version : was[v] = was[v - 1]) => version' = version

\* Bound: while two sessions and two handlers meet, the channel stands still,
\* and sends nothing.
Meeting == /\ case = "meeting"
           /\ version' <= 1 /\ last_id' <= 1
           /\ calls' = {}

MCInit == LInit /\ case \in {"changing", "meeting"}

MCNext == LNext /\ (Changing \/ Meeting) /\ UNCHANGED case

MCSpec == MCInit /\ [][MCNext]_<<lvars, case>>

=============================================================================
