--------------------------- MODULE MCStatefulSessions ---------------------------
(* StatefulSessions on small instances. *)
EXTENDS StatefulSessions, TLC

CONSTANTS h1, h2

OneHandler == {h1}
TwoHandlers == {h1, h2}

Inputless == \A s \in Sessions : session[s].next = 1
Effectless == /\ \A t \in Handlers : handler[t] = Idle
              /\ \A s \in Sessions, e \in Effects : posted[s][e] = 0

OneSession == session[2].status = "none"

\* Bound: of a failed call with one input, two inputs, effects, and a second
\* session over one socket, one per behaviour.
OneThing ==
  \/ OneSession /\ Effectless /\ (faults = 0 \/ session[1].next <= 2)
  \/ OneSession /\ Inputless /\ faults = 0
  \/ Inputless /\ Effectless /\ faults = 0 /\ socket[2] = "none"

=============================================================================
