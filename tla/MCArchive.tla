------------------------------- MODULE MCArchive -------------------------------
(***************************************************************************)
(* Archive for TLC: two records of one source and one of another.          *)
(***************************************************************************)
EXTENDS Archive

CONSTANTS channel, user, plain, scoped, image, c1, c2

MCSources == {channel, user}
MCPlain == {plain}
MCScoped == {scoped}
MCShared == {image}
MCConsumers == {c1, c2}

\* The bound on what comes together: a second source, a failed send, a
\* fault and a second consumer are met one at a time, over two records of
\* the channel.
Met(condition) == IF condition THEN 1 ELSE 0

Writes(s, k) == \E n \in 1 .. Len(log[s]) : k \in log[s][n].rows

OneThing == /\ Len(log[user]) <= 1 /\ \A n \in 1 .. Len(log[user]) : log[user][n].op = "upsert"
            /\ Met(Len(log[channel]) = 2 /\ (Len(log[user]) = 1 \/ Writes(channel, image)))
                 + Cardinality(faults)
                 + Met(\E s \in Sources, n \in Numbers : outbox[s][n].attempts > 0)
                 + Met(consumer[c2] # Idle) <= 1
=============================================================================
