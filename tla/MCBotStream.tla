------------------------------ MODULE MCBotStream -----------------------------
(* BotStream on a small instance: a bot that reconnects once. *)
EXTENDS BotStream

CONSTANTS w1, w2, h1

TwoSockets == {w1, w2}
OneHandler == {h1}

\* w1 is the first socket the bot opens.
InOrder == conn[w2] # "new" => conn[w1] # "new"

TwoDeltas == \E w \in Sockets : attachment[w].received = 2

\* Bound: a stream has a second delta as long as the bot does not reconnect, or
\* as long as nothing has failed and the stream has not expired.
OneThing == /\ InOrder
            /\ TwoDeltas => conn[w2] = "new" \/ (faults = 0 /\ ~expired)

=============================================================================
