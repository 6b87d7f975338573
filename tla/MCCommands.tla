------------------------------- MODULE MCCommands -------------------------------
(* Commands and CommandCatalog on small instances. *)
EXTENDS Commands, TLC

CONSTANTS ada, bea, hal, pat, go, do, k1, k2, s1, s2, t1, t2

MCUsers == {ada, bea}
MCBots == {hal, pat}
MCTokens == {go, do}
MCDefinitions == {"member", "admin"}
MCKeys == {k1}
MCSyncKeys == {k1, k2}
MCSyncs == {s1, s2}
OneSync == {s1}
MCSlots == {t1, t2}

Command(name, al, definition) == [name |-> name, aliases |-> al, definition |-> definition]

MCRequests == {<<Command(go, {}, "member")>>,
               <<Command(do, {}, "member")>>,
               <<Command(go, {do}, "member")>>,
               <<Command(do, {}, "admin"), Command(go, {}, "member")>>}

\* The catalog in which the channel's part begins: one command of each bot.
Stocked == /\ \A c \in Commands : aliases[c] = {} /\
                IF c \in {<<hal, go>>, <<pat, do>>}
                THEN commands[c] = [definition |-> "member", version |-> 1]
                ELSE commands[c] = NoCommand
           /\ \A t \in Syncs : sync[t] = NoSync
           /\ synced = {<<hal, k1>>, <<pat, k1>>}
           /\ bots[pat] = [visibility |-> "public", status |-> "active"]
           /\ bots[hal].status = "active"

\* Bound: Ada is the owner, and Bea is there.
Members == roles[ada] = "owner" /\ roles[bea] # "owner"

\* Bound: bots change while there are no commands.
Untouched == /\ \/ \A b \in Bots : bots[b] = [visibility |-> "public", status |-> "active"]
                \/ \A c \in Commands : commands[c] = NoCommand
             /\ version = 0 /\ \A t \in Slots : handler[t] = NoHandler
             /\ answer = NoAnswer /\ copy.version = 0 /\ copy.items = {} /\ done = {}
             /\ roles[bea] = "admin"

Busy == {t \in Slots : handler[t] # NoHandler}

\* Bound: the commands there are, and an override that is set with a snapshot.
Calls == \A t \in Busy : LET h == handler[t] IN
  /\ h.kind # "help" => h.command \in {<<hal, go>>, <<pat, do>>}
  /\ h.kind = "bind" => h.override \in {"none"} \cup {"admin" : w \in {h.want} \cap {"allowed"}}

\* Bound: two handlers at a time, after Ada allowed what was not official, and a
\* registry that answers.
Pair == /\ bots[hal].visibility = "official" /\ roles[bea] = "admin" /\ ~dissolved
        /\ version \in {1, 2} /\ answer = NoAnswer /\ copy.version >= 1
        /\ deltas[1] = [command |-> <<pat, do>>, sound |-> TRUE, op |-> "upsert"]
        /\ <<"bind", ada, k1>> \in done /\ Cardinality(done) <= 2
        /\ \A t \in Busy : /\ handler[t].kind # "help"
                           /\ handler[t].kind \in {"permission", "bind"} => handler[t].catalog = Official

\* Bound: changes of rows by Ada, one at a time, and a client that follows.
Alone == /\ Cardinality(Busy) <= 1 /\ Cardinality(done) <= version /\ roles[bea] = "admin"
         /\ \A t \in Busy : /\ handler[t].kind \in {"permission", "bind"}
                            /\ handler[t].user = ada /\ answer = NoAnswer
         /\ ~dissolved

OneThing == /\ Members
            /\ Untouched \/ (Stocked /\ Calls /\ (Pair \/ Alone))

SlotsAlike == Permutations(Slots)

=============================================================================
