------------------------ MODULE StatefulSessions_proofs ------------------------
(***************************************************************************)
(* For any sockets, sessions, inputs, effects, handlers and faults: one    *)
(* session of the channel is live, no input of a running session is lost,  *)
(* and an effect is applied once.  The argument: the rows of the outbox    *)
(* are never taken back, so they say for ever what was announced; the ref  *)
(* of a session goes only when its close is on its way or it has ended;    *)
(* and an acknowledgement names inputs the bot has.                        *)
(***************************************************************************)
EXTENDS StatefulSessions, SequenceTheorems, TLAPS

SessionRow == [status : {"none"} \cup LiveStatus \cup EndStatus,
               next : 1 .. MaxInputs + 1, acked : 0 .. MaxInputs, effects : 0 .. MaxEffects]

InputStatus == {"none", "pending", "sent", "acked"}
OutboxStatus == {"none", "pending", "delivered", "dead_letter"}

Stories == {<<>>, <<"closed">>, <<"started">>, <<"started", "closed">>, <<"closed", "started">>}

HandlerRow == [at : {"idle", "applying", "acking"}, of : 0 .. MaxSessions, seq : 0 .. MaxEffects]

Written(s, r) == outbox[s][r] # "none"

\* A session's events, its rows for them, and its state tell the same story.
Announcing == \A s \in Sessions :
  /\ Written(s, RefRow) <=>
       story[s] \in {<<"started">>, <<"started", "closed">>, <<"closed", "started">>}
  /\ Written(s, CloseRow) <=>
       story[s] \in {<<"closed">>, <<"started", "closed">>, <<"closed", "started">>}
  /\ session[s].status \in {"none", "starting"} <=> story[s] = <<>>
  /\ session[s].status = "active" <=> story[s] \in {<<"started">>, <<"closed", "started">>}
  /\ s \in activating => session[s].status # "none"

\* A session that runs, or is about to, has its ref.
Running(s) == story[s] = <<"started">> \/ (story[s] = <<>> /\ s \in activating)

RefsStay == \A s \in Sessions : Running(s) => refs[s] # "none"

\* What is acknowledged was heard.
InputsHeard == \A s \in Sessions :
  /\ 1 .. session[s].acked \subseteq heard[s]
  /\ \A q \in Inputs : input[s][q] = "acked" => q \in heard[s]

\* What is stored was applied, once, and so was what a handler acknowledges.
EffectsStand ==
  /\ \A s \in Sessions, e \in Effects :
       /\ posted[s][e] <= 1
       /\ e \in stored[s] => posted[s][e] = 1
       /\ e <= session[s].effects => e \in stored[s]
  /\ \A t \in Handlers :
       /\ handler[t].at # "idle" => handler[t].of \in Sessions /\ handler[t].seq \in Effects
       /\ handler[t].at = "acking" => posted[handler[t].of][handler[t].seq] = 1

IInv == /\ SessionTypeOK /\ Announcing /\ OneLive
        /\ RefsStay /\ InputsHeard /\ EffectsStand

\* The five stories are different, and how they end.
LEMMA LastWords ==
  /\ \A x : <<x>> # <<>> /\ <<x>>[Len(<<x>>)] = x
  /\ \A x, y : <<x, y>> # <<>> /\ <<x, y>>[Len(<<x, y>>)] = y
  /\ \A x, y, z : <<x, y>> # <<z>> /\ Append(<<>>, x) = <<x>> /\ Append(<<x>>, y) = <<x, y>>
  /\ <<"started">> # <<"closed">> /\ <<"started", "closed">> # <<"closed", "started">>
<1>1. \A x, y, z : <<x, y>> # <<z>>
  <2>1. \A x, y, z : Len(<<x, y>>) = 2 /\ Len(<<z>>) = 1
    OBVIOUS
  <2> QED
    BY <2>1
<1>2. <<"started">> # <<"closed">> /\ <<"started", "closed">> # <<"closed", "started">>
  OBVIOUS
<1>3. \A x : <<x>> # <<>> /\ <<x>>[Len(<<x>>)] = x
  OBVIOUS
<1>4. \A x, y : <<x, y>> # <<>> /\ <<x, y>>[Len(<<x, y>>)] = y
  OBVIOUS
<1>5. \A x, y : Append(<<>>, x) = <<x>> /\ Append(<<x>>, y) = <<x, y>>
  <2> SUFFICES ASSUME NEW x, NEW y PROVE Append(<<>>, x) = <<x>> /\ Append(<<x>>, y) = <<x, y>>
    OBVIOUS
  <2>1. <<>> \in Seq({x}) /\ <<x>> \in Seq({x, y}) /\ <<x>> \in Seq({x})
    OBVIOUS
  <2>2. Append(<<>>, x) = <<x>>
    BY <2>1
  <2>3. Append(<<x>>, y) = <<x, y>>
    <3> DEFINE one == <<x>>
               two == <<x, y>>
    <3>1. one \in Seq({x, y}) /\ Len(one) = 1 /\ one[1] = x
      OBVIOUS
    <3>2. two \in Seq({x, y}) /\ Len(two) = 2 /\ two[1] = x /\ two[2] = y
      OBVIOUS
    <3> HIDE DEF one, two
    <3>3. /\ Append(one, y) \in Seq({x, y}) /\ Len(Append(one, y)) = 2
          /\ Append(one, y)[1] = x /\ Append(one, y)[2] = y
      <4> DEFINE S == {x, y}
      <4>1. one \in Seq(S) /\ y \in S
        BY <3>1
      <4> HIDE DEF S
      <4>2. /\ Append(one, y) \in Seq(S) /\ Len(Append(one, y)) = Len(one) + 1
            /\ \A i \in 1 .. Len(one) : Append(one, y)[i] = one[i]
            /\ Append(one, y)[Len(one) + 1] = y
        BY <4>1, AppendProperties
      <4> QED
        BY <3>1, <4>2 DEF S
    <3>4. \A i \in 1 .. 2 : Append(one, y)[i] = two[i]
      BY <3>2, <3>3
    <3>5. Append(one, y) = two
      BY <3>2, <3>3, <3>4, SeqEqual
    <3> QED
      BY <3>5 DEF one, two
  <2> QED
    BY <2>2, <2>3
<1> QED
  BY <1>1, <1>2, <1>3, <1>4, <1>5

LEMMA NewWords ==
  /\ Append(<<>>, "started") = <<"started">> /\ Append(<<>>, "closed") = <<"closed">>
  /\ Append(<<"started">>, "closed") = <<"started", "closed">>
  /\ Append(<<"closed">>, "started") = <<"closed", "started">>
  BY LastWords, Zenon

\* The five stories are five.
LEMMA StoriesDiffer ==
  /\ <<>> \notin {<<"closed">>, <<"started">>, <<"started", "closed">>, <<"closed", "started">>}
  /\ <<"closed">> \notin {<<"started">>, <<"started", "closed">>, <<"closed", "started">>}
  /\ <<"started">> \notin {<<"started", "closed">>, <<"closed", "started">>}
  /\ <<"started", "closed">> # <<"closed", "started">>
  BY LastWords

LEMMA Implied == IInv => SessionInv /\ OneLive /\ NoInputLost /\ EffectsOnce
<1> SUFFICES ASSUME IInv PROVE SessionInv /\ OneLive /\ NoInputLost /\ EffectsOnce
  OBVIOUS
<1> USE SessionsAssumption DEF IInv
<1>1. StoryTells
  <2> SUFFICES ASSUME NEW s \in Sessions
      PROVE /\ session[s].status = "active" <=>
                 story[s] # <<>> /\ story[s][Len(story[s])] = "started"
            /\ session[s].status \in EndStatus <=>
                 story[s] # <<>> /\ story[s][Len(story[s])] = "closed"
    BY DEF StoryTells
  <2>1. session[s].status \in {"none"} \cup LiveStatus \cup EndStatus /\ story[s] \in Stories
    BY DEF SessionTypeOK, Stories
  <2>2. /\ session[s].status \in {"none", "starting"} <=> story[s] = <<>>
        /\ session[s].status = "active" <=> story[s] \in {<<"started">>, <<"closed", "started">>}
    BY DEF Announcing
  <2>3. CASE story[s] = <<>>
    BY <2>1, <2>2, <2>3 DEF LiveStatus, EndStatus
  <2>4. CASE story[s] = <<"started">>
    BY <2>2, <2>4, LastWords DEF EndStatus
  <2>5. CASE story[s] = <<"closed", "started">>
    BY <2>2, <2>5, LastWords DEF EndStatus
  <2>6. CASE story[s] = <<"closed">>
    BY <2>1, <2>2, <2>6, LastWords DEF LiveStatus, EndStatus
  <2>7. CASE story[s] = <<"started", "closed">>
    BY <2>1, <2>2, <2>7, LastWords DEF LiveStatus, EndStatus
  <2> QED
    BY <2>1, <2>3, <2>4, <2>5, <2>6, <2>7 DEF Stories
<1>2. NoInputLost
  <2> SUFFICES ASSUME NEW s \in Sessions, story[s] = <<"started">>
      PROVE refs[s] # "none" /\ \A q \in Inputs : input[s][q] # "none" => q \in heard[s] \cup Owed(s)
    BY Zenon DEF NoInputLost
  <2>1. refs[s] # "none"
    BY DEF RefsStay, Running
  <2>2. ASSUME NEW q \in Inputs, input[s][q] # "none" PROVE q \in heard[s] \cup Owed(s)
    <3>1. session[s].acked \in 0 .. MaxInputs /\ input[s][q] \in InputStatus
      BY DEF SessionTypeOK, InputStatus
    <3>2. q \in 1 .. session[s].acked \/ q > session[s].acked
      BY <3>1 DEF Inputs
    <3> QED
      BY <2>2, <3>1, <3>2 DEF InputsHeard, Owed, Unacked, InputStatus
  <2> QED
    BY <2>1, <2>2
<1>3. EffectsOnce
  BY DEF EffectsStand, EffectsOnce
<1> QED
  BY <1>1, <1>2, <1>3 DEF SessionInv

LEMMA Initially == SInit => IInv
<1> SUFFICES ASSUME SInit PROVE IInv
  OBVIOUS
<1> USE SessionsAssumption, GatewayAssumption DEF SInit
<1>1. SessionTypeOK
  BY DEF SessionTypeOK, GInit, GTypeOK, Sockets, Sessions, Idle
<1>2. Announcing /\ OneLive
  BY DEF Announcing, Written, OneLive, Live, LiveStatus, RefRow, CloseRow, Rows
<1>3. RefsStay /\ InputsHeard
  BY DEF RefsStay, Running, InputsHeard
<1>4. EffectsStand
  BY DEF EffectsStand, Idle, Effects
<1> QED
  BY <1>1, <1>2, <1>3, <1>4 DEF IInv

-----------------------------------------------------------------------------
(* The types, table by table, and what the updates do to them.             *)

LEMMA Tables ==
  SessionTypeOK <=>
    /\ GTypeOK
    /\ session \in [Sessions -> SessionRow]
    /\ input \in [Sessions -> [Inputs -> InputStatus]]
    /\ outbox \in [Sessions -> [Rows -> OutboxStatus]]
    /\ activating \subseteq Sessions /\ overdue \subseteq Sessions /\ resuming \subseteq Sessions
    /\ faults \in 0 .. MaxFaults
    /\ refs \in [Sessions -> {"none", "starting", "active"}]
    /\ heard \in [Sessions -> SUBSET (0 .. MaxInputs)]
    /\ story \in [Sessions -> Stories]
    /\ stored \in [Sessions -> SUBSET Effects]
    /\ posted \in [Sessions -> [Effects -> 0 .. 2]]
    /\ handler \in [Handlers -> HandlerRow]
  BY DEF SessionTypeOK, SessionRow, InputStatus, OutboxStatus, Stories, HandlerRow

LEMMA TablesNext ==
  ASSUME GTypeOK',
         session' \in [Sessions -> SessionRow],
         input' \in [Sessions -> [Inputs -> InputStatus]],
         outbox' \in [Sessions -> [Rows -> OutboxStatus]],
         activating' \subseteq Sessions, overdue' \subseteq Sessions, resuming' \subseteq Sessions,
         faults' \in 0 .. MaxFaults,
         refs' \in [Sessions -> {"none", "starting", "active"}],
         heard' \in [Sessions -> SUBSET (0 .. MaxInputs)],
         story' \in [Sessions -> Stories],
         stored' \in [Sessions -> SUBSET Effects],
         posted' \in [Sessions -> [Effects -> 0 .. 2]],
         handler' \in [Handlers -> HandlerRow]
  PROVE  SessionTypeOK'
  BY DEF SessionTypeOK, SessionRow, InputStatus, OutboxStatus, Stories, HandlerRow

LEMMA RowFacts ==
  /\ StartRow \in Rows /\ RefRow \in Rows /\ CloseRow \in Rows
  /\ StartRow # RefRow /\ StartRow # CloseRow /\ RefRow # CloseRow
  /\ \A q \in Inputs : InputRow(q) \in Rows /\ InputRow(q) # RefRow /\ InputRow(q) # CloseRow
  /\ \A r \in Rows : /\ r[2] \in 0 .. MaxInputs
                     /\ r[1] = "input" => r[2] \in Inputs /\ r # RefRow /\ r # CloseRow
  BY SessionsAssumption DEF Rows, StartRow, RefRow, CloseRow, InputRow, Inputs

LEMMA SessionSet ==
  ASSUME SessionTypeOK, NEW s \in Sessions, NEW row \in SessionRow,
         session' = [session EXCEPT ![s] = row]
  PROVE  /\ session' \in [Sessions -> SessionRow]
         /\ session'[s] = row
         /\ \A o \in Sessions : o # s => session'[o] = session[o]
  BY Tables

LEMMA StatusSet ==
  ASSUME SessionTypeOK, NEW s \in Sessions, NEW st \in {"none"} \cup LiveStatus \cup EndStatus,
         session' = [session EXCEPT ![s].status = st]
  PROVE  /\ session' \in [Sessions -> SessionRow]
         /\ session'[s].status = st
         /\ session'[s].acked = session[s].acked
         /\ session'[s].effects = session[s].effects
         /\ \A o \in Sessions : o # s => session'[o] = session[o]
<1>1. session[s] \in SessionRow
  BY Tables
<1>2. session'[s] = [status |-> st, next |-> session[s].next, acked |-> session[s].acked,
                     effects |-> session[s].effects]
  BY <1>1, Tables DEF SessionRow
<1>3. session'[s] \in SessionRow
  BY <1>1, <1>2 DEF SessionRow
<1>4. \A o \in Sessions : o # s => session'[o] = session[o]
  BY Tables
<1> QED
  BY <1>2, <1>3, <1>4, Tables

\* A row that is set to something is there, and no row goes.
LEMMA RowSet ==
  ASSUME SessionTypeOK, NEW s \in Sessions, NEW r \in Rows, NEW v \in OutboxStatus \ {"none"},
         outbox' = [outbox EXCEPT ![s][r] = v]
  PROVE  /\ outbox' \in [Sessions -> [Rows -> OutboxStatus]]
         /\ Written(s, r)'
         /\ \A o \in Sessions, x \in Rows :
              o # s \/ x # r => (Written(o, x)' <=> Written(o, x))
  BY Tables DEF Written

LEMMA GatewaySteps ==
  ASSUME GTypeOK, Comes \/ Lapse \/ \E k \in Sockets : Greeted(k)
  PROVE  GTypeOK'
<1> USE GatewayAssumption DEF GTypeOK, Sockets
<1>1. ASSUME NEW k \in Sockets, Accept(k) \/ Hello(k) \/ Lose(k) \/ Close(k) \/ Greeted(k)
      PROVE  GTypeOK'
  BY <1>1 DEF Accept, Hello, Lose, Close, Greeted, Disconnected
<1>2. CASE Lapse
  BY <1>2 DEF Lapse, Disconnected
<1> QED
  BY <1>1, <1>2 DEF Comes

-----------------------------------------------------------------------------
(* Parts of the invariant that a step leaves alone.                        *)

LEMMA GatewayStays == UNCHANGED gateway /\ GTypeOK => GTypeOK'
  BY DEF gateway, GTypeOK

LEMMA AnnouncingStays ==
  ASSUME IInv, UNCHANGED story,
         \A s \in Sessions : session'[s].status = session[s].status,
         \A s \in Sessions : /\ Written(s, RefRow)' <=> Written(s, RefRow)
                             /\ Written(s, CloseRow)' <=> Written(s, CloseRow),
         \A s \in activating' : s \in activating \/ session[s].status # "none"
  PROVE  Announcing' /\ OneLive'
<1>1. Announcing'
  BY DEF IInv, Announcing
<1>2. OneLive'
  BY DEF IInv, OneLive, Live
<1> QED
  BY <1>1, <1>2

LEMMA RefsStayStays ==
  ASSUME IInv, UNCHANGED story, activating' \subseteq activating,
         \A s \in Sessions : Running(s) => refs'[s] # "none" \/ refs'[s] = refs[s]
  PROVE  RefsStay'
  BY DEF IInv, RefsStay, Running

LEMMA InputsHeardStays ==
  ASSUME IInv,
         \A s \in Sessions : session'[s].acked = session[s].acked,
         \A s \in Sessions, q \in Inputs : input'[s][q] = "acked" => input[s][q] = "acked",
         \A s \in Sessions : heard[s] \subseteq heard'[s]
  PROVE  InputsHeard'
  BY DEF IInv, InputsHeard

LEMMA EffectsStay ==
  ASSUME IInv, UNCHANGED effects,
         \A s \in Sessions : session'[s].effects = session[s].effects
  PROVE  EffectsStand'
  BY DEF IInv, EffectsStand, effects

-----------------------------------------------------------------------------
(* Steps that change what a session is.                                    *)

LEMMA StartKeeps ==
  ASSUME IInv, NEW s \in Sessions, Start(s)
  PROVE  IInv'
<1> USE DEF IInv
<1>1. /\ session' \in [Sessions -> SessionRow]
      /\ session'[s].status = "starting" /\ session[s].status = "none"
      /\ session'[s].acked = session[s].acked /\ session'[s].effects = session[s].effects
      /\ \A o \in Sessions : o # s => session'[o] = session[o]
  BY StatusSet DEF Start, LiveStatus
<1>2. /\ outbox' \in [Sessions -> [Rows -> OutboxStatus]]
      /\ \A o \in Sessions, x \in Rows : x # StartRow => (Written(o, x)' <=> Written(o, x))
  BY RowSet, RowFacts DEF Start, Enqueue, OutboxStatus
<1>3. SessionTypeOK'
  BY <1>1, <1>2, Tables, TablesNext, GatewayStays DEF Start, effects
<1>4. Announcing'
  BY <1>1, <1>2, RowFacts DEF Announcing, Start
<1>5. OneLive'
  BY <1>1 DEF OneLive, Start, Free, Live
<1>6. RefsStay'
  BY RefsStayStays DEF Start
<1>7. InputsHeard'
  BY <1>1, InputsHeardStays DEF Start
<1>8. EffectsStand'
  BY <1>1, EffectsStay DEF Start
<1> QED
  BY <1>3, <1>4, <1>5, <1>6, <1>7, <1>8

\* What is announced when a session starts: not its start, and it ended at most.
LEMMA ActivateKeeps ==
  ASSUME IInv, NEW s \in Sessions, Activate(s)
  PROVE  IInv'
<1> USE DEF IInv
<1>1. CASE ~MayActivate(s)
  <2>1. UNCHANGED <<gateway, channel, overdue, faults, refs, resuming, heard, effects>>
        /\ activating' = activating \ {s}
    BY <1>1 DEF Activate, channel
  <2>2. SessionTypeOK'
    BY <2>1, Tables, TablesNext, GatewayStays DEF channel, effects
  <2>3. Announcing' /\ OneLive'
    BY <2>1, AnnouncingStays DEF channel, Written
  <2>4. RefsStay' /\ InputsHeard' /\ EffectsStand'
    BY <2>1, RefsStayStays, InputsHeardStays, EffectsStay DEF channel
  <2> QED
    BY <2>2, <2>3, <2>4
<1>2. CASE MayActivate(s)
  <2>1. /\ s \in activating /\ activating' = activating \ {s}
        /\ session' = [session EXCEPT ![s].status = "active"]
        /\ story' = [story EXCEPT ![s] = Append(story[s], "started")]
        /\ outbox' = [outbox EXCEPT ![s][RefRow] = "pending"]
        /\ overdue' = overdue \ {s}
        /\ UNCHANGED <<gateway, input, faults, refs, resuming, heard, effects>>
    BY <1>2 DEF Activate, Announced, Enqueue
  <2>2. /\ session' \in [Sessions -> SessionRow]
        /\ session'[s].status = "active"
        /\ session'[s].acked = session[s].acked /\ session'[s].effects = session[s].effects
        /\ \A o \in Sessions : o # s => session'[o] = session[o]
    BY <2>1, StatusSet DEF LiveStatus
  <2>3. /\ outbox' \in [Sessions -> [Rows -> OutboxStatus]]
        /\ Written(s, RefRow)'
        /\ \A o \in Sessions, x \in Rows :
             o # s \/ x # RefRow => (Written(o, x)' <=> Written(o, x))
    BY <2>1, RowSet, RowFacts DEF OutboxStatus
  <2>4. story[s] \in {<<>>, <<"closed">>}
    <3>1. ~Written(s, RefRow) /\ story[s] \in Stories
      BY <1>2, Tables DEF MayActivate, Written
    <3> QED
      BY <3>1 DEF Announcing, Stories
  <2>5. /\ story[s] = <<>> => story'[s] = <<"started">>
        /\ story[s] = <<"closed">> => story'[s] = <<"closed", "started">>
        /\ story' \in [Sessions -> Stories]
        /\ \A o \in Sessions : o # s => story'[o] = story[o]
    <3>1. story'[s] = Append(story[s], "started")
      BY <2>1, Tables
    <3>2. /\ story[s] = <<>> => story'[s] = <<"started">>
          /\ story[s] = <<"closed">> => story'[s] = <<"closed", "started">>
      BY <3>1, NewWords
    <3>3. story'[s] \in Stories
      BY <2>4, <3>2 DEF Stories
    <3> QED
      BY <2>1, <3>2, <3>3, Tables
  <2>6. SessionTypeOK'
    BY <2>1, <2>2, <2>3, <2>5, Tables, TablesNext, GatewayStays DEF effects
  <2>7. Announcing'
    <3> SUFFICES ASSUME NEW o \in Sessions
        PROVE
          /\ Written(o, RefRow)' <=>
               story'[o] \in {<<"started">>, <<"started", "closed">>, <<"closed", "started">>}
          /\ Written(o, CloseRow)' <=>
               story'[o] \in {<<"closed">>, <<"started", "closed">>, <<"closed", "started">>}
          /\ session'[o].status \in {"none", "starting"} <=> story'[o] = <<>>
          /\ session'[o].status = "active" <=> story'[o] \in {<<"started">>, <<"closed", "started">>}
          /\ o \in activating' => session'[o].status # "none"
      BY DEF Announcing
    <3>1. CASE o # s
      BY <2>1, <2>2, <2>3, <2>5, <3>1, RowFacts DEF Announcing
    <3>2. CASE o = s
      <4>1. Written(s, CloseRow)' <=> Written(s, CloseRow)
        BY <2>3, RowFacts
      <4>2. CASE story[s] = <<>>
        <5>1. story'[s] = <<"started">> /\ ~Written(s, CloseRow)
          BY <2>5, <4>2 DEF Announcing
        <5> QED
          BY <2>1, <2>2, <2>3, <3>2, <4>1, <5>1, StoriesDiffer
      <4>3. CASE story[s] = <<"closed">>
        <5>1. story'[s] = <<"closed", "started">> /\ Written(s, CloseRow)
          BY <2>5, <4>3 DEF Announcing
        <5> QED
          BY <2>1, <2>2, <2>3, <3>2, <4>1, <5>1, StoriesDiffer
      <4> QED
        BY <2>4, <4>2, <4>3
    <3> QED
      BY <3>1, <3>2
  <2>8. OneLive'
    BY <1>2, <2>2 DEF OneLive, MayActivate, Free, Live
  <2>9. RefsStay'
    <3>1. ASSUME NEW o \in Sessions, o # s, Running(o)' PROVE refs'[o] # "none"
      BY <2>1, <2>5, <3>1 DEF RefsStay, Running
    <3>2. Running(s)' => refs'[s] # "none"
      <4>1. story[s] = <<>> => refs[s] # "none"
        BY <2>1 DEF RefsStay, Running
      <4>2. story[s] = <<"closed">> => ~Running(s)'
        BY <2>1, <2>5, StoriesDiffer DEF Running
      <4> QED
        BY <2>1, <2>4, <4>1, <4>2
    <3> QED
      BY <3>1, <3>2 DEF RefsStay
  <2>10. InputsHeard'
    BY <2>1, <2>2, InputsHeardStays
  <2>11. EffectsStand'
    BY <2>1, <2>2, EffectsStay
  <2> QED
    BY <2>6, <2>7, <2>8, <2>9, <2>10, <2>11
<1> QED
  BY <1>1, <1>2

LEMMA EndAsKeeps ==
  ASSUME IInv, NEW s \in Sessions, NEW final \in EndStatus, EndAs(s, final),
         GTypeOK', resuming' \subseteq Sessions, UNCHANGED effects
  PROVE  IInv'
<1> USE DEF IInv
<1>1. /\ session' \in [Sessions -> SessionRow]
      /\ session'[s].status = final
      /\ session'[s].acked = session[s].acked /\ session'[s].effects = session[s].effects
      /\ \A o \in Sessions : o # s => session'[o] = session[o]
  BY StatusSet DEF EndAs
<1>2. /\ outbox' \in [Sessions -> [Rows -> OutboxStatus]]
      /\ Written(s, CloseRow)'
      /\ \A o \in Sessions, x \in Rows :
           o # s \/ x # CloseRow => (Written(o, x)' <=> Written(o, x))
  BY RowSet, RowFacts DEF EndAs, Enqueue, OutboxStatus
<1>3. story[s] \in {<<>>, <<"started">>}
  <2>1. ~Written(s, CloseRow) /\ story[s] \in Stories
    BY Tables DEF EndAs, ClosesOnce, Written
  <2> QED
    BY <2>1 DEF Announcing, Stories
<1>4. /\ story[s] = <<>> => story'[s] = <<"closed">>
      /\ story[s] = <<"started">> => story'[s] = <<"started", "closed">>
      /\ story' \in [Sessions -> Stories]
      /\ \A o \in Sessions : o # s => story'[o] = story[o]
  <2>1. story'[s] = Append(story[s], "closed")
    BY Tables DEF EndAs, Announced
  <2>2. /\ story[s] = <<>> => story'[s] = <<"closed">>
        /\ story[s] = <<"started">> => story'[s] = <<"started", "closed">>
    BY <2>1, NewWords
  <2>3. story'[s] \in Stories
    BY <1>3, <2>2 DEF Stories
  <2> QED
    BY <2>2, <2>3, Tables DEF EndAs
<1>5. SessionTypeOK'
  BY <1>1, <1>2, <1>4, Tables, TablesNext DEF EndAs, effects
<1>6. Announcing'
  <2> SUFFICES ASSUME NEW o \in Sessions
      PROVE
        /\ Written(o, RefRow)' <=>
             story'[o] \in {<<"started">>, <<"started", "closed">>, <<"closed", "started">>}
        /\ Written(o, CloseRow)' <=>
             story'[o] \in {<<"closed">>, <<"started", "closed">>, <<"closed", "started">>}
        /\ session'[o].status \in {"none", "starting"} <=> story'[o] = <<>>
        /\ session'[o].status = "active" <=> story'[o] \in {<<"started">>, <<"closed", "started">>}
        /\ o \in activating' => session'[o].status # "none"
    BY DEF Announcing
  <2>1. CASE o # s
    BY <1>1, <1>2, <1>4, <2>1, RowFacts DEF Announcing, EndAs
  <2>2. CASE o = s
    <3>1. Written(s, RefRow)' <=> Written(s, RefRow)
      BY <1>2, RowFacts
    <3>2. CASE story[s] = <<>>
      <4>1. story'[s] = <<"closed">> /\ ~Written(s, RefRow)
        BY <1>4, <3>2 DEF Announcing
      <4> QED
        BY <1>1, <1>2, <2>2, <3>1, <4>1, StoriesDiffer DEF EndStatus
    <3>3. CASE story[s] = <<"started">>
      <4>1. story'[s] = <<"started", "closed">> /\ Written(s, RefRow)
        BY <1>4, <3>3 DEF Announcing
      <4> QED
        BY <1>1, <1>2, <2>2, <3>1, <4>1, StoriesDiffer DEF EndStatus
    <3> QED
      BY <1>3, <3>2, <3>3
  <2> QED
    BY <2>1, <2>2
<1>7. OneLive'
  BY <1>1 DEF OneLive, Live, LiveStatus, EndStatus
<1>8. RefsStay'
  <2>1. ~Running(s)'
    BY <1>3, <1>4, StoriesDiffer DEF Running
  <2>2. ASSUME NEW o \in Sessions, o # s, Running(o)' PROVE refs'[o] # "none"
    BY <1>4, <2>2 DEF RefsStay, Running, EndAs
  <2> QED
    BY <2>1, <2>2 DEF RefsStay
<1>9. InputsHeard'
  BY <1>1, InputsHeardStays DEF EndAs
<1>10. EffectsStand'
  BY <1>1, EffectsStay DEF EndAs
<1> QED
  BY <1>5, <1>6, <1>7, <1>8, <1>9, <1>10

-----------------------------------------------------------------------------
(* Steps that leave the channel's tables alone.                            *)

Heard == [Sessions -> SUBSET (0 .. MaxInputs)]
Refs == [Sessions -> {"none", "starting", "active"}]

LEMMA QuietKeeps ==
  ASSUME IInv, GTypeOK', UNCHANGED <<channel, effects>>,
         activating' \subseteq activating, overdue' \subseteq Sessions,
         resuming' \subseteq Sessions, faults' \in 0 .. MaxFaults,
         refs' \in Refs,
         \A s \in Sessions : Running(s) => refs'[s] # "none" \/ refs'[s] = refs[s],
         heard' \in Heard,
         \A s \in Sessions : heard[s] \subseteq heard'[s]
  PROVE  IInv'
<1> USE DEF IInv
<1>1. UNCHANGED <<session, input, outbox, story, stored, posted, handler>>
  BY DEF channel, effects
<1>2. SessionTypeOK'
  BY <1>1, Tables, TablesNext DEF Heard, Refs
<1>3. Announcing' /\ OneLive'
  BY <1>1, AnnouncingStays DEF Written
<1>4. RefsStay' /\ InputsHeard' /\ EffectsStand'
  BY <1>1, RefsStayStays, InputsHeardStays, EffectsStay
<1> QED
  BY <1>2, <1>3, <1>4

\* A frame is heard by a bot that has a connection, and nothing is unheard.
LEMMA PushHeard ==
  ASSUME SessionTypeOK, NEW s \in Sessions, NEW more \in SUBSET (0 .. MaxInputs),
         heard' = (IF Reaches THEN [heard EXCEPT ![s] = @ \cup more] ELSE heard)
  PROVE  heard' \in Heard /\ \A o \in Sessions : heard[o] \subseteq heard'[o]
  BY Tables DEF Heard

LEMMA StartAckKeeps ==
  ASSUME IInv, NEW s \in Sessions, StartAck(s)
  PROVE  IInv'
<1> USE DEF IInv
<1>1. UNCHANGED <<gateway, channel, overdue, faults, refs, resuming, heard, effects>>
      /\ activating' = activating \cup {s} /\ refs[s] # "none" /\ session[s].status = "starting"
  BY DEF StartAck
<1>2. UNCHANGED <<session, input, outbox, story, stored, posted, handler>>
  BY <1>1 DEF channel, effects
<1>3. SessionTypeOK'
  BY <1>1, <1>2, Tables, TablesNext, GatewayStays
<1>4. Announcing' /\ OneLive'
  BY <1>1, <1>2, AnnouncingStays DEF Written
<1>5. RefsStay'
  BY <1>1, <1>2 DEF RefsStay, Running
<1>6. InputsHeard' /\ EffectsStand'
  BY <1>1, <1>2, InputsHeardStays, EffectsStay
<1> QED
  BY <1>3, <1>4, <1>5, <1>6

LEMMA WaitsKeep ==
  ASSUME IInv, NEW s \in Sessions, ActivationLost(s) \/ TimePasses(s) \/ ResumeFails(s)
  PROVE  IInv'
<1>1. /\ activating' \subseteq activating /\ overdue' \subseteq Sessions
      /\ resuming' \subseteq Sessions /\ faults' \in 0 .. MaxFaults
      /\ UNCHANGED <<gateway, channel, refs, heard, effects>>
  BY Tables, SessionsAssumption DEF IInv, ActivationLost, TimePasses, ResumeFails
<1>2. refs' \in Refs /\ heard' \in Heard /\ GTypeOK'
  BY <1>1, Tables, GatewayStays DEF IInv, Refs, Heard
<1> QED
  BY <1>1, <1>2, QuietKeeps

LEMMA ConnectionKeeps ==
  ASSUME IInv, Connection \/ (\E k \in Sockets : Ready(k)) \/ UNCHANGED svars
  PROVE  IInv'
<1>1. /\ UNCHANGED <<channel, activating, overdue, faults, refs, heard, effects>>
      /\ resuming' \subseteq Sessions
  BY Tables DEF IInv, Connection, Ready, svars
<1>2. GTypeOK'
  BY Tables, GatewaySteps, GatewayStays DEF IInv, Connection, Ready, svars
<1>3. refs' \in Refs /\ heard' \in Heard
  BY <1>1, Tables DEF IInv, Refs, Heard
<1>4. overdue' \subseteq Sessions /\ faults' \in 0 .. MaxFaults /\ activating' \subseteq activating
  BY <1>1, Tables DEF IInv
<1> QED
  BY <1>1, <1>2, <1>3, <1>4, QuietKeeps

LEMMA ResumeKeeps ==
  ASSUME IInv, NEW s \in Sessions, Resume(s)
  PROVE  IInv'
<1>1. UNCHANGED <<gateway, effects>> /\ resuming' \subseteq Sessions /\ GTypeOK'
  BY Tables, GatewayStays DEF IInv, Resume
<1>2. CASE EndAs(s, "closed")
  BY <1>1, <1>2, EndAsKeeps DEF EndStatus
<1>3. CASE /\ UNCHANGED <<channel, activating, overdue, faults>>
           /\ \/ refs' = refs
              \/ ~Live(s) /\ refs' = [refs EXCEPT ![s] = "none"]
           /\ \/ heard' = heard
              \/ heard' = IF Reaches THEN [heard EXCEPT ![s] = @ \cup Owed(s)] ELSE heard
  <2>1. refs' \in Refs
    BY <1>3, Tables DEF IInv, Refs
  <2>2. \A o \in Sessions : Running(o) => refs'[o] # "none" \/ refs'[o] = refs[o]
    <3>1. ASSUME ~Live(s) PROVE ~Running(s)
      BY <3>1, StoriesDiffer DEF IInv, Announcing, Live, LiveStatus, Running
    <3> QED
      BY <1>3, <3>1, Tables DEF IInv
  <2>3. heard' \in Heard /\ \A o \in Sessions : heard[o] \subseteq heard'[o]
    <3>1. Owed(s) \in SUBSET (0 .. MaxInputs)
      BY DEF Owed, Inputs
    <3>2. CASE heard' = heard
      BY <3>2, Tables DEF IInv, Heard
    <3> QED
      BY <1>3, <3>1, <3>2, PushHeard DEF IInv
  <2>4. overdue' \subseteq Sessions /\ faults' \in 0 .. MaxFaults /\ activating' \subseteq activating
    BY <1>3, Tables DEF IInv
  <2> QED
    BY <1>1, <1>3, <2>1, <2>2, <2>3, <2>4, QuietKeeps
<1> QED
  BY <1>2, <1>3, Zenon DEF Resume

-----------------------------------------------------------------------------
(* Inputs and frames.                                                      *)

LEMMA ListenKeeps ==
  ASSUME IInv, NEW s \in Sessions, Listen(s)
  PROVE  IInv'
<1> DEFINE q == session[s].next
<1> USE DEF IInv
<1>1. /\ q \in Inputs
      /\ input' = [input EXCEPT ![s][q] = "pending"]
      /\ session' = [session EXCEPT ![s].next = q + 1]
      /\ outbox' = [outbox EXCEPT ![s][InputRow(q)] = "pending"]
      /\ UNCHANGED <<gateway, story, activating, overdue, faults, refs, resuming, heard, effects>>
  BY DEF Listen, Enqueue
<1>2. session[s] \in SessionRow
  BY Tables
<1>3. session'[s] = [status |-> session[s].status, next |-> q + 1,
                    acked |-> session[s].acked, effects |-> session[s].effects]
  BY <1>1, <1>2, Tables DEF SessionRow
<1>4. session'[s] \in SessionRow
  BY <1>1, <1>2, <1>3, SessionsAssumption DEF SessionRow, Inputs
<1>5. /\ session' \in [Sessions -> SessionRow]
      /\ session'[s].status = session[s].status
      /\ session'[s].acked = session[s].acked /\ session'[s].effects = session[s].effects
      /\ \A o \in Sessions : o # s => session'[o] = session[o]
  BY <1>1, <1>3, <1>4, Tables
<1>6. /\ outbox' \in [Sessions -> [Rows -> OutboxStatus]]
      /\ \A o \in Sessions : /\ Written(o, RefRow)' <=> Written(o, RefRow)
                             /\ Written(o, CloseRow)' <=> Written(o, CloseRow)
  <2>1. InputRow(q) \in Rows /\ InputRow(q) # RefRow /\ InputRow(q) # CloseRow
    BY <1>1, RowFacts
  <2> QED
    <3>1. "pending" \in OutboxStatus \ {"none"}
      BY DEF OutboxStatus
    <3>2. /\ outbox' \in [Sessions -> [Rows -> OutboxStatus]]
          /\ \A o \in Sessions, x \in Rows :
               o # s \/ x # InputRow(q) => (Written(o, x)' <=> Written(o, x))
      BY <1>1, <2>1, <3>1, RowSet
    <3> QED
      BY <2>1, <3>2, RowFacts
<1>7. /\ input' \in [Sessions -> [Inputs -> InputStatus]]
      /\ \A o \in Sessions, p \in Inputs : input'[o][p] = "acked" => input[o][p] = "acked"
  BY <1>1, Tables DEF InputStatus
<1> HIDE DEF q
<1>8. SessionTypeOK'
  BY <1>1, <1>5, <1>6, <1>7, Tables, TablesNext, GatewayStays DEF effects
<1>9. Announcing' /\ OneLive'
  BY <1>1, <1>5, <1>6, AnnouncingStays
<1>10. RefsStay' /\ EffectsStand'
  BY <1>1, <1>5, RefsStayStays, EffectsStay
<1>11. InputsHeard'
  BY <1>1, <1>5, <1>7, InputsHeardStays
<1> QED
  BY <1>8, <1>9, <1>10, <1>11

\* The bot has what it acknowledges, and every input before it.
LEMMA InputAckKeeps ==
  ASSUME IInv, NEW s \in Sessions, NEW q \in Inputs, InputAck(s, q)
  PROVE  IInv'
<1> USE DEF IInv
<1>1. /\ 1 .. q \subseteq heard[s]
      /\ input' = [input EXCEPT ![s] = AckedUpTo(s, q)]
      /\ UNCHANGED <<gateway, outbox, story, activating, overdue, faults, refs, resuming,
                     heard, effects>>
  BY DEF InputAck
<1>2. session[s] \in SessionRow
  BY Tables
<1>3. /\ session' \in [Sessions -> SessionRow]
      /\ session'[s].acked \in {session[s].acked, q}
      /\ \A o \in Sessions : /\ session'[o].status = session[o].status
                             /\ session'[o].effects = session[o].effects
                             /\ o # s => session'[o].acked = session[o].acked
  <2>1. CASE session' = session
    BY <2>1, Tables
  <2>2. CASE session' = [session EXCEPT ![s].acked = q]
    <3>1. session'[s] = [status |-> session[s].status, next |-> session[s].next, acked |-> q,
                        effects |-> session[s].effects]
      BY <1>2, <2>2, Tables DEF SessionRow
    <3>2. session'[s] \in SessionRow
      BY <1>2, <3>1 DEF SessionRow, Inputs
    <3> QED
      BY <2>2, <3>1, <3>2, Tables
  <2> QED
    BY <2>1, <2>2 DEF InputAck
<1>4. /\ input' \in [Sessions -> [Inputs -> InputStatus]]
      /\ \A o \in Sessions, p \in Inputs :
           input'[o][p] = "acked" => input[o][p] = "acked" \/ (o = s /\ p <= q)
  <2>1. input'[s] = AckedUpTo(s, q) /\ \A o \in Sessions : o # s => input'[o] = input[o]
    BY <1>1, Tables
  <2>2. AckedUpTo(s, q) \in [Inputs -> InputStatus]
    BY Tables DEF AckedUpTo, InputStatus
  <2>3. input' \in [Sessions -> [Inputs -> InputStatus]]
    BY <1>1, <2>2, Tables
  <2>4. \A p \in Inputs : input'[s][p] = "acked" => input[s][p] = "acked" \/ p <= q
    BY <2>1, Tables DEF AckedUpTo
  <2> QED
    BY <2>1, <2>3, <2>4
<1>5. SessionTypeOK'
  BY <1>1, <1>3, <1>4, Tables, TablesNext, GatewayStays DEF effects
<1>6. Announcing' /\ OneLive'
  BY <1>1, <1>3, AnnouncingStays DEF Written
<1>7. RefsStay' /\ EffectsStand'
  BY <1>1, <1>3, RefsStayStays, EffectsStay
<1>8. InputsHeard'
  <2>1. \A p \in Inputs : p <= q => p \in heard[s]
    BY <1>1 DEF Inputs
  <2>2. \A o \in Sessions : 1 .. session'[o].acked \subseteq heard[o]
    BY <1>1, <1>3 DEF InputsHeard
  <2>3. \A o \in Sessions, p \in Inputs : input'[o][p] = "acked" => p \in heard[o]
    BY <1>4, <2>1 DEF InputsHeard
  <2> QED
    BY <1>1, <2>2, <2>3 DEF InputsHeard
<1> QED
  BY <1>5, <1>6, <1>7, <1>8

\* A row that was there stays there; a close that is handed over was announced.
LEMMA FrameFacts ==
  ASSUME IInv, NEW s \in Sessions, NEW r \in Rows, outbox[s][r] = "pending"
  PROVE  /\ Upserts(s, r) \/ refs' = refs =>
              /\ refs' \in Refs
              /\ \A o \in Sessions : Running(o) => refs'[o] # "none" \/ refs'[o] = refs[o]
         /\ Frame(s, r) \/ heard' = heard =>
              /\ heard' \in Heard
              /\ \A o \in Sessions : heard[o] \subseteq heard'[o]
<1> USE DEF IInv
<1>1. r = CloseRow => ~Running(s)
  BY StoriesDiffer DEF Announcing, Written, Running
<1>2. ASSUME Upserts(s, r)
      PROVE  /\ refs' \in Refs
             /\ \A o \in Sessions : Running(o) => refs'[o] # "none" \/ refs'[o] = refs[o]
  <2>1. \/ refs' = [refs EXCEPT ![s] = "starting"] \/ refs' = [refs EXCEPT ![s] = "active"]
        \/ r = CloseRow /\ refs' = [refs EXCEPT ![s] = "none"]
        \/ refs' = refs
    BY <1>2, RowFacts DEF Upserts
  <2> QED
    BY <1>1, <2>1, Tables DEF Refs
<1>3. ASSUME refs' = refs PROVE refs' \in Refs
  BY <1>3, Tables DEF Refs
<1>4. ASSUME heard' = heard
      PROVE  heard' \in Heard /\ \A o \in Sessions : heard[o] \subseteq heard'[o]
  BY <1>4, Tables DEF Heard
<1>5. ASSUME Frame(s, r)
      PROVE  heard' \in Heard /\ \A o \in Sessions : heard[o] \subseteq heard'[o]
  <2>1. {r[2]} \in SUBSET (0 .. MaxInputs)
    BY RowFacts
  <2>2. CASE heard' = (IF Reaches THEN [heard EXCEPT ![s] = @ \cup {r[2]}] ELSE heard)
    BY <2>1, <2>2, PushHeard
  <2> QED
    BY <1>4, <1>5, <2>2 DEF Frame, Push
<1> QED
  BY <1>2, <1>3, <1>4, <1>5

LEMMA HandedOver ==
  ASSUME IInv, NEW s \in Sessions, NEW r \in Rows, outbox[s][r] = "pending",
         \/ outbox' = outbox
         \/ \E v \in OutboxStatus \ {"none"} : outbox' = [outbox EXCEPT ![s][r] = v],
         input' = input \/ Sent(s, r),
         faults' \in 0 .. MaxFaults,
         Upserts(s, r) \/ refs' = refs, Frame(s, r) \/ heard' = heard,
         UNCHANGED <<gateway, session, story, activating, overdue, resuming, effects>>
  PROVE  IInv'
<1> USE DEF IInv
<1>1. /\ outbox' \in [Sessions -> [Rows -> OutboxStatus]]
      /\ \A o \in Sessions : /\ Written(o, RefRow)' <=> Written(o, RefRow)
                             /\ Written(o, CloseRow)' <=> Written(o, CloseRow)
  <2>1. CASE outbox' = outbox
    BY <2>1, Tables DEF Written
  <2>2. ASSUME NEW v \in OutboxStatus \ {"none"}, outbox' = [outbox EXCEPT ![s][r] = v]
        PROVE <1>1!1 /\ <1>1!2
    <3>1. Written(s, r)
      BY DEF Written
    <3> QED
      BY <2>2, <3>1, RowSet, RowFacts
  <2> QED
    BY <2>1, <2>2
<1>2. /\ input' \in [Sessions -> [Inputs -> InputStatus]]
      /\ \A o \in Sessions, p \in Inputs : input'[o][p] = "acked" => input[o][p] = "acked"
  <2>1. CASE input' = input
    BY <2>1, Tables
  <2>2. CASE r[2] \in Inputs /\ input' = [input EXCEPT ![s][r[2]] = "sent"]
    BY <2>2, Tables DEF InputStatus
  <2> QED
    BY <2>1, <2>2, RowFacts DEF Sent
<1>3. SessionTypeOK'
  BY <1>1, <1>2, Tables, TablesNext, FrameFacts, GatewayStays DEF Refs, Heard, effects
<1>4. Announcing' /\ OneLive'
  BY <1>1, AnnouncingStays
<1>5. RefsStay' /\ EffectsStand'
  BY FrameFacts, RefsStayStays, EffectsStay
<1>6. InputsHeard'
  BY <1>2, FrameFacts, InputsHeardStays
<1> QED
  BY <1>3, <1>4, <1>5, <1>6

LEMMA FlushKeeps ==
  ASSUME IInv, NEW s \in Sessions, NEW r \in Rows, Flush(s, r) \/ FlushFails(s, r)
  PROVE  IInv'
<1>1. outbox[s][r] = "pending" /\ (Upserts(s, r) \/ refs' = refs)
      /\ (Frame(s, r) \/ heard' = heard)
      /\ UNCHANGED <<gateway, session, story, activating, overdue, resuming, effects>>
  BY DEF Flush, FlushFails
<1>2. outbox' = outbox \/ \E v \in OutboxStatus \ {"none"} : outbox' = [outbox EXCEPT ![s][r] = v]
  BY DEF Flush, FlushFails, OutboxStatus
<1>3. input' = input \/ Sent(s, r)
  BY DEF Flush, FlushFails
<1>4. faults' \in 0 .. MaxFaults
  BY Tables, SessionsAssumption DEF IInv, Flush, FlushFails
<1> QED
  BY <1>1, <1>2, <1>3, <1>4, HandedOver

-----------------------------------------------------------------------------
(* Effects.                                                                *)

\* Steps of effect handlers leave the rest as it is.
LEMMA HandlersKeep ==
  ASSUME IInv,
         UNCHANGED <<gateway, input, outbox, story, activating, overdue, faults, refs, resuming,
                     heard>>,
         session' \in [Sessions -> SessionRow],
         \A s \in Sessions : /\ session'[s].status = session[s].status
                             /\ session'[s].acked = session[s].acked,
         stored' \in [Sessions -> SUBSET Effects],
         posted' \in [Sessions -> [Effects -> 0 .. 2]],
         handler' \in [Handlers -> HandlerRow],
         EffectsStand'
  PROVE  IInv'
<1> USE DEF IInv
<1>1. SessionTypeOK'
  BY Tables, TablesNext, GatewayStays
<1>2. Announcing' /\ OneLive'
  BY AnnouncingStays DEF Written
<1>3. RefsStay' /\ InputsHeard'
  BY RefsStayStays, InputsHeardStays
<1> QED
  BY <1>1, <1>2, <1>3

LEMMA EffectsBeginKeeps ==
  ASSUME IInv, NEW t \in Handlers, NEW s \in Sessions, NEW e \in Effects, EffectsBegin(t, s, e)
  PROVE  IInv'
<1> DEFINE h == [at |-> "applying", of |-> s, seq |-> e]
<1>1. handler' = [handler EXCEPT ![t] = h]
      /\ UNCHANGED <<gateway, channel, activating, overdue, faults, refs, resuming, heard,
                     stored, posted>>
  BY DEF EffectsBegin
<1>2. h \in HandlerRow /\ h.at = "applying" /\ h.of = s /\ h.seq = e
  BY SessionsAssumption DEF HandlerRow, Sessions, Effects
<1> HIDE DEF h
<1>3. handler' \in [Handlers -> HandlerRow]
  BY <1>1, <1>2, Tables DEF IInv
<1>4. \A u \in Handlers : handler'[u] = IF u = t THEN h ELSE handler[u]
  BY <1>1, Tables DEF IInv
<1>5. EffectsStand'
  BY <1>1, <1>2, <1>4 DEF IInv, EffectsStand, channel
<1> QED
  BY <1>1, <1>3, <1>5, Tables, HandlersKeep DEF IInv, channel

LEMMA EffectsApplyKeeps ==
  ASSUME IInv, NEW t \in Handlers, EffectsApply(t)
  PROVE  IInv'
<1> DEFINE s == handler[t].of
           e == handler[t].seq
<1> USE DEF IInv
<1>1. handler[t] \in HandlerRow /\ handler[t].at = "applying"
  BY Tables DEF EffectsApply
<1>2. s \in Sessions /\ e \in Effects
  BY <1>1 DEF EffectsStand
<1>3. UNCHANGED <<gateway, channel, activating, overdue, faults, refs, resuming, heard, stored>>
  BY DEF EffectsApply
<1>4. handler'[t] = [at |-> "acking", of |-> s, seq |-> e]
      /\ \A u \in Handlers : u # t => handler'[u] = handler[u]
  BY <1>1, Tables DEF EffectsApply, HandlerRow
<1>5. handler' \in [Handlers -> HandlerRow]
  <2>1. handler'[t] \in HandlerRow
    BY <1>1, <1>4 DEF HandlerRow
  <2> QED
    BY <1>4, <2>1, Tables DEF EffectsApply
<1> HIDE DEF s, e
<1>6. posted' = IF NotApplied(s, e) THEN [posted EXCEPT ![s][e] = @ + 1] ELSE posted
  BY DEF EffectsApply, s, e
<1>7. posted[s][e] \in {0, 1}
  BY <1>2, Tables DEF EffectsStand
<1>8. /\ posted' \in [Sessions -> [Effects -> 0 .. 2]]
      /\ posted'[s][e] = 1
      /\ \A o \in Sessions, x \in Effects : o # s \/ x # e => posted'[o][x] = posted[o][x]
  BY <1>2, <1>6, <1>7, Tables DEF NotApplied
<1>9. \A o \in Sessions, x \in Effects : /\ posted'[o][x] <= 1
                                         /\ posted[o][x] = 1 => posted'[o][x] = 1
  <2> SUFFICES ASSUME NEW o \in Sessions, NEW x \in Effects
      PROVE posted'[o][x] <= 1 /\ (posted[o][x] = 1 => posted'[o][x] = 1)
    OBVIOUS
  <2>1. CASE o = s /\ x = e
    BY <1>8, <2>1
  <2>2. CASE o # s \/ x # e
    BY <1>8, <2>2 DEF EffectsStand
  <2> QED
    BY <2>1, <2>2
<1>10. EffectsStand'
  <2>1. \A o \in Sessions, x \in Effects :
          /\ posted'[o][x] <= 1
          /\ x \in stored'[o] => posted'[o][x] = 1
          /\ x <= session'[o].effects => x \in stored'[o]
    BY <1>3, <1>9 DEF EffectsStand, channel
  <2>2. ASSUME NEW u \in Handlers
        PROVE /\ handler'[u].at # "idle" => handler'[u].of \in Sessions /\ handler'[u].seq \in Effects
              /\ handler'[u].at = "acking" => posted'[handler'[u].of][handler'[u].seq] = 1
    <3>1. CASE u = t
      BY <1>2, <1>4, <1>8, <3>1
    <3>2. CASE u # t
      <4>1. handler'[u] = handler[u]
        BY <1>4, <3>2
      <4>2. /\ handler[u].at # "idle" => handler[u].of \in Sessions /\ handler[u].seq \in Effects
            /\ handler[u].at = "acking" => posted[handler[u].of][handler[u].seq] = 1
        BY DEF EffectsStand
      <4> QED
        BY <1>9, <4>1, <4>2
    <3> QED
      BY <3>1, <3>2
  <2> QED
    BY <2>1, <2>2 DEF EffectsStand
<1> QED
  BY <1>3, <1>5, <1>8, <1>10, Tables, HandlersKeep DEF channel

LEMMA EffectsAckKeeps ==
  ASSUME IInv, NEW t \in Handlers, EffectsAck(t)
  PROVE  IInv'
<1> DEFINE s == handler[t].of
           e == handler[t].seq
<1> USE DEF IInv
<1>1. handler[t].at = "acking" /\ handler' = [handler EXCEPT ![t] = Idle]
      /\ UNCHANGED <<gateway, input, outbox, story, activating, overdue, faults, refs,
                     resuming, heard, posted>>
  BY DEF EffectsAck
<1>2. s \in Sessions /\ e \in Effects /\ posted[s][e] = 1
  BY <1>1 DEF EffectsStand
<1>3. \/ UNCHANGED <<session, stored>>
      \/ /\ stored' = [stored EXCEPT ![s] = @ \cup {e}]
         /\ \/ session' = session
            \/ session[s].effects = e - 1 /\ session' = [session EXCEPT ![s].effects = e]
  BY DEF EffectsAck
<1> HIDE DEF s, e
<1>4. handler' \in [Handlers -> HandlerRow]
      /\ \A u \in Handlers : handler'[u] = handler[u] \/ handler'[u] = Idle
  BY <1>1, Tables, SessionsAssumption DEF Idle, HandlerRow
<1>5. /\ stored' \in [Sessions -> SUBSET Effects]
      /\ \A o \in Sessions : stored[o] \subseteq stored'[o]
      /\ \A o \in Sessions, x \in Effects :
           x \in stored'[o] => x \in stored[o] \/ (o = s /\ x = e)
  <2>1. CASE UNCHANGED stored
    BY <2>1, Tables
  <2>2. CASE stored' = [stored EXCEPT ![s] = @ \cup {e}]
    <3>1. /\ stored \in [Sessions -> SUBSET Effects]
          /\ stored'[s] = stored[s] \cup {e}
          /\ \A o \in Sessions : o # s => stored'[o] = stored[o]
          /\ stored' = [o \in Sessions |-> IF o = s THEN stored[s] \cup {e} ELSE stored[o]]
      BY <1>2, <2>2, Tables
    <3>2. stored' \in [Sessions -> SUBSET Effects]
      BY <1>2, <3>1
    <3>3. \A o \in Sessions : stored[o] \subseteq stored'[o]
      BY <3>1
    <3>4. \A o \in Sessions, x \in Effects :
            x \in stored'[o] => x \in stored[o] \/ (o = s /\ x = e)
      BY <3>1
    <3> QED
      BY <3>2, <3>3, <3>4
  <2> QED
    BY <1>3, <2>1, <2>2
<1>6. /\ session' \in [Sessions -> SessionRow]
      /\ \A o \in Sessions : /\ session'[o].status = session[o].status
                             /\ session'[o].acked = session[o].acked
      /\ \A o \in Sessions, x \in Effects :
           x <= session'[o].effects => x <= session[o].effects \/ (o = s /\ x = e /\ e \in stored'[s])
  <2>1. CASE session' = session
    BY <2>1, Tables
  <2>2. CASE /\ stored' = [stored EXCEPT ![s] = @ \cup {e}] /\ session[s].effects = e - 1
             /\ session' = [session EXCEPT ![s].effects = e]
    <3>1. session[s] \in SessionRow
      BY <1>2, Tables
    <3>2. session'[s] = [status |-> session[s].status, next |-> session[s].next,
                         acked |-> session[s].acked, effects |-> e]
      BY <1>2, <2>2, <3>1, Tables DEF SessionRow
    <3>3. session'[s] \in SessionRow
      BY <1>2, <3>1, <3>2, SessionsAssumption DEF SessionRow, Effects
    <3>4. session' \in [Sessions -> SessionRow] /\ \A o \in Sessions : o # s => session'[o] = session[o]
      BY <1>2, <2>2, <3>3, Tables
    <3>5. e \in stored'[s]
      BY <1>2, <2>2, Tables
    <3>6. \A x \in Effects : x <= e => x <= session[s].effects \/ x = e
      BY <1>2, <2>2 DEF Effects
    <3> QED
      BY <1>2, <3>2, <3>4, <3>5, <3>6
  <2> QED
    BY <1>3, <2>1, <2>2
<1>7. EffectsStand'
  <2>1. \A o \in Sessions, x \in Effects :
          /\ posted'[o][x] <= 1
          /\ x \in stored'[o] => posted'[o][x] = 1
          /\ x <= session'[o].effects => x \in stored'[o]
    BY <1>1, <1>2, <1>5, <1>6 DEF EffectsStand
  <2>2. \A u \in Handlers :
          /\ handler'[u].at # "idle" => handler'[u].of \in Sessions /\ handler'[u].seq \in Effects
          /\ handler'[u].at = "acking" => posted'[handler'[u].of][handler'[u].seq] = 1
    BY <1>1, <1>4 DEF EffectsStand, Idle
  <2> QED
    BY <2>1, <2>2 DEF EffectsStand
<1> QED
  BY <1>1, <1>4, <1>5, <1>6, <1>7, Tables, HandlersKeep

LEMMA EffectsLostKeeps ==
  ASSUME IInv, NEW t \in Handlers, EffectsLost(t)
  PROVE  IInv'
<1>1. handler' = [handler EXCEPT ![t] = Idle]
      /\ UNCHANGED <<gateway, channel, activating, overdue, faults, refs, resuming, heard,
                     stored, posted>>
  BY DEF EffectsLost
<1>2. handler' \in [Handlers -> HandlerRow]
      /\ \A u \in Handlers : handler'[u] = handler[u] \/ handler'[u] = Idle
  BY <1>1, Tables, SessionsAssumption DEF IInv, Idle, HandlerRow
<1>3. EffectsStand'
  BY <1>1, <1>2 DEF IInv, EffectsStand, Idle, channel
<1> QED
  BY <1>1, <1>2, <1>3, Tables, HandlersKeep DEF IInv, channel

-----------------------------------------------------------------------------
(* The theorems.                                                           *)

LEMMA EndsKeep ==
  ASSUME IInv, NEW s \in Sessions, Stop(s) \/ BotClose(s) \/ Timeout(s)
  PROVE  IInv'
<1>1. PICK final \in EndStatus : EndAs(s, final)
  BY Zenon DEF Stop, BotClose, Timeout, EndStatus
<1>2. UNCHANGED <<gateway, resuming, effects>>
  BY DEF Stop, BotClose, Timeout
<1> QED
  BY <1>1, <1>2, EndAsKeeps, GatewayStays, Tables DEF IInv

LEMMA StepKeeps == IInv /\ [SNext]_svars => IInv'
<1> SUFFICES ASSUME IInv, [SNext]_svars PROVE IInv'
  OBVIOUS
<1>1. CASE Connection \/ (\E k \in Sockets : Ready(k)) \/ UNCHANGED svars
  BY <1>1, ConnectionKeeps
<1>2. ASSUME NEW s \in Sessions,
             \/ Start(s) \/ StartAck(s) \/ Activate(s) \/ ActivationLost(s)
             \/ Stop(s) \/ BotClose(s) \/ TimePasses(s) \/ Timeout(s) \/ ResumeFails(s)
      PROVE  IInv'
  BY <1>2, StartKeeps, StartAckKeeps, ActivateKeeps, WaitsKeep, EndsKeep
<1>3. ASSUME NEW s \in Sessions,
             \/ Listen(s) \/ Resume(s)
             \/ \E q \in Inputs : InputAck(s, q)
             \/ \E r \in Rows : Flush(s, r) \/ FlushFails(s, r)
      PROVE  IInv'
  BY <1>3, ListenKeeps, ResumeKeeps, InputAckKeeps, FlushKeeps
<1>4. ASSUME NEW s \in Sessions, NEW t \in Handlers, NEW e \in Effects, EffectsBegin(t, s, e)
      PROVE  IInv'
  BY <1>4, EffectsBeginKeeps
<1>5. ASSUME NEW t \in Handlers, EffectsApply(t) \/ EffectsAck(t) \/ EffectsLost(t)
      PROVE  IInv'
  BY <1>5, EffectsApplyKeeps, EffectsAckKeeps, EffectsLostKeeps
<1> QED
  BY <1>1, <1>2, <1>3, <1>4, <1>5 DEF SNext

LEMMA Invariance == SSpec => []IInv
  BY Initially, StepKeeps, PTL DEF SSpec

\* The tables keep their types, no session is announced twice in the same way,
\* and the announcements tell its state.
THEOREM SessionInvHolds == SSpec => []SessionInv
  BY Implied, Invariance, PTL

\* One session of a channel is live: the look-up before the insert and the
\* unique index under every status write hold off a second, whenever the
\* acknowledgement that waited for a name arrives.
THEOREM OneSessionLives == SSpec => []OneLive
  BY Implied, Invariance, PTL

\* An input of a running session is with the bot or owed to it, whatever is
\* lost: its ref stays until its close is on the way, and what is acknowledged
\* was heard.
THEOREM InputsAreNotLost == SSpec => []NoInputLost
  BY Implied, Invariance, PTL

\* An effect is applied once, and what is acknowledged was applied.
THEOREM SessionEffectsApplyOnce == SSpec => []EffectsOnce
  BY Implied, Invariance, PTL
=============================================================================
