-------------------------- MODULE UserDirectory_proofs --------------------------
(***************************************************************************)
(* The three components that share the object of a user: opening a DM,     *)
(* uploads and personal stickers.  Each has its own inductive invariant.   *)
(***************************************************************************)
EXTENDS DmOpening, Uploads, Stickers, TLAPS, WellFoundedInduction

-----------------------------------------------------------------------------
(***************************************************************************)
(* For any users, keys, requests, handlers and failures: two users have    *)
(* one DM, a key one recipient, and an answer is given for a DM that is    *)
(* complete.  The argument is that the three objects only ever add: a      *)
(* pair's row keeps its id, a channel its members, a key its recipient, so *)
(* what a request learned from one object is still true when it arrives at *)
(* the next, whatever was lost or repeated in between.                     *)
(***************************************************************************)

DmIInv == DmInv /\ AnsweredIsOpen

\* What a step leaves true of a request body and a channel.
Lasting(o, c) == /\ Names(o, c) => Names(o, c)'
                 /\ HasBoth(o, c) => HasBoth(o, c)'
                 /\ Active(o) => Active(o)'
                 /\ Standing(o) => Standing(o)'

\* Requests, answers and stored answers that a step does not touch stay true.
Untouched(h) == handler'[h] = handler[h] \/ handler'[h] = Idle

LEMMA RequestStays ==
  ASSUME DTypeOK, NEW h \in Handlers, RequestIsTrue(handler[h]), Untouched(h),
         \A o \in OpenBody, c \in Nat : Lasting(o, c)
  PROVE  RequestIsTrue(handler[h])'
<1>1. CASE handler'[h] = Idle
  BY <1>1 DEF RequestIsTrue, Idle
<1>2. CASE handler'[h] = handler[h]
  <2>1. handler[h] \in Request
    BY DEF DTypeOK
  <2>2. handler[h].step \notin {"idle", "resolve"} => handler[h].open \in OpenBody
    BY <2>1, DmAssumption DEF Request
  <2>3. handler[h].step \in {"create", "complete", "summary", "reply"} =>
          handler[h].open \in OpenBody /\ handler[h].channel_id \in Nat
    BY <2>1, <2>2 DEF Request, Channels, DTypeOK
  <2> QED
    BY <1>2, <2>2, <2>3, Zenon DEF RequestIsTrue, Lasting
<1> QED
  BY <1>1, <1>2 DEF Untouched

\* What is said of the answers clients got.
AnswersAreTrue == \A a \in answers : /\ Standing(a.open) /\ Names(a.open, a.channel_id)
                                     /\ HasBoth(a.open, a.channel_id) /\ Active(a.open)

LEMMA Parts == DmIInv <=> /\ DTypeOK /\ OneRow /\ ChannelsAreNamed
                          /\ \A h \in Handlers : RequestIsTrue(handler[h])
                          /\ KeysAreTrue /\ AnswersAreTrue
  BY DEF DmIInv, DmInv, AnsweredIsOpen, AnswersAreTrue

LEMMA AnswersStay ==
  ASSUME DTypeOK, AnswersAreTrue, answers' = answers,
         \A o \in OpenBody, c \in Nat : Lasting(o, c)
  PROVE  AnswersAreTrue'
<1> SUFFICES ASSUME NEW a \in answers
             PROVE  /\ Standing(a.open)' /\ Names(a.open, a.channel_id)'
                    /\ HasBoth(a.open, a.channel_id)' /\ Active(a.open)'
  BY Zenon DEF AnswersAreTrue
<1>1. a.open \in OpenBody /\ a.channel_id \in Nat
  BY DmAssumption DEF DTypeOK, Channels
<1> QED
  BY <1>1, Zenon DEF AnswersAreTrue, Lasting

LEMMA KeyStays ==
  ASSUME DTypeOK, NEW u \in Users, NEW k \in Keys, KeyIsTrue(u, k),
         idempotency_keys'[u][k] = idempotency_keys[u][k],
         \A o \in OpenBody, c \in Nat : Lasting(o, c)
  PROVE  KeyIsTrue(u, k)'
<1> SUFFICES ASSUME idempotency_keys[u][k] # NoKey, idempotency_keys[u][k].status = "completed"
             PROVE  LET row == idempotency_keys[u][k]
                        o == [user |-> u, recipient |-> row.recipient, key |-> k]
                    IN /\ Names(o, row.channel_id)' /\ HasBoth(o, row.channel_id)'
                       /\ Active(o)'
  BY DEF KeyIsTrue, StoredIsTrue, Names, HasBoth, Active
<1> DEFINE row == idempotency_keys[u][k]
           o == [user |-> u, recipient |-> row.recipient, key |-> k]
<1>1. row \in KeyRow /\ row.channel_id \in Nat /\ row.recipient \in Users
  BY DEF DTypeOK, KeyRow, Channels
<1>2. Names(o, row.channel_id) /\ HasBoth(o, row.channel_id) /\ Active(o)
  BY DEF KeyIsTrue, StoredIsTrue
<1>3. PICK r \in dm_pairs : r.pair = {u, row.recipient}
  BY <1>2 DEF Names
<1>4. PICK b \in OpenBody : r.pair = {b.user, b.recipient}
  BY DEF DTypeOK, PairRow
<1>5. u # row.recipient
  BY <1>3, <1>4 DEF OpenBody
<1>6. o \in OpenBody
  BY <1>1, <1>5 DEF OpenBody
<1>7. Lasting(o, row.channel_id)
  BY <1>1, <1>6
<1> HIDE DEF row, o
<1>8. Names(o, row.channel_id)' /\ HasBoth(o, row.channel_id)' /\ Active(o)'
  BY <1>2, <1>7, Zenon DEF Lasting
<1> QED
  BY <1>8 DEF row, o

LEMMA KeysStay ==
  ASSUME DTypeOK, KeysAreTrue, UNCHANGED idempotency_keys,
         \A o \in OpenBody, c \in Nat : Lasting(o, c)
  PROVE  KeysAreTrue'
  BY KeyStays DEF KeysAreTrue

\* The objects only add: a row keeps its pair, its id and its end, a channel
\* its members, a key its recipient.
Grow ==
  /\ \A row \in dm_pairs : \E new \in dm_pairs' :
       /\ new.pair = row.pair /\ new.channel_id = row.channel_id
       /\ row.status = "active" => new.status = "active"
  /\ channel_meta \subseteq channel_meta'
  /\ \A u \in Users, k \in Keys :
       idempotency_keys[u][k] # NoKey =>
         /\ idempotency_keys'[u][k] # NoKey
         /\ idempotency_keys'[u][k].recipient = idempotency_keys[u][k].recipient

LEMMA GrowingLasts ==
  ASSUME Grow
  PROVE  \A o \in OpenBody, c \in Nat : Lasting(o, c)
<1> SUFFICES ASSUME NEW o \in OpenBody, NEW c \in Nat
             PROVE  Lasting(o, c)
  OBVIOUS
<1>1. Names(o, c) => Names(o, c)'
  BY Zenon DEF Names, Grow
<1>2. HasBoth(o, c) => HasBoth(o, c)'
  BY Zenon DEF HasBoth, Grow
<1>3. Active(o) => Active(o)'
  BY Zenon DEF Active, Grow
<1>4. o.user \in Users /\ o.key \in Keys
  BY DEF OpenBody
<1>5. Standing(o) => Standing(o)'
  BY <1>4 DEF Standing, Row, Grow
<1> QED
  BY <1>1, <1>2, <1>3, <1>5 DEF Lasting

LEMMA NothingLost ==
  ASSUME UNCHANGED <<dm_pairs, channel_meta, idempotency_keys>>
  PROVE  Grow
  BY Zenon DEF Grow

\* A step that touches no row, channel, key or answer, and of the handlers at
\* most one that it makes true itself.
LEMMA QuietStep ==
  ASSUME DmIInv, DTypeOK', UNCHANGED <<dm_pairs, channel_meta, idempotency_keys>>,
         answers' = answers,
         \A h \in Handlers : Untouched(h) \/ RequestIsTrue(handler[h])'
  PROVE  DmIInv'
<1>1. \A o \in OpenBody, c \in Nat : Lasting(o, c)
  BY NothingLost, GrowingLasts
<1>2. OneRow' /\ ChannelsAreNamed'
  BY Parts DEF OneRow, ChannelsAreNamed
<1>3. \A h \in Handlers : RequestIsTrue(handler[h])'
  BY <1>1, Parts, RequestStays
<1>4. KeysAreTrue' /\ AnswersAreTrue'
  BY <1>1, Parts, KeysStay, AnswersStay
<1> QED
  BY <1>2, <1>3, <1>4 DEF DmIInv, DmInv, AnswersAreTrue, AnsweredIsOpen

-----------------------------------------------------------------------------
(* The initial state.                                                      *)

LEMMA InitInv == DInit => DmIInv
<1> SUFFICES ASSUME DInit PROVE DmIInv
  OBVIOUS
<1>1. DTypeOK
  BY DmAssumption DEF DInit, DTypeOK, NoKey, Idle, KeyRow, Request, Channels
<1>2. OneRow /\ ChannelsAreNamed /\ AnswersAreTrue
  BY DEF DInit, OneRow, ChannelsAreNamed, AnswersAreTrue
<1>3. \A h \in Handlers : RequestIsTrue(handler[h])
  BY DEF DInit, Idle, RequestIsTrue
<1>4. KeysAreTrue
  BY DEF DInit, KeysAreTrue, KeyIsTrue
<1> QED
  BY <1>1, <1>2, <1>3, <1>4, Parts

-----------------------------------------------------------------------------
(* Steps that leave rows, channels and keys alone.                         *)

LEMMA LostInv == ASSUME DmIInv, NEW h \in Handlers, Lost(h) PROVE DmIInv'
<1>1. DTypeOK'
  BY DEF DmIInv, DmInv, DTypeOK, Lost, MayFail, channels, Idle, Request, Channels, KeyRow, PairRow
<1>2. \A g \in Handlers : Untouched(g)
  BY Parts DEF Lost, Untouched, DTypeOK
<1> QED
  BY <1>1, <1>2, QuietStep DEF Lost, channels

LEMMA ArmInv == ASSUME DmIInv, NEW c \in 1 .. minted, ArmAlarm(c) PROVE DmIInv'
<1>1. DTypeOK'
  BY DEF DmIInv, DmInv, DTypeOK, ArmAlarm, Request, Channels, KeyRow, PairRow
<1> QED
  BY <1>1, QuietStep DEF ArmAlarm, Untouched

LEMMA EvictedInv == ASSUME DmIInv, NEW c \in 1 .. minted, Evicted(c) PROVE DmIInv'
<1>1. DTypeOK'
  BY DEF DmIInv, DmInv, DTypeOK, Evicted, MayFail, Idle, Request, Channels, KeyRow, PairRow
<1>2. \A g \in Handlers : Untouched(g)
  BY DEF Evicted, Untouched
<1> QED
  BY <1>1, <1>2, QuietStep DEF Evicted

LEMMA DeliverInv == ASSUME DmIInv, NEW c \in 1 .. minted, NEW u \in Users, Deliver(c, u) PROVE DmIInv'
<1>1. DTypeOK'
  BY DEF DmIInv, DmInv, DTypeOK, Deliver, Request, Channels, KeyRow, PairRow
<1> QED
  BY <1>1, QuietStep DEF Deliver, Untouched

\* The handler of a step, and the others.
LEMMA OneMoves ==
  ASSUME DTypeOK, NEW h \in Handlers, NEW r, handler' = [handler EXCEPT ![h] = r],
         RequestIsTrue(r)'
  PROVE  \A g \in Handlers : Untouched(g) \/ RequestIsTrue(handler[g])'
<1> SUFFICES ASSUME NEW g \in Handlers
             PROVE  Untouched(g) \/ RequestIsTrue(handler[g])'
  OBVIOUS
<1>1. CASE g = h
  BY <1>1 DEF DTypeOK
<1>2. CASE g # h
  BY <1>2 DEF DTypeOK, Untouched
<1> QED
  BY <1>1, <1>2

LEMMA BeginInv == ASSUME DmIInv, NEW h \in Handlers, NEW o \in Opens, Begin(h, o) PROVE DmIInv'
<1> USE Parts
<1>1. o \in OpenBody /\ o.user \in Users /\ o.key \in Keys
  BY DmAssumption DEF OpenBody
<1>2. CASE handler' = [handler EXCEPT ![h] = [step |-> "resolve", open |-> o]] /\ UNCHANGED answers
  <2>1. DTypeOK'
    BY <1>2 DEF DTypeOK, Begin, channels, Request, Channels, KeyRow, PairRow
  <2>2. RequestIsTrue([step |-> "resolve", open |-> o])'
    BY DEF RequestIsTrue
  <2> QED
    BY <1>2, <2>1, <2>2, OneMoves, QuietStep DEF Begin, channels
<1>3. CASE /\ Row(o) # NoKey /\ Resumed(Row(o), o) /\ UNCHANGED answers
           /\ handler' = [handler EXCEPT ![h] = [step |-> "reserve", open |-> o]]
  <2>1. DTypeOK'
    BY <1>3 DEF DTypeOK, Begin, channels, Request, Channels, KeyRow, PairRow
  <2>2. RequestIsTrue([step |-> "reserve", open |-> o])'
    BY <1>3 DEF RequestIsTrue, Begin, Standing, Row, Resumed, SameRequest
  <2> QED
    BY <1>3, <2>1, <2>2, OneMoves, QuietStep DEF Begin, channels
<1>4. CASE /\ Row(o).status = "completed" /\ SameRequest(Row(o), o)
           /\ Answer(o, Row(o).channel_id) /\ UNCHANGED handler
  <2> DEFINE c == Row(o).channel_id
  <2>1. Row(o) \in KeyRow /\ Row(o) # NoKey /\ c \in Channels
    BY <1>1, <1>4 DEF Row, DTypeOK, KeyRow, NoKey
  <2>2. o = [user |-> o.user, recipient |-> Row(o).recipient, key |-> o.key]
    BY <1>1, <1>4 DEF SameRequest, OpenBody
  <2>3. StoredIsTrue(o, Row(o))
    BY <1>1, <2>1, <2>2, Zenon DEF KeysAreTrue, KeyIsTrue, Row
  <2>4. Standing(o) /\ Names(o, c) /\ HasBoth(o, c) /\ Active(o)
    BY <1>4, <2>1, <2>3 DEF StoredIsTrue, Standing, SameRequest
  <2>5. DTypeOK'
    BY <1>4, <2>1 DEF DTypeOK, Begin, channels, Answer, Request, Channels, KeyRow, PairRow
  <2>6. AnswersAreTrue'
    <3> HIDE DEF c
    <3>1. SUFFICES ASSUME NEW a \in answers'
                   PROVE  /\ Standing(a.open) /\ Names(a.open, a.channel_id)
                          /\ HasBoth(a.open, a.channel_id) /\ Active(a.open)
      BY <1>4 DEF AnswersAreTrue, Begin, channels, Standing, Row, Names, HasBoth, Active
    <3>2. a \in answers \/ a = [open |-> o, channel_id |-> c]
      BY <1>4 DEF Answer, c
    <3> QED
      BY <2>4, <3>2 DEF AnswersAreTrue
  <2>7. Grow
    BY NothingLost DEF Begin, channels
  <2>8. \A oo \in OpenBody, cc \in Nat : Lasting(oo, cc)
    BY <2>7, GrowingLasts
  <2>9. KeysAreTrue' /\ \A g \in Handlers : RequestIsTrue(handler[g])'
    BY <1>4, <2>8, KeysStay, RequestStays DEF Begin, Untouched
  <2>10. OneRow' /\ ChannelsAreNamed'
    BY DEF OneRow, ChannelsAreNamed, Begin, channels
  <2> QED
    BY <2>5, <2>6, <2>9, <2>10 DEF DmIInv, DmInv, AnswersAreTrue, AnsweredIsOpen
<1> QED
  BY <1>2, <1>3, <1>4 DEF Begin, BeginNew, BeginAgain

LEMMA ReplyInv == ASSUME DmIInv, NEW h \in Handlers, Reply(h) PROVE DmIInv'
<1> USE Parts
<1> DEFINE r == handler[h]
<1>1. r \in Request /\ r.step = "reply" /\ r.open \in Opens /\ r.channel_id \in Channels
  BY DEF DTypeOK, Reply, At, Request
<1>2. Standing(r.open) /\ Names(r.open, r.channel_id) /\ HasBoth(r.open, r.channel_id) /\ Active(r.open)
  BY <1>1 DEF RequestIsTrue
<1>3. DTypeOK'
  BY <1>1 DEF DTypeOK, Reply, channels, Answer, Idle, Request, Channels, KeyRow, PairRow
<1>4. \A g \in Handlers : Untouched(g)
  BY DEF Reply, Untouched, DTypeOK
<1>5. \A o \in OpenBody, c \in Nat : Lasting(o, c)
  BY NothingLost, GrowingLasts DEF Reply, channels
<1>6. KeysAreTrue' /\ \A g \in Handlers : RequestIsTrue(handler[g])'
  BY <1>4, <1>5, KeysStay, RequestStays DEF Reply
<1>7. OneRow' /\ ChannelsAreNamed'
  BY DEF OneRow, ChannelsAreNamed, Reply, channels
<1>8. AnswersAreTrue'
  <2> HIDE DEF r
  <2>1. SUFFICES ASSUME NEW a \in answers'
                 PROVE  /\ Standing(a.open) /\ Names(a.open, a.channel_id)
                        /\ HasBoth(a.open, a.channel_id) /\ Active(a.open)
    BY DEF AnswersAreTrue, Reply, channels, Standing, Row, Names, HasBoth, Active
  <2>2. a \in answers \/ a = [open |-> r.open, channel_id |-> r.channel_id]
    BY DEF Answer, Reply, r
  <2> QED
    BY <1>2, <2>2 DEF AnswersAreTrue
<1> QED
  BY <1>3, <1>6, <1>7, <1>8 DEF DmIInv, DmInv, AnswersAreTrue, AnsweredIsOpen

-----------------------------------------------------------------------------
(* Steps that write one of the three objects.                              *)

LEMMA GrowingStep ==
  ASSUME DmIInv, DTypeOK', Grow, OneRow', ChannelsAreNamed', KeysAreTrue', answers' = answers,
         \A h \in Handlers : Untouched(h) \/ RequestIsTrue(handler[h])'
  PROVE  DmIInv'
<1>1. \A o \in OpenBody, c \in Nat : Lasting(o, c)
  BY GrowingLasts
<1>2. \A h \in Handlers : RequestIsTrue(handler[h])'
  BY <1>1, Parts, RequestStays
<1>3. AnswersAreTrue'
  BY <1>1, Parts, AnswersStay
<1> QED
  BY <1>2, <1>3 DEF DmIInv, DmInv, AnswersAreTrue, AnsweredIsOpen

LEMMA ReserveInv == ASSUME DmIInv, NEW h \in Handlers, ReserveKey(h) PROVE DmIInv'
<1> USE Parts
<1>0. PICK o : o = handler[h].open
  OBVIOUS
<1>1. /\ handler[h].step = "resolve" /\ o \in Opens /\ o \in OpenBody
      /\ o.user \in Users /\ o.key \in Keys /\ o.recipient \in Users
  BY <1>0, DmAssumption DEF DTypeOK, ReserveKey, At, Request, OpenBody
<1>2. CASE Row(o) # NoKey
  <2>1. handler' = [handler EXCEPT ![h] = Idle] /\ UNCHANGED idempotency_keys
    BY <1>0, <1>2, Zenon DEF ReserveKey
  <2>2. DTypeOK'
    BY <2>1 DEF DTypeOK, ReserveKey, channels, Idle, Request, Channels, KeyRow, PairRow
  <2>3. \A g \in Handlers : Untouched(g)
    BY <2>1 DEF DTypeOK, Untouched
  <2> QED
    BY <2>1, <2>2, <2>3, QuietStep DEF ReserveKey, channels
<1>3. CASE Row(o) = NoKey
  <2> DEFINE new == [status |-> "creating", recipient |-> o.recipient]
  <2>0. PICK r : r = [handler[h] EXCEPT !.step = "reserve"]
    OBVIOUS
  <2>1. /\ idempotency_keys' = [idempotency_keys EXCEPT ![o.user][o.key] = new]
        /\ handler' = [handler EXCEPT ![h] = r]
    BY <1>0, <1>3, <2>0 DEF ReserveKey
  <2>2. r \in Request /\ r.step = "reserve" /\ r.open = o /\ new \in KeyRow
    BY <1>0, <1>1, <2>0 DEF DTypeOK, Request, KeyRow
  <2>3. /\ idempotency_keys'[o.user][o.key] = new
        /\ \A u \in Users, k \in Keys : \/ u = o.user /\ k = o.key
                                       \/ idempotency_keys'[u][k] = idempotency_keys[u][k]
    BY <1>1, <2>1 DEF DTypeOK
  <2>4. new # NoKey /\ new.recipient = o.recipient /\ new.status # "completed"
    BY DEF NoKey
  <2>5. DTypeOK'
    <3>1. idempotency_keys' \in [Users -> [Keys -> KeyRow]] /\ handler' \in [Handlers -> Request]
      BY <1>1, <2>1, <2>2 DEF DTypeOK
    <3> QED
      BY <3>1 DEF DTypeOK, ReserveKey, channels, Request, Channels, KeyRow, PairRow
  <2> HIDE DEF new
  <2>6. RequestIsTrue(r)'
    BY <2>2, <2>3, <2>4 DEF RequestIsTrue, Standing, Row
  <2>7. Grow
    BY <1>3, <2>3 DEF Grow, ReserveKey, channels, Row
  <2>8. \A oo \in OpenBody, c \in Nat : Lasting(oo, c)
    BY <2>7, GrowingLasts
  <2>9. KeysAreTrue'
    <3> SUFFICES ASSUME NEW u \in Users, NEW k \in Keys
                 PROVE  KeyIsTrue(u, k)'
      BY DEF KeysAreTrue
    <3>1. CASE idempotency_keys'[u][k] = idempotency_keys[u][k]
      BY <2>8, <3>1, KeyStays DEF KeysAreTrue
    <3>2. CASE idempotency_keys'[u][k] = new
      BY <2>4, <3>2 DEF KeyIsTrue, StoredIsTrue
    <3> QED
      BY <2>3, <3>1, <3>2
  <2>10. OneRow' /\ ChannelsAreNamed'
    BY DEF OneRow, ChannelsAreNamed, ReserveKey, channels
  <2>11. \A g \in Handlers : Untouched(g) \/ RequestIsTrue(handler[g])'
    BY <2>1, <2>6, OneMoves
  <2> QED
    BY <2>5, <2>7, <2>9, <2>10, <2>11, GrowingStep DEF ReserveKey
<1> QED
  BY <1>2, <1>3

LEMMA StoreInv == ASSUME DmIInv, NEW h \in Handlers, StoreAnswer(h) PROVE DmIInv'
<1> USE Parts
<1>0. PICK o, c : o = handler[h].open /\ c = handler[h].channel_id
  OBVIOUS
<1>1. /\ handler[h].step = "summary" /\ o \in Opens /\ o \in OpenBody /\ c \in Channels
      /\ o.user \in Users /\ o.key \in Keys /\ o.recipient \in Users
  BY <1>0, DmAssumption DEF DTypeOK, StoreAnswer, At, Request, OpenBody
<1>2. Standing(o) /\ Names(o, c) /\ HasBoth(o, c) /\ Active(o)
  BY <1>0, <1>1 DEF RequestIsTrue
<1>3. PICK r : r = [handler[h] EXCEPT !.step = "reply"]
  OBVIOUS
<1>4. PICK new : new = [status |-> "completed", recipient |-> o.recipient, channel_id |-> c]
  OBVIOUS
<1>5. r \in Request /\ r.step = "reply" /\ r.open = o /\ r.channel_id = c /\ new \in KeyRow
  BY <1>0, <1>1, <1>3, <1>4 DEF DTypeOK, Request, KeyRow
<1>6. /\ idempotency_keys' = [idempotency_keys EXCEPT ![o.user][o.key] = new]
      /\ handler' = [handler EXCEPT ![h] = r]
  BY <1>0, <1>1, <1>2, <1>3, <1>4 DEF StoreAnswer, Standing, Row, DTypeOK
<1>7. /\ idempotency_keys'[o.user][o.key] = new
      /\ \A u \in Users, k \in Keys : \/ u = o.user /\ k = o.key
                                     \/ idempotency_keys'[u][k] = idempotency_keys[u][k]
  BY <1>1, <1>6 DEF DTypeOK
<1>8. new # NoKey /\ new.recipient = o.recipient
  BY ONLY <1>4 DEF NoKey
<1>9. DTypeOK'
  <2>1. idempotency_keys' \in [Users -> [Keys -> KeyRow]] /\ handler' \in [Handlers -> Request]
    BY <1>1, <1>5, <1>6 DEF DTypeOK
  <2> QED
    BY <2>1, ZenonT(60) DEF DTypeOK, StoreAnswer, channels, Request, Channels, KeyRow, PairRow
<1>10. Grow
  BY <1>2, <1>7, <1>8, ZenonT(60) DEF Grow, StoreAnswer, channels, Standing, Row
<1>11. \A oo \in OpenBody, cc \in Nat : Lasting(oo, cc)
  BY <1>10, GrowingLasts
<1>12. Standing(o)' /\ Names(o, c)' /\ HasBoth(o, c)' /\ Active(o)'
  BY <1>1, <1>2, <1>11 DEF Lasting, DTypeOK, Channels
<1>13. RequestIsTrue(r)'
  BY <1>5, <1>12 DEF RequestIsTrue
<1>14. KeysAreTrue'
  <2> SUFFICES ASSUME NEW u \in Users, NEW k \in Keys
               PROVE  KeyIsTrue(u, k)'
    BY DEF KeysAreTrue
  <2>1. CASE idempotency_keys'[u][k] = idempotency_keys[u][k]
    BY <1>11, <2>1, KeyStays DEF KeysAreTrue
  <2>2. CASE u = o.user /\ k = o.key
    <3>1. o = [user |-> u, recipient |-> o.recipient, key |-> k]
      BY <1>1, <2>2 DEF OpenBody
    <3>2. idempotency_keys'[u][k] = new /\ new.recipient = o.recipient /\ new.channel_id = c
      BY <1>4, <1>7, <2>2
    <3> QED
      BY <1>12, <3>1, <3>2 DEF KeyIsTrue, StoredIsTrue
  <2> QED
    BY <1>7, <2>1, <2>2
<1>15. OneRow' /\ ChannelsAreNamed'
  BY DEF OneRow, ChannelsAreNamed, StoreAnswer, channels
<1>16. \A g \in Handlers : Untouched(g) \/ RequestIsTrue(handler[g])'
  BY <1>6, <1>13, OneMoves
<1> QED
  BY <1>9, <1>10, <1>14, <1>15, <1>16, GrowingStep DEF StoreAnswer

LEMMA CreateInv == ASSUME DmIInv, NEW h \in Handlers, CreateDm(h) PROVE DmIInv'
<1> USE Parts
<1>0. PICK o, c, both : o = handler[h].open /\ c = handler[h].channel_id /\ both = {o.user, o.recipient}
  OBVIOUS
<1>1. /\ handler[h].step = "create" /\ o \in Opens /\ o \in OpenBody /\ c \in Channels
      /\ o.user \in Users /\ o.recipient \in Users
  BY <1>0, DmAssumption DEF DTypeOK, CreateDm, At, Request, OpenBody
<1>2. Standing(o) /\ Names(o, c) /\ (handler[h].status = "active" => Active(o))
  BY <1>0, <1>1 DEF RequestIsTrue
<1>3. PICK r : r = [handler[h] EXCEPT !.step = "complete", !.created = ~Exists(c)]
  OBVIOUS
<1>4. /\ r \in Request /\ r.step = "complete" /\ r.open = o /\ r.channel_id = c
      /\ r.status = handler[h].status
  BY <1>0, <1>1, <1>3 DEF DTypeOK, Request
<1>5. handler' = [handler EXCEPT ![h] = r]
  BY <1>0, <1>3 DEF CreateDm, DTypeOK
<1>6. PICK row \in dm_pairs : row.pair = both /\ row.channel_id = c
  BY <1>0, <1>2 DEF Names
<1>7. /\ channel_meta \subseteq channel_meta'
      /\ channel_meta' \subseteq channel_meta \cup {[channel_id |-> c, members |-> both]}
      /\ [channel_id |-> c, members |-> both] \in channel_meta'
  <2>1. CASE Exists(c)
    <3>1. PICK meta \in channel_meta : meta.channel_id = c
      BY <2>1 DEF Exists
    <3>2. PICK named \in dm_pairs : named.channel_id = c /\ named.pair = meta.members
      BY <3>1 DEF ChannelsAreNamed
    <3>3. named = row
      BY <1>6, <3>2 DEF OneRow
    <3>4. meta = [channel_id |-> c, members |-> both]
      BY <1>6, <3>1, <3>2, <3>3 DEF DTypeOK
    <3>5. channel_meta' = channel_meta
      BY <1>0, <2>1 DEF CreateDm
    <3> QED
      BY <3>4, <3>5
  <2>2. CASE ~Exists(c)
    BY <1>0, <2>2 DEF CreateDm
  <2> QED
    BY <2>1, <2>2
<1>8. DTypeOK'
  <2>1. handler' \in [Handlers -> Request]
    BY <1>4, <1>5 DEF DTypeOK
  <2>2. channel_meta' \subseteq [channel_id : Channels, members : SUBSET Users]
    BY <1>0, <1>1, <1>7 DEF DTypeOK
  <2>3. outbox' \subseteq Channels \X Users /\ arming' \subseteq Channels
    BY <1>0, <1>1 DEF DTypeOK, CreateDm
  <2> QED
    BY <2>1, <2>2, <2>3 DEF DTypeOK, CreateDm, Request, Channels, KeyRow, PairRow
<1>9. Grow
  BY <1>7 DEF Grow, CreateDm
<1>10. \A oo \in OpenBody, cc \in Nat : Lasting(oo, cc)
  BY <1>9, GrowingLasts
<1>11. RequestIsTrue(r)'
  <2>1. Standing(o)' /\ Names(o, c)' /\ (r.status = "active" => Active(o)')
    BY <1>1, <1>2, <1>4, <1>10 DEF Lasting, DTypeOK, Channels
  <2>2. HasBoth(o, c)'
    BY <1>0, <1>7 DEF HasBoth
  <2> QED
    BY <1>4, <2>1, <2>2 DEF RequestIsTrue
<1>12. KeysAreTrue'
  BY <1>10, KeysStay DEF CreateDm
<1>13. OneRow'
  BY DEF OneRow, CreateDm
<1>14. ChannelsAreNamed'
  <2>1. \A meta \in channel_meta' :
          \E named \in dm_pairs' : named.channel_id = meta.channel_id /\ named.pair = meta.members
    BY <1>6, <1>7 DEF ChannelsAreNamed, CreateDm
  <2>2. \A named \in dm_pairs' : named.status = "active" =>
          [channel_id |-> named.channel_id, members |-> named.pair] \in channel_meta'
    BY <1>7, Zenon DEF ChannelsAreNamed, CreateDm
  <2> QED
    BY <2>1, <2>2 DEF ChannelsAreNamed
<1>15. \A g \in Handlers : Untouched(g) \/ RequestIsTrue(handler[g])'
  BY <1>5, <1>11, OneMoves
<1> QED
  BY <1>8, <1>9, <1>12, <1>13, <1>14, <1>15, GrowingStep DEF CreateDm

LEMMA GetOrCreateInv == ASSUME DmIInv, NEW h \in Handlers, GetOrCreateDm(h) PROVE DmIInv'
<1> USE Parts
<1>0. PICK o : o = handler[h].open
  OBVIOUS
<1>1. /\ handler[h].step = "reserve" /\ o \in Opens /\ o \in OpenBody
      /\ PairOf(handler[h]) = {o.user, o.recipient}
  BY <1>0, DmAssumption DEF DTypeOK, GetOrCreateDm, At, Request, PairOf, PairKey
<1>2. Standing(o)
  BY <1>0, <1>1 DEF RequestIsTrue
<1>3. CASE \E row \in dm_pairs :
             /\ row.pair = PairOf(handler[h])
             /\ handler' = [handler EXCEPT ![h] =
                  [step |-> "create", open |-> @.open, channel_id |-> row.channel_id,
                   status |-> Seen(row), created |-> FALSE]]
             /\ UNCHANGED <<dm_pairs, minted>>
  <2>1. PICK row \in dm_pairs :
             /\ row.pair = PairOf(handler[h])
             /\ handler' = [handler EXCEPT ![h] =
                  [step |-> "create", open |-> @.open, channel_id |-> row.channel_id,
                   status |-> Seen(row), created |-> FALSE]]
    BY <1>3
  <2>2. PICK r : r = [step |-> "create", open |-> o, channel_id |-> row.channel_id,
                      status |-> row.status, created |-> FALSE]
    OBVIOUS
  <2>3. handler' = [handler EXCEPT ![h] = r]
    BY <1>0, <2>1, <2>2 DEF Seen, DTypeOK
  <2>4. row \in PairRow
    BY DEF DTypeOK
  <2>5. r \in Request
    BY <1>1, <2>2, <2>4 DEF Request, PairRow
  <2>6. DTypeOK'
    <3>1. handler' \in [Handlers -> Request]
      BY <2>3, <2>5 DEF DTypeOK
    <3> QED
      BY <1>3, <3>1 DEF DTypeOK, GetOrCreateDm, channels, Request, Channels, KeyRow, PairRow
  <2>7. Names(o, row.channel_id) /\ (row.status = "active" => Active(o))
    BY <1>1, <2>1 DEF Names, Active
  <2>8. Standing(o)' /\ Names(o, row.channel_id)' /\ (row.status = "active" => Active(o)')
    BY <1>2, <1>3, <2>7 DEF GetOrCreateDm, Standing, Row, Names, Active
  <2>9. RequestIsTrue(r)'
    BY <2>2, <2>8 DEF RequestIsTrue
  <2> QED
    BY <1>3, <2>3, <2>6, <2>9, OneMoves, QuietStep DEF GetOrCreateDm, channels
<1>4. CASE /\ \A row \in dm_pairs : row.pair # PairOf(handler[h])
           /\ minted' = minted + 1
           /\ dm_pairs' = dm_pairs \cup {[pair |-> PairOf(handler[h]), channel_id |-> minted',
                                          status |-> "creating"]}
           /\ handler' = [handler EXCEPT ![h] =
                [step |-> "create", open |-> @.open, channel_id |-> minted',
                 status |-> "creating", created |-> FALSE]]
  <2>1. PICK c, new, r :
          /\ c = minted + 1
          /\ new = [pair |-> {o.user, o.recipient}, channel_id |-> c, status |-> "creating"]
          /\ r = [step |-> "create", open |-> o, channel_id |-> c, status |-> "creating",
                  created |-> FALSE]
    OBVIOUS
  <2>2. dm_pairs' = dm_pairs \cup {new} /\ handler' = [handler EXCEPT ![h] = r]
    BY <1>0, <1>1, <1>4, <2>1 DEF DTypeOK
  <2>3. c \in Channels' /\ Channels \subseteq Channels' /\ c \notin Channels
    BY <1>4, <2>1 DEF Channels, DTypeOK
  <2>4. new \in PairRow' /\ r \in Request' /\ PairRow \subseteq PairRow' /\ Request \subseteq Request'
    BY <1>1, <2>1, <2>3 DEF PairRow, Request
  <2>5. DTypeOK'
    <3>1. dm_pairs' \subseteq PairRow' /\ handler' \in [Handlers -> Request']
      BY <2>2, <2>4 DEF DTypeOK
    <3>2. KeyRow \subseteq KeyRow'
      BY <2>3 DEF KeyRow
    <3>3. idempotency_keys' \in [Users -> [Keys -> KeyRow']]
      BY <3>2 DEF DTypeOK, GetOrCreateDm
    <3>4. minted' \in Nat
      BY <1>4 DEF DTypeOK
    <3>5. /\ channel_meta' \subseteq [channel_id : Channels', members : SUBSET Users]
          /\ outbox' \subseteq Channels' \X Users
          /\ arming' \subseteq Channels' /\ alarm' \subseteq Channels'
          /\ my_channels' \subseteq Users \X Channels'
          /\ answers' \subseteq [open : Opens, channel_id : Channels']
          /\ stranded' \subseteq Channels'
          /\ failures' \in Nat
      BY <2>3 DEF DTypeOK, GetOrCreateDm, channels
    <3> QED
      BY <3>1, <3>3, <3>4, <3>5 DEF DTypeOK
  <2>6. \A row \in dm_pairs : row.pair # new.pair /\ row.channel_id # new.channel_id
    BY <1>1, <1>4, <2>1, <2>3 DEF DTypeOK, PairRow
  <2>7. OneRow'
    BY <2>2, <2>6 DEF OneRow
  <2>8. Grow
    BY <2>2 DEF Grow, GetOrCreateDm, channels
  <2>9. ChannelsAreNamed'
    <3>1. \A meta \in channel_meta' :
            \E named \in dm_pairs' : named.channel_id = meta.channel_id /\ named.pair = meta.members
      BY <2>2 DEF ChannelsAreNamed, GetOrCreateDm, channels
    <3>2. \A named \in dm_pairs' : named.status = "active" =>
            [channel_id |-> named.channel_id, members |-> named.pair] \in channel_meta'
      BY <2>1, <2>2 DEF ChannelsAreNamed, GetOrCreateDm, channels
    <3> QED
      BY <3>1, <3>2 DEF ChannelsAreNamed
  <2>10. KeysAreTrue'
    BY <2>8, GrowingLasts, KeysStay DEF GetOrCreateDm
  <2>11. RequestIsTrue(r)'
    <3>1. Standing(o)'
      BY <1>2 DEF Standing, Row, GetOrCreateDm
    <3>2. Names(o, c)'
      BY <2>1, <2>2 DEF Names
    <3> QED
      BY <2>1, <3>1, <3>2 DEF RequestIsTrue
  <2>12. \A g \in Handlers : Untouched(g) \/ RequestIsTrue(handler[g])'
    BY <2>2, <2>11, OneMoves
  <2> QED
    BY <2>5, <2>7, <2>8, <2>9, <2>10, <2>12, GrowingStep DEF GetOrCreateDm
<1> QED
  BY <1>3, <1>4, Zenon DEF GetOrCreateDm

LEMMA CompleteInv == ASSUME DmIInv, NEW h \in Handlers, CompleteDm(h) PROVE DmIInv'
<1> USE Parts
<1>0. PICK o, c : o = handler[h].open /\ c = handler[h].channel_id
  OBVIOUS
<1>1. /\ handler[h].step = "complete" /\ o \in Opens /\ o \in OpenBody /\ c \in Channels
      /\ handler[h].status \in {"creating", "active"}
  BY <1>0, DmAssumption DEF DTypeOK, CompleteDm, Answered, Request
<1>2. /\ Standing(o) /\ Names(o, c) /\ HasBoth(o, c)
      /\ handler[h].status = "active" => Active(o)
  BY <1>0, <1>1 DEF RequestIsTrue
<1>3. IsMember(handler[h])
  BY <1>0, <1>2 DEF IsMember, HasBoth
<1>4. PICK r : r = [handler[h] EXCEPT !.step = "summary"]
  OBVIOUS
<1>5. r \in Request /\ r.step = "summary" /\ r.open = o /\ r.channel_id = c
  BY <1>0, <1>1, <1>4 DEF DTypeOK, Request
<1>6. handler' = [handler EXCEPT ![h] = r]
  BY <1>3, <1>4 DEF CompleteDm, DTypeOK
<1>7. PICK row \in dm_pairs : row.pair = {o.user, o.recipient} /\ row.channel_id = c
  BY <1>2 DEF Names
<1>8. PICK done : done = [row EXCEPT !.status = "active"]
  OBVIOUS
<1>9. done \in PairRow /\ done.pair = row.pair /\ done.channel_id = c /\ done.status = "active"
  BY <1>7, <1>8 DEF DTypeOK, PairRow
<1>10. \/ dm_pairs' = (dm_pairs \ {row}) \cup {done}
       \/ dm_pairs' = dm_pairs /\ Active(o)
  <2>1. CASE Unfinished(handler[h])
    <3>1. \A other \in dm_pairs : other.pair = PairOf(handler[h]) /\ other.channel_id = c <=> other = row
      BY <1>0, <1>7 DEF OneRow, PairOf, PairKey
    <3> QED
      BY <1>0, <1>3, <1>8, <2>1, <3>1 DEF CompleteDm
  <2>2. CASE ~Unfinished(handler[h])
    BY <1>1, <1>2, <1>3, <2>2 DEF CompleteDm, Unfinished
  <2> QED
    BY <2>1, <2>2
<1>11. DTypeOK'
  <2>1. handler' \in [Handlers -> Request] /\ dm_pairs' \subseteq PairRow
    BY <1>5, <1>6, <1>9, <1>10 DEF DTypeOK
  <2> QED
    BY <2>1 DEF DTypeOK, CompleteDm, channels, Request, Channels, KeyRow, PairRow
<1>12. OneRow'
  BY <1>7, <1>9, <1>10, ZenonT(60) DEF OneRow
<1>13. Grow
  <2>1. \A other \in dm_pairs : \E new \in dm_pairs' :
          /\ new.pair = other.pair /\ new.channel_id = other.channel_id
          /\ other.status = "active" => new.status = "active"
    BY <1>7, <1>9, <1>10
  <2> QED
    BY <2>1 DEF Grow, CompleteDm, channels
<1>14. \A oo \in OpenBody, cc \in Nat : Lasting(oo, cc)
  BY <1>13, GrowingLasts
<1>15. ChannelsAreNamed'
  <2>1. \A meta \in channel_meta' :
          \E named \in dm_pairs' : named.channel_id = meta.channel_id /\ named.pair = meta.members
    BY <1>7, <1>9, <1>10 DEF ChannelsAreNamed, CompleteDm, channels
  <2>2. [channel_id |-> done.channel_id, members |-> done.pair] \in channel_meta
    BY <1>2, <1>7, <1>9 DEF HasBoth
  <2>3. \A named \in dm_pairs' : named.status = "active" =>
          [channel_id |-> named.channel_id, members |-> named.pair] \in channel_meta'
    BY <1>10, <2>2 DEF ChannelsAreNamed, CompleteDm, channels
  <2> QED
    BY <2>1, <2>3 DEF ChannelsAreNamed
<1>16. KeysAreTrue'
  BY <1>14, KeysStay DEF CompleteDm
<1>17. RequestIsTrue(r)'
  <2>1. Standing(o)' /\ Names(o, c)' /\ HasBoth(o, c)'
    BY <1>1, <1>2, <1>14 DEF Lasting, DTypeOK, Channels
  <2>2. CASE dm_pairs' = (dm_pairs \ {row}) \cup {done}
    BY <1>5, <1>7, <1>9, <2>1, <2>2 DEF RequestIsTrue, Active
  <2>3. CASE dm_pairs' = dm_pairs /\ Active(o)
    <3>1. Active(o)'
      BY <2>3 DEF Active
    <3> QED
      BY <1>5, <2>1, <3>1 DEF RequestIsTrue
  <2> QED
    BY <1>10, <2>2, <2>3
<1>18. \A g \in Handlers : Untouched(g) \/ RequestIsTrue(handler[g])'
  BY <1>6, <1>17, OneMoves
<1> QED
  BY <1>11, <1>12, <1>13, <1>15, <1>16, <1>18, GrowingStep DEF CompleteDm

-----------------------------------------------------------------------------
(* The theorems.                                                           *)

LEMMA StutterInv == DmIInv /\ UNCHANGED dvars => DmIInv'
<1> SUFFICES ASSUME DmIInv, UNCHANGED dvars PROVE DmIInv'
  OBVIOUS
<1>1. DTypeOK'
  BY Parts DEF dvars, channels, DTypeOK, Request, Channels, KeyRow, PairRow
<1> QED
  BY <1>1, QuietStep DEF dvars, channels, Untouched

LEMMA StepInv == DmIInv /\ [DNext]_dvars => DmIInv'
<1> SUFFICES ASSUME DmIInv, DNext PROVE DmIInv'
  BY StutterInv
<1> QED
  BY BeginInv, ReserveInv, GetOrCreateInv, CreateInv, CompleteInv, StoreInv, ReplyInv,
     LostInv, ArmInv, EvictedInv, DeliverInv DEF DNext, GoesOn

LEMMA Inductive == DSpec => []DmIInv
<1> QED
  BY InitInv, StepInv, PTL DEF DSpec

\* The three objects of an opening, and the requests between them, agree at
\* all times (DMDirectory, ChatChannel.createDm, UserDirectory.openDm).
THEOREM ObjectsAgree == DSpec => []DmInv
<1>1. DmIInv => DmInv
  BY DEF DmIInv
<1> QED
  BY <1>1, Inductive, PTL

\* An answer of POST /api/chat/dms is given for a DM that is complete in all
\* three objects.
THEOREM AnswersAreOpen == DSpec => []AnsweredIsOpen
<1>1. DmIInv => AnsweredIsOpen
  BY DEF DmIInv
<1> QED
  BY <1>1, Inductive, PTL

\* However many requests open the DM of two users, under whatever keys and
\* with whatever lost, there is one channel of the two.
THEOREM PairsHaveOneDm == DSpec => []OneDmPerPair
<1>1. DmIInv => OneDmPerPair
  <2> SUFFICES ASSUME DmIInv PROVE OneDmPerPair
    OBVIOUS
  <2> USE Parts
  <2>1. ASSUME NEW a \in answers, NEW b \in answers
        PROVE  ({a.open.user, a.open.recipient} = {b.open.user, b.open.recipient})
                 <=> (a.channel_id = b.channel_id)
    <3>1. PICK m \in dm_pairs : /\ m.pair = {a.open.user, a.open.recipient}
                               /\ m.channel_id = a.channel_id
      BY DEF AnswersAreTrue, Names
    <3>2. PICK n \in dm_pairs : /\ n.pair = {b.open.user, b.open.recipient}
                               /\ n.channel_id = b.channel_id
      BY DEF AnswersAreTrue, Names
    <3>3. m.pair = n.pair <=> m.channel_id = n.channel_id
      BY <3>1, <3>2 DEF OneRow
    <3> QED
      BY ONLY <3>1, <3>2, <3>3
  <2>2. ASSUME NEW m \in channel_meta, NEW n \in channel_meta, m.members = n.members
        PROVE  m = n
    <3>1. m.channel_id = n.channel_id
      BY <2>2 DEF ChannelsAreNamed, OneRow
    <3> QED
      BY <2>2, <3>1 DEF DTypeOK
  <2> QED
    BY <2>1, <2>2 DEF OneDmPerPair
<1> QED
  BY <1>1, Inductive, PTL

\* An operation key of a user is answered for one recipient and one channel.
THEOREM KeysMeanOneRecipient == DSpec => []KeyMeansRecipient
<1>1. DmIInv => KeyMeansRecipient
  <2> SUFFICES ASSUME DmIInv, NEW a \in answers, NEW b \in answers,
                      a.open.user = b.open.user, a.open.key = b.open.key
               PROVE  a = b
    BY DEF KeyMeansRecipient
  <2> USE Parts
  <2>1. a.open \in OpenBody /\ b.open \in OpenBody
    BY DmAssumption DEF DTypeOK
  <2>2. a.open.recipient = b.open.recipient
    BY DEF AnswersAreTrue, Standing, Row
  <2>3. a.open = b.open
    BY <2>1, <2>2 DEF OpenBody
  <2>4. a.channel_id = b.channel_id
    <3>1. PICK m \in dm_pairs : /\ m.pair = {a.open.user, a.open.recipient}
                               /\ m.channel_id = a.channel_id
      BY DEF AnswersAreTrue, Names
    <3>2. PICK n \in dm_pairs : /\ n.pair = {a.open.user, a.open.recipient}
                               /\ n.channel_id = b.channel_id
      BY <2>3 DEF AnswersAreTrue, Names
    <3> QED
      BY <3>1, <3>2 DEF OneRow
  <2> QED
    BY <2>3, <2>4 DEF DTypeOK
<1> QED
  BY <1>1, Inductive, PTL

-----------------------------------------------------------------------------
(***************************************************************************)
(* For any keys, slots, number of uploads and faults: an image that was    *)
(* finalized before the alarm's handler took it up keeps its object and    *)
(* its row, and a key of a presign names one upload.  The argument: an     *)
(* object is deleted only for a row the handler holds, it takes up pending *)
(* rows only, and a finalize that is about to commit has seen the object   *)
(* of a row that is pending and that the handler does not hold.            *)
(***************************************************************************)

\* The smallest of some natural numbers exists.
LEMMA EarliestIsOne ==
  ASSUME NEW S \in SUBSET Nat, S # {}
  PROVE  Earliest(S) \in S
<1>1. IsWellFoundedOn(OpToRel(<, Nat), Nat)
  BY NatLessThanWellFounded
<1>2. PICK x \in S : \A y \in S : ~ (<<y, x>> \in OpToRel(<, Nat))
  BY <1>1, WFMin
<1>3. \A y \in S : ~(y < x)
  BY <1>2 DEF OpToRel
<1>4. \E i \in S : \A j \in S : i <= j
  BY <1>3
<1> QED
  BY <1>4 DEF Earliest

LEMMA ArmedIsDue ==
  ASSUME UTypeOK
  PROVE  Armed(due) \in 0 .. MaxUploads
<1> DEFINE pending == {i \in Ids : attachments[i] = "pending"}
<1>1. CASE pending = {}
  BY <1>1, UploadAssumption DEF Armed
<1>2. CASE pending # {}
  <2>1. pending \in SUBSET Nat
    BY UploadAssumption DEF Ids
  <2>2. Earliest(pending) \in pending
    BY <1>2, <2>1, EarliestIsOne
  <2>3. Earliest(pending) \in 0 .. MaxUploads
    BY <2>2, UploadAssumption DEF Ids
  <2> QED
    BY <1>2, <2>3, UploadAssumption DEF Armed, UTypeOK
<1> QED
  BY <1>1, <1>2

-----------------------------------------------------------------------------
(* The inductive invariant.                                                *)

UploadHandler == {NoUpload}
                   \cup [at : {"signing", "arming"}, key : UploadKeys, of : Ids]
                   \cup [at : {"checking", "committing", "leaving"}, key : {"none"}, of : Ids]

\* Ids are minted in order, and nothing is under way for one that is not.
Minted == /\ \A i \in Ids : i > attachment_seq => attachments[i] = "none"
          /\ \A h \in UploadTasks : upload[h].of <= attachment_seq
          /\ \A k \in UploadKeys : presign_keys[k].status # "none" =>
                                     presign_keys[k].of \in 1 .. attachment_seq

\* The alarm's handler deletes the row of an upload it holds.
SweepHolds == /\ sweep.at = "deleted" => sweep.of \in sweep.rows
              /\ sweep.rows \subseteq Ids

KeptStays == \A i \in kept : /\ attachments[i] = "finalized" /\ i \in objects
                             /\ i \notin sweep.rows

\* What a finalize saw of the store is still so when it commits.
SeenStays == \A h \in UploadTasks :
               /\ upload[h].at = "committing"
               /\ attachments[upload[h].of] = "pending"
               /\ upload[h].of \notin sweep.rows
               => upload[h].of \in objects

\* Answers and handlers of a key carry the id of the key's row.
KeyIs(k, i) == presign_keys[k].status # "none" /\ presign_keys[k].of = i

PresignKeysAreTrue ==
  /\ \A o \in offered : KeyIs(o[1], o[2])
  /\ \A h \in UploadTasks : upload[h].at \in {"signing", "arming"} =>
                              KeyIs(upload[h].key, upload[h].of)

Sweep == [at : {"idle", "next", "deleted"}, fired : 0 .. MaxUploads,
          of : 0 .. MaxUploads, rows : SUBSET Ids]

UIInv == UTypeOK /\ Minted /\ SweepHolds /\ KeptStays /\ SeenStays /\ PresignKeysAreTrue

LEMMA UploadsImplied == UIInv => FinalizedStays /\ KeysNameOneUpload
<1>1. KeptStays => FinalizedStays
  BY DEF KeptStays, FinalizedStays
<1>2. PresignKeysAreTrue => KeysNameOneUpload
  BY DEF PresignKeysAreTrue, KeysNameOneUpload, KeyIs
<1> QED
  BY <1>1, <1>2 DEF UIInv

LEMMA UploadsInitially == UInit => UIInv
<1> SUFFICES ASSUME UInit PROVE UIInv
  OBVIOUS
<1> USE DEF UInit
<1>1. UTypeOK
  BY UploadAssumption DEF UTypeOK, Ids, NoPresign, NoUpload, NoSweep
<1>2. Minted /\ SweepHolds
  BY UploadAssumption DEF Minted, SweepHolds, Ids, NoUpload, NoSweep, NoPresign
<1>3. KeptStays /\ SeenStays /\ PresignKeysAreTrue
  BY DEF KeptStays, SeenStays, PresignKeysAreTrue, NoUpload
<1> QED
  BY <1>1, <1>2, <1>3 DEF UIInv

-----------------------------------------------------------------------------
(* What a handler carries.                                                 *)

LEMMA AtPresign ==
  ASSUME UTypeOK, NEW h \in UploadTasks, upload[h].at \in {"signing", "arming"}
  PROVE  upload[h] \in [at : {"signing", "arming"}, key : UploadKeys, of : Ids]
<1>1. upload[h] \in UploadHandler
  BY DEF UTypeOK, UploadHandler
<1> QED
  BY <1>1 DEF UploadHandler, NoUpload

LEMMA AtFinalize ==
  ASSUME UTypeOK, NEW h \in UploadTasks,
         upload[h].at \in {"checking", "committing", "leaving"}
  PROVE  upload[h] \in [at : {"checking", "committing", "leaving"}, key : {"none"}, of : Ids]
<1>1. upload[h] \in UploadHandler
  BY DEF UTypeOK, UploadHandler
<1> QED
  BY <1>1 DEF UploadHandler, NoUpload

-----------------------------------------------------------------------------
(* Presigning.                                                             *)

LEMMA PresignKeeps ==
  ASSUME UIInv, NEW h \in UploadTasks, NEW k \in UploadKeys, Presign(h, k)
  PROVE  UIInv'
<1> DEFINE row == presign_keys[k]
           new == attachment_seq + 1
<1> USE UploadAssumption DEF UIInv, Ids
<1>1. CASE /\ row.status = "none"
           /\ attachment_seq < MaxUploads
           /\ attachment_seq' = new
           /\ attachments' = [attachments EXCEPT ![new] = "pending"]
           /\ presign_keys' = [presign_keys EXCEPT ![k] = [status |-> "pending", of |-> new]]
           /\ upload' = [upload EXCEPT ![h] = [at |-> "signing", key |-> k, of |-> new]]
  <2> USE <1>1 DEF Presign
  <2>1. new \in Ids /\ attachments[new] = "none"
    BY DEF UTypeOK, Minted
  <2>2. UTypeOK'
    <3>1. upload' \in [UploadTasks -> UploadHandler]
      BY <2>1 DEF UTypeOK, UploadHandler
    <3>2. presign_keys' \in [UploadKeys -> [status : {"none", "pending", "completed"},
                                            of : 0 .. MaxUploads]]
      BY <2>1 DEF UTypeOK
    <3> QED
      BY <2>1, <3>1, <3>2 DEF UTypeOK, UploadHandler
  <2>3. Minted'
    <3>1. \A i \in Ids : i > attachment_seq' => attachments'[i] = "none"
      BY <2>1 DEF Minted, UTypeOK
    <3>2. \A t \in UploadTasks : upload'[t].of <= attachment_seq'
      BY <2>1 DEF Minted, UTypeOK, NoUpload
    <3>3. \A j \in UploadKeys : presign_keys'[j].status # "none" =>
                                   presign_keys'[j].of \in 1 .. attachment_seq'
      BY <2>1 DEF Minted, UTypeOK
    <3> QED
      BY <3>1, <3>2, <3>3 DEF Minted
  <2>4. SweepHolds' /\ KeptStays'
    BY <2>1 DEF SweepHolds, KeptStays, UTypeOK
  <2>5. SeenStays'
    <3> SUFFICES ASSUME NEW t \in UploadTasks, upload'[t].at = "committing",
                        attachments'[upload'[t].of] = "pending", upload'[t].of \notin sweep.rows
                 PROVE  upload'[t].of \in objects
      BY DEF SeenStays
    <3>1. t # h /\ upload'[t] = upload[t] /\ upload[t].of # new
      BY DEF UTypeOK, Minted
    <3> QED
      BY <3>1 DEF SeenStays, UTypeOK
  <2>6. PresignKeysAreTrue'
    <3>1. presign_keys'[k] = [status |-> "pending", of |-> new]
      BY DEF UTypeOK
    <3>2. \A j \in UploadKeys : j # k => presign_keys'[j] = presign_keys[j]
      BY DEF UTypeOK
    <3>3. \A j \in UploadKeys : \A i : KeyIs(j, i) => j # k /\ KeyIs(j, i)'
      BY <3>2 DEF KeyIs
    <3>4. \A o \in offered' : o[1] \in UploadKeys /\ KeyIs(o[1], o[2])
      BY DEF PresignKeysAreTrue, UTypeOK
    <3>5. ASSUME NEW t \in UploadTasks, upload'[t].at \in {"signing", "arming"}
          PROVE  KeyIs(upload[t].key, upload[t].of)' \/ t = h
      <4>1. CASE t # h
        <5>1. upload'[t] = upload[t]
          BY <4>1 DEF UTypeOK
        <5>2. upload[t].key \in UploadKeys
          BY <3>5, <5>1, AtPresign
        <5>3. KeyIs(upload[t].key, upload[t].of)
          BY <3>5, <5>1 DEF PresignKeysAreTrue
        <5> QED
          BY <3>3, <5>1, <5>2, <5>3 DEF KeyIs
      <4> QED
        BY <4>1
    <3>6. upload'[h] = [at |-> "signing", key |-> k, of |-> new]
      BY DEF UTypeOK
    <3> QED
      BY <3>1, <3>3, <3>4, <3>5, <3>6 DEF PresignKeysAreTrue, KeyIs
  <2> QED
    BY <2>2, <2>3, <2>4, <2>5, <2>6
<1>2. CASE /\ row.status = "pending"
           /\ attachments[row.of] # "none"
           /\ upload' = [upload EXCEPT ![h] = [at |-> "signing", key |-> k, of |-> row.of]]
           /\ UNCHANGED <<attachment_seq, attachments, presign_keys>>
  <2> USE <1>2 DEF Presign
  <2>1. row.of \in Ids /\ row.of <= attachment_seq
    BY DEF UTypeOK, Minted
  <2>2. UTypeOK'
    BY <2>1 DEF UTypeOK
  <2>3. Minted' /\ SweepHolds' /\ KeptStays'
    BY <2>1 DEF Minted, SweepHolds, KeptStays, UTypeOK
  <2>4. SeenStays'
    BY DEF SeenStays, UTypeOK
  <2>5. PresignKeysAreTrue'
    BY DEF PresignKeysAreTrue, KeyIs, UTypeOK
  <2> QED
    BY <2>2, <2>3, <2>4, <2>5
<1> QED
  BY <1>1, <1>2 DEF Presign

-----------------------------------------------------------------------------
(* A handler goes on.                                                      *)

\* A handler that ends, or goes on with its upload, leaves ids as they are.
LEMMA MintedStays ==
  ASSUME UTypeOK, Minted, UNCHANGED attachment_seq,
         \A i \in Ids : attachments[i] = "none" => attachments'[i] = "none",
         \A k \in UploadKeys : /\ presign_keys'[k].of = presign_keys[k].of
                               /\ presign_keys'[k].status = "none" <=>
                                    presign_keys[k].status = "none",
         \A h \in UploadTasks : upload'[h].of = upload[h].of \/ upload'[h] = NoUpload
  PROVE  Minted'
<1>1. attachment_seq \in Nat
  BY UploadAssumption DEF UTypeOK
<1>2. \A h \in UploadTasks : upload'[h].of <= attachment_seq
  BY <1>1 DEF Minted, NoUpload
<1>3. \A i \in Ids : i > attachment_seq => attachments'[i] = "none"
  BY DEF Minted
<1>4. \A k \in UploadKeys : presign_keys'[k].status # "none" =>
                              presign_keys'[k].of \in 1 .. attachment_seq
  BY DEF Minted
<1> QED
  BY <1>2, <1>3, <1>4 DEF Minted

LEMMA SignedKeeps ==
  ASSUME UIInv, NEW h \in UploadTasks, Signed(h)
  PROVE  UIInv'
<1> USE UploadAssumption DEF UIInv, Ids, Signed
<1>1. upload[h] \in [at : {"signing", "arming"}, key : UploadKeys, of : Ids]
  BY AtPresign
<1>2. /\ presign_keys[upload[h].key].status # "none"
      /\ presign_keys[upload[h].key].of = upload[h].of
  BY DEF PresignKeysAreTrue, KeyIs
<1>3. \A k \in UploadKeys : /\ presign_keys'[k].of = presign_keys[k].of
                            /\ presign_keys'[k].status = "none" <=> presign_keys[k].status = "none"
  BY <1>1, <1>2 DEF UTypeOK
<1>4. /\ upload'[h] = [at |-> "arming", key |-> upload[h].key, of |-> upload[h].of]
      /\ \A t \in UploadTasks : t # h => upload'[t] = upload[t]
  BY <1>1 DEF UTypeOK
<1>5. UTypeOK'
  <2>1. upload' \in [UploadTasks -> UploadHandler]
    BY <1>1 DEF UTypeOK, UploadHandler
  <2>2. presign_keys' \in [UploadKeys -> [status : {"none", "pending", "completed"},
                                          of : 0 .. MaxUploads]]
    BY <1>1 DEF UTypeOK
  <2> QED
    BY <2>1, <2>2 DEF UTypeOK, UploadHandler
<1>6. Minted' /\ SweepHolds' /\ KeptStays'
  BY <1>3, <1>4, MintedStays DEF SweepHolds, KeptStays
<1>7. SeenStays'
  BY <1>4 DEF SeenStays
<1>8. PresignKeysAreTrue'
  <2>1. \A k \in UploadKeys : \A i : KeyIs(k, i) => KeyIs(k, i)'
    BY <1>3 DEF KeyIs
  <2>2. \A o \in offered : o[1] \in UploadKeys
    BY DEF UTypeOK
  <2>3. ASSUME NEW t \in UploadTasks, upload'[t].at \in {"signing", "arming"}
        PROVE  upload'[t].key \in UploadKeys /\ KeyIs(upload'[t].key, upload'[t].of)
    <3>1. CASE t = h
      BY <1>1, <1>2, <1>4, <3>1 DEF KeyIs
    <3>2. CASE t # h
      BY <1>4, <2>3, <3>2, SMTT(30) DEF PresignKeysAreTrue, UTypeOK, NoUpload
    <3> QED
      BY <3>1, <3>2
  <2> QED
    BY <2>1, <2>2, <2>3 DEF PresignKeysAreTrue, KeyIs
<1> QED
  BY <1>5, <1>6, <1>7, <1>8

LEMMA PresignedKeeps ==
  ASSUME UIInv, NEW h \in UploadTasks, Presigned(h)
  PROVE  UIInv'
<1> USE UploadAssumption DEF UIInv, Ids, Presigned
<1>1. upload[h] \in [at : {"signing", "arming"}, key : UploadKeys, of : Ids]
  BY AtPresign
<1>2. \A t \in UploadTasks : upload'[t] = upload[t] \/ upload'[t] = NoUpload
  BY DEF UTypeOK
<1>3. due' \in 0 .. MaxUploads
  BY ArmedIsDue
<1>4. UTypeOK'
  BY <1>1, <1>3 DEF UTypeOK
<1>5. Minted' /\ SweepHolds' /\ KeptStays' /\ SeenStays'
  BY <1>2, MintedStays DEF SweepHolds, KeptStays, SeenStays, NoUpload
<1>6. PresignKeysAreTrue'
  BY <1>2 DEF PresignKeysAreTrue, KeyIs, NoUpload
<1> QED
  BY <1>4, <1>5, <1>6

-----------------------------------------------------------------------------
(* The client and a finalize.                                              *)

LEMMA PutKeeps ==
  ASSUME UIInv, NEW i \in Ids, Put(i)
  PROVE  UIInv'
<1>1. UTypeOK' /\ SweepHolds' /\ KeptStays'
  BY DEF UIInv, Put, UTypeOK, SweepHolds, KeptStays
<1>2. Minted' /\ SeenStays' /\ PresignKeysAreTrue'
  BY DEF UIInv, Put, Minted, SeenStays, PresignKeysAreTrue, KeyIs
<1> QED
  BY <1>1, <1>2 DEF UIInv

LEMMA FinalizeKeeps ==
  ASSUME UIInv, NEW h \in UploadTasks, NEW i \in Ids, Finalize(h, i)
  PROVE  UIInv'
<1> USE UploadAssumption DEF UIInv, Ids, Finalize
<1>1. /\ upload'[h] = [at |-> "checking", key |-> "none", of |-> i]
      /\ \A t \in UploadTasks : t # h => upload'[t] = upload[t]
  BY DEF UTypeOK
<1>2. i <= attachment_seq
  BY DEF Minted, UTypeOK
<1>3. UTypeOK'
  BY DEF UTypeOK
<1>4. Minted' /\ SweepHolds' /\ KeptStays'
  BY <1>1, <1>2 DEF Minted, SweepHolds, KeptStays
<1>5. SeenStays' /\ PresignKeysAreTrue'
  BY <1>1 DEF SeenStays, PresignKeysAreTrue, KeyIs
<1> QED
  BY <1>3, <1>4, <1>5

LEMMA CheckedKeeps ==
  ASSUME UIInv, NEW h \in UploadTasks, Checked(h)
  PROVE  UIInv'
<1> USE UploadAssumption DEF UIInv, Ids, Checked
<1>1. /\ upload[h] = [at |-> "checking", key |-> "none", of |-> upload[h].of]
      /\ upload[h].of \in Ids
  BY AtFinalize
<1>2. /\ \/ /\ upload[h].of \in objects
            /\ upload'[h] = [at |-> "committing", key |-> "none", of |-> upload[h].of]
         \/ upload'[h] = NoUpload
      /\ \A t \in UploadTasks : t # h => upload'[t] = upload[t]
  BY <1>1 DEF UTypeOK
<1>3. UTypeOK'
  <2>1. upload' \in [UploadTasks -> UploadHandler]
    BY <1>1, <1>2 DEF UTypeOK, UploadHandler
  <2> QED
    BY <2>1 DEF UTypeOK, UploadHandler
<1>4. Minted' /\ SweepHolds' /\ KeptStays'
  BY <1>2, MintedStays DEF SweepHolds, KeptStays
<1>5. SeenStays' /\ PresignKeysAreTrue'
  BY <1>2 DEF SeenStays, PresignKeysAreTrue, KeyIs, NoUpload
<1> QED
  BY <1>3, <1>4, <1>5

\* The row that is marked is pending and not the alarm's handler's: its
\* object is there.
LEMMA CommitFinalizeKeeps ==
  ASSUME UIInv, NEW h \in UploadTasks, CommitFinalize(h)
  PROVE  UIInv'
<1> DEFINE i == upload[h].of
<1> USE UploadAssumption DEF UIInv, Ids, CommitFinalize
<1>1. upload[h] = [at |-> "committing", key |-> "none", of |-> i] /\ i \in Ids
  BY AtFinalize
<1>2. /\ \/ upload'[h] = [at |-> "leaving", key |-> "none", of |-> i]
         \/ upload'[h] = NoUpload
      /\ \A t \in UploadTasks : t # h => upload'[t] = upload[t]
  BY <1>1 DEF UTypeOK
<1>3. \/ attachments' = attachments /\ kept' = kept
      \/ /\ attachments[i] # "none"
         /\ attachments' = [attachments EXCEPT ![i] = "finalized"]
         /\ \/ kept' = kept
            \/ /\ kept' = kept \cup {i}
               /\ attachments[i] = "pending" /\ i \notin sweep.rows
  <2>1. CASE attachments[i] = "none"
    BY <2>1
  <2>2. CASE attachments[i] # "none"
    BY <2>2
  <2> QED
    BY <2>1, <2>2
<1>4. UTypeOK'
  <2>1. upload' \in [UploadTasks -> UploadHandler]
    <3>1. upload'[h] \in UploadHandler
      BY <1>1, <1>2 DEF UploadHandler
    <3>2. \A t \in UploadTasks : t # h => upload'[t] \in UploadHandler
      BY <1>2 DEF UTypeOK, UploadHandler
    <3>3. upload' = [t \in UploadTasks |-> upload'[t]]
      BY DEF UTypeOK
    <3> QED
      BY <3>1, <3>2, <3>3
  <2>2. attachments' \in [Ids -> {"none", "pending", "finalized"}] /\ kept' \subseteq Ids
    BY <1>1, <1>3 DEF UTypeOK
  <2> QED
    BY <2>1, <2>2 DEF UTypeOK, UploadHandler
<1>5. \A j \in Ids : \/ attachments'[j] = attachments[j]
                     \/ j = i /\ attachments[j] # "none" /\ attachments'[j] = "finalized"
  BY <1>3 DEF UTypeOK
<1>6. Minted' /\ SweepHolds'
  <2>1. \A j \in Ids : attachments[j] = "none" => attachments'[j] = "none"
    BY <1>5
  <2> QED
    BY <1>1, <1>2, <2>1, MintedStays DEF SweepHolds
<1>7. KeptStays'
  <2> SUFFICES ASSUME NEW j \in kept'
               PROVE  attachments'[j] = "finalized" /\ j \in objects /\ j \notin sweep.rows
    BY DEF KeptStays
  <2>1. CASE j \in kept
    BY <1>5, <2>1 DEF KeptStays, UTypeOK
  <2>2. CASE j \notin kept
    <3>1. j = i /\ attachments[i] = "pending" /\ i \notin sweep.rows
      BY <1>3, <2>2
    <3>2. i \in objects
      BY <1>1, <3>1 DEF SeenStays
    <3> QED
      BY <1>1, <1>3, <2>2, <3>1, <3>2 DEF UTypeOK
  <2> QED
    BY <2>1, <2>2
<1>8. SeenStays'
  <2> SUFFICES ASSUME NEW t \in UploadTasks, upload'[t].at = "committing",
                      attachments'[upload'[t].of] = "pending", upload'[t].of \notin sweep.rows
               PROVE  upload'[t].of \in objects
    BY DEF SeenStays
  <2>1. t # h /\ upload'[t] = upload[t] /\ upload[t].of \in Ids
    BY <1>2 DEF UTypeOK, NoUpload
  <2>2. attachments[upload[t].of] = "pending"
    BY <1>5, <2>1
  <2> QED
    BY <2>1, <2>2 DEF SeenStays
<1>9. PresignKeysAreTrue'
  BY <1>2 DEF PresignKeysAreTrue, KeyIs, NoUpload
<1> QED
  BY <1>4, <1>6, <1>7, <1>8, <1>9

LEMMA FinalizedKeeps ==
  ASSUME UIInv, NEW h \in UploadTasks, Finalized(h)
  PROVE  UIInv'
<1> USE UploadAssumption DEF UIInv, Ids, Finalized
<1>1. \A t \in UploadTasks : upload'[t] = upload[t] \/ upload'[t] = NoUpload
  BY DEF UTypeOK
<1>2. due' \in 0 .. MaxUploads
  BY ArmedIsDue
<1>3. UTypeOK'
  BY <1>2 DEF UTypeOK
<1>4. Minted' /\ SweepHolds' /\ KeptStays' /\ SeenStays'
  BY <1>1, MintedStays DEF SweepHolds, KeptStays, SeenStays, NoUpload
<1>5. PresignKeysAreTrue'
  BY <1>1 DEF PresignKeysAreTrue, KeyIs, NoUpload
<1> QED
  BY <1>3, <1>4, <1>5

-----------------------------------------------------------------------------
(* Time and the alarm.                                                     *)

LEMMA ExpireKeeps ==
  ASSUME UIInv, NEW i \in Ids, Expire(i)
  PROVE  UIInv'
<1>1. UTypeOK' /\ SweepHolds' /\ KeptStays'
  BY DEF UIInv, Expire, UTypeOK, SweepHolds, KeptStays
<1>2. Minted' /\ SeenStays' /\ PresignKeysAreTrue'
  BY DEF UIInv, Expire, Minted, SeenStays, PresignKeysAreTrue, KeyIs
<1> QED
  BY <1>1, <1>2 DEF UIInv

\* It takes up pending rows, so none that is kept.
LEMMA AlarmFiresKeeps ==
  ASSUME UIInv, AlarmFires
  PROVE  UIInv'
<1> USE DEF UIInv, AlarmFires
<1>1. sweep.rows = {}
  BY DEF NoSweep
<1>2. UTypeOK'
  <2>1. {i \in expired : IsDue(i)} \subseteq Ids
    BY DEF UTypeOK
  <2>2. sweep' \in Sweep /\ due' \in 0 .. MaxUploads
    BY <2>1, UploadAssumption DEF UTypeOK, Sweep
  <2> QED
    BY <2>2 DEF UTypeOK, Sweep
<1>3. Minted' /\ PresignKeysAreTrue'
  BY DEF Minted, PresignKeysAreTrue, KeyIs
<1>4. SweepHolds' /\ KeptStays'
  BY DEF SweepHolds, KeptStays, IsDue, UTypeOK
<1>5. SeenStays'
  BY <1>1 DEF SeenStays
<1> QED
  BY <1>2, <1>3, <1>4, <1>5

LEMMA DeleteObjectKeeps ==
  ASSUME UIInv, DeleteObject
  PROVE  UIInv'
<1> USE DEF UIInv, DeleteObject
<1>1. PICK i \in sweep.rows :
        /\ sweep' = [sweep EXCEPT !.at = "deleted", !.of = i]
        /\ objects' = objects \ {i} \/ objects' = objects
        /\ upload_faults' = upload_faults \/ upload_faults' = upload_faults + 1
  OBVIOUS
<1>2. i \in Ids /\ sweep'.rows = sweep.rows /\ sweep'.of = i
  BY <1>1 DEF SweepHolds, UTypeOK
<1>3. UTypeOK'
  <2>1. sweep' \in Sweep
    <3>1. sweep \in Sweep
      BY DEF UTypeOK, Sweep
    <3>2. sweep' = [at |-> "deleted", fired |-> sweep.fired, of |-> i, rows |-> sweep.rows]
      BY <1>1, <3>1 DEF Sweep
    <3>3. i \in 0 .. MaxUploads
      BY <1>2, UploadAssumption DEF Ids
    <3> QED
      BY <3>1, <3>2, <3>3 DEF Sweep
  <2>2. objects' \subseteq Ids /\ upload_faults' \in Nat
    BY <1>1 DEF UTypeOK
  <2> QED
    BY <2>1, <2>2 DEF UTypeOK, Sweep
<1>4. Minted' /\ PresignKeysAreTrue'
  BY DEF Minted, PresignKeysAreTrue, KeyIs
<1>5. SweepHolds' /\ KeptStays'
  BY <1>1, <1>2 DEF SweepHolds, KeptStays
<1>6. SeenStays'
  BY <1>1, <1>2 DEF SeenStays
<1> QED
  BY <1>3, <1>4, <1>5, <1>6

LEMMA DeleteRowKeeps ==
  ASSUME UIInv, DeleteRow
  PROVE  UIInv'
<1> DEFINE i == sweep.of
<1> USE DEF UIInv, DeleteRow
<1>1. i \in sweep.rows /\ i \in Ids
  BY DEF SweepHolds
<1>2. /\ attachments'[i] # "pending"
      /\ attachments'[i] = "none" \/ attachments'[i] = attachments[i]
      /\ \A j \in Ids : j # i => attachments'[j] = attachments[j]
  BY <1>1 DEF UTypeOK
<1>3. sweep'.at = "next" /\ sweep'.rows = sweep.rows \ {i}
  BY DEF UTypeOK
<1>4. UTypeOK'
  <2>1. attachments' \in [Ids -> {"none", "pending", "finalized"}]
    BY DEF UTypeOK
  <2>2. sweep \in Sweep
    BY DEF UTypeOK, Sweep
  <2>3. sweep' = [at |-> "next", fired |-> sweep.fired, of |-> 0, rows |-> sweep.rows \ {i}]
    BY <2>2 DEF Sweep
  <2>4. sweep' \in Sweep
    BY <2>2, <2>3, UploadAssumption DEF Sweep
  <2> QED
    BY <2>1, <2>4 DEF UTypeOK, Sweep
<1>5. Minted'
  BY <1>2, MintedStays
<1>6. SweepHolds' /\ KeptStays'
  BY <1>1, <1>2, <1>3 DEF SweepHolds, KeptStays, UTypeOK
<1>7. SeenStays'
  <2> SUFFICES ASSUME NEW t \in UploadTasks, upload[t].at = "committing",
                      attachments'[upload[t].of] = "pending", upload[t].of \notin sweep'.rows
               PROVE  upload[t].of \in objects
    BY DEF SeenStays
  <2>1. upload[t].of \in Ids
    BY AtFinalize
  <2>2. upload[t].of # i /\ attachments[upload[t].of] = "pending"
    BY <1>2, <2>1
  <2> QED
    BY <1>3, <2>2 DEF SeenStays
<1>8. PresignKeysAreTrue'
  BY DEF PresignKeysAreTrue, KeyIs
<1> QED
  BY <1>4, <1>5, <1>6, <1>7, <1>8

LEMMA SweepEndsKeeps ==
  ASSUME UIInv, SweepEnds
  PROVE  UIInv'
<1> USE DEF UIInv, SweepEnds
<1>1. due' \in 0 .. MaxUploads
  BY ArmedIsDue DEF Rearmed
<1>2. sweep' = NoSweep
  OBVIOUS
<1>3. UTypeOK'
  BY <1>1, <1>2, UploadAssumption DEF UTypeOK, NoSweep
<1>4. Minted' /\ PresignKeysAreTrue'
  BY DEF Minted, PresignKeysAreTrue, KeyIs
<1>5. SweepHolds' /\ KeptStays' /\ SeenStays'
  BY <1>2 DEF SweepHolds, KeptStays, SeenStays, NoSweep
<1> QED
  BY <1>3, <1>4, <1>5

\* No handler is left that saw an object, so one the alarm's handler has
\* deleted is missed by nobody.
LEMMA EvictKeeps ==
  ASSUME UIInv, EvictUploads
  PROVE  UIInv'
<1> USE DEF UIInv, EvictUploads
<1>1. \A t \in UploadTasks : upload'[t] = NoUpload
  OBVIOUS
<1>2. sweep' = NoSweep /\ due' \in 0 .. MaxUploads
  BY DEF UTypeOK
<1>3. unarmed' \subseteq Ids
  BY AtPresign DEF UTypeOK
<1>4. UTypeOK'
  BY <1>1, <1>2, <1>3, UploadAssumption DEF UTypeOK, NoSweep
<1>5. Minted'
  BY <1>1, MintedStays
<1>6. SweepHolds' /\ KeptStays' /\ SeenStays' /\ PresignKeysAreTrue'
  BY <1>1, <1>2 DEF SweepHolds, KeptStays, SeenStays, PresignKeysAreTrue, KeyIs, NoSweep, NoUpload
<1> QED
  BY <1>4, <1>5, <1>6

-----------------------------------------------------------------------------
(* The theorems.                                                           *)

LEMMA UploadsStepKeeps == UIInv /\ [UNext]_uvars => UIInv'
<1> SUFFICES ASSUME UIInv, [UNext]_uvars PROVE UIInv'
  OBVIOUS
<1>1. CASE \E h \in UploadTasks, k \in UploadKeys : Presign(h, k)
  BY <1>1, PresignKeeps
<1>2. CASE \E h \in UploadTasks, i \in Ids : Finalize(h, i)
  BY <1>2, FinalizeKeeps
<1>3. CASE \E h \in UploadTasks : UploadGoesOn(h)
  BY <1>3, SignedKeeps, PresignedKeeps, CheckedKeeps, CommitFinalizeKeeps, FinalizedKeeps
     DEF UploadGoesOn
<1>4. CASE \E i \in Ids : Put(i) \/ Expire(i)
  BY <1>4, PutKeeps, ExpireKeeps
<1>5. CASE SweepGoesOn
  BY <1>5, AlarmFiresKeeps, DeleteObjectKeeps, DeleteRowKeeps, SweepEndsKeeps DEF SweepGoesOn
<1>6. CASE EvictUploads
  BY <1>6, EvictKeeps
<1>7. CASE UNCHANGED uvars
  <2>1. UTypeOK' /\ Minted' /\ SweepHolds'
    BY <1>7 DEF UIInv, uvars, UTypeOK, Minted, SweepHolds
  <2>2. KeptStays' /\ SeenStays' /\ PresignKeysAreTrue'
    BY <1>7 DEF UIInv, uvars, KeptStays, SeenStays, PresignKeysAreTrue, KeyIs
  <2> QED
    BY <2>1, <2>2 DEF UIInv
<1> QED
  BY <1>1, <1>2, <1>3, <1>4, <1>5, <1>6, <1>7 DEF UNext

LEMMA UploadsInvariance == USpec => []UIInv
  BY UploadsInitially, UploadsStepKeeps, PTL DEF USpec

\* Type correctness of rows, objects, keys, handlers and the alarm.
THEOREM UTypeCorrect == USpec => []UTypeOK
<1>1. UIInv => UTypeOK
  BY DEF UIInv
<1> QED
  BY <1>1, UploadsInvariance, PTL

\* Finalized images keep their object and row: the alarm deletes nothing that
\* a finalize has answered as uploaded before the alarm's handler took it up.
THEOREM FinalizedImagesStay == USpec => []FinalizedStays
  BY UploadsImplied, UploadsInvariance, PTL

\* A retried presign never names a second upload.
THEOREM OneUploadPerKey == USpec => []KeysNameOneUpload
  BY UploadsImplied, UploadsInvariance, PTL

-----------------------------------------------------------------------------
(***************************************************************************)
(* For any images, requests, keys, slots and limit: a save has one effect, *)
(* and the id it was answered with keeps naming its image.  The argument:  *)
(* the transaction that changes the library writes the key's row too, no   *)
(* transaction changes it for a key that has one, and a row, once there,   *)
(* keeps its id.                                                           *)
(***************************************************************************)

SaveHandler == {NoSave} \cup [at : {"asking", "saving"}, request : SaveRequests]

SaveRow == {NotSaved} \cup [status : {"completed"}, request : SaveRequests,
                            sticker_id : StickerIds]

StickerRow == [sticker_id : 0 .. MaxStickerIds, deleted : BOOLEAN]

\* A key that has had its effect has its row.
EffectsAreStored == \A k \in SaveKeys :
  effects[k] <= 1 /\ (effects[k] # 0 => save_keys[k] # NotSaved)

\* An id is one image's.
IdsAreMinted ==
  /\ \A a \in Attachments : personal_stickers[a].sticker_id <= sticker_seq
  /\ \A a, b \in Attachments : /\ personal_stickers[a].sticker_id # 0
                               /\ personal_stickers[a].sticker_id = personal_stickers[b].sticker_id
                               => a = b

IdOf(r, id) == r \in SaveRequests /\ personal_stickers[r.attachment].sticker_id = id

\* Stored answers, and those that were given, name the row of their image.
SavedAnswersAreTrue ==
  /\ \A k \in SaveKeys : save_keys[k] # NotSaved =>
                           IdOf(save_keys[k].request, save_keys[k].sticker_id)
  /\ \A t \in told : IdOf(t[1], t[2])

SIInv == STypeOK /\ EffectsAreStored /\ IdsAreMinted /\ SavedAnswersAreTrue

LEMMA SaveTypes ==
  STypeOK <=> /\ personal_stickers \in [Attachments -> StickerRow]
              /\ sticker_seq \in 0 .. MaxStickerIds
              /\ save_keys \in [SaveKeys -> SaveRow]
              /\ delete_keys \in [DeleteKeys -> 0 .. MaxStickerIds]
              /\ saving \in [SaveTasks -> SaveHandler]
              /\ told \subseteq SaveRequests \X StickerIds
              /\ effects \in [SaveKeys -> Nat]
  BY DEF STypeOK, StickerRow, SaveRow, SaveHandler

LEMMA SaveRequestTypes ==
  ASSUME NEW r \in SaveRequests
  PROVE  r.attachment \in Attachments /\ r.key \in SaveKeys
  BY StickerAssumption DEF SaveKeys

LEMMA SavesImplied == SIInv => SaveOnce /\ ToldIdsStand
<1> SUFFICES ASSUME SIInv PROVE SaveOnce /\ ToldIdsStand
  OBVIOUS
<1>1. SaveOnce
  BY DEF SIInv, EffectsAreStored, SaveOnce
<1>2. ASSUME NEW t \in told, NEW a \in Attachments
      PROVE  personal_stickers[a].sticker_id = t[2] <=> a = t[1].attachment
  <2>1. t[1] \in SaveRequests /\ t[2] # 0
    BY DEF SIInv, STypeOK, StickerIds
  <2>2. t[1].attachment \in Attachments
    BY <2>1, SaveRequestTypes
  <2>3. personal_stickers[t[1].attachment].sticker_id = t[2]
    BY DEF SIInv, SavedAnswersAreTrue, IdOf
  <2> QED
    BY <2>1, <2>2, <2>3 DEF SIInv, IdsAreMinted
<1>3. ToldIdsStand
  BY <1>2, Zenon DEF ToldIdsStand
<1> QED
  BY <1>1, <1>3

LEMMA SavesInitially == SInit => SIInv
<1> SUFFICES ASSUME SInit PROVE SIInv
  OBVIOUS
<1> USE DEF SInit
<1>1. STypeOK
  BY StickerAssumption, SaveTypes DEF StickerRow, SaveRow, SaveHandler, NoSticker
<1>2. EffectsAreStored
  BY DEF EffectsAreStored
<1>3. SavedAnswersAreTrue
  BY Zenon DEF SavedAnswersAreTrue
<1>4. IdsAreMinted
  BY DEF IdsAreMinted, NoSticker
<1> QED
  BY <1>1, <1>2, <1>3, <1>4 DEF SIInv

-----------------------------------------------------------------------------
(* Steps that write no row.                                                *)

LEMMA OnlySaves ==
  ASSUME SIInv, UNCHANGED <<personal_stickers, sticker_seq, save_keys, delete_keys, effects>>,
         saving' \in [SaveTasks -> SaveHandler],
         \A t \in told' : t \in told \/ \E r \in SaveRequests :
                            Stored(r) /\ t = <<r, save_keys[r.key].sticker_id>>
  PROVE  SIInv'
<1> USE DEF SIInv
<1>1. ASSUME NEW t \in told'
      PROVE  t \in SaveRequests \X StickerIds /\ IdOf(t[1], t[2])
  <2>1. CASE t \in told
    BY <2>1, SaveTypes DEF SavedAnswersAreTrue
  <2>2. CASE t \notin told
    <3>1. PICK r \in SaveRequests : Stored(r) /\ t = <<r, save_keys[r.key].sticker_id>>
      BY <1>1, <2>2
    <3>2. r.key \in SaveKeys /\ save_keys[r.key] # NotSaved /\ save_keys[r.key].request = r
      BY <3>1, SaveRequestTypes DEF Stored
    <3>3. save_keys[r.key].sticker_id \in StickerIds
      BY <3>2, SaveTypes DEF SaveRow
    <3>4. IdOf(r, save_keys[r.key].sticker_id)
      BY <3>2 DEF SavedAnswersAreTrue
    <3> QED
      BY <3>1, <3>3, <3>4
  <2> QED
    BY <2>1, <2>2
<1>2. STypeOK'
  BY <1>1, SaveTypes DEF STypeOK, SaveHandler
<1>3. EffectsAreStored' /\ IdsAreMinted'
  BY DEF EffectsAreStored, IdsAreMinted
<1>4. SavedAnswersAreTrue'
  BY <1>1 DEF SavedAnswersAreTrue, IdOf
<1> QED
  BY <1>2, <1>3, <1>4

LEMMA SaveKeeps ==
  ASSUME SIInv, NEW s \in SaveTasks, NEW r \in SaveRequests, Save(s, r)
  PROVE  SIInv'
<1>1. saving' \in [SaveTasks -> SaveHandler]
  BY SaveTypes DEF Save, SIInv, SaveHandler
<1>2. \/ told' = told
      \/ Stored(r) /\ told' = told \cup {<<r, save_keys[r.key].sticker_id>>}
  BY Zenon DEF Save, Tell
<1> QED
  BY <1>1, <1>2, OnlySaves DEF Save

LEMMA ShownKeeps ==
  ASSUME SIInv, NEW s \in SaveTasks, Shown(s)
  PROVE  SIInv'
<1>1. saving[s] \in SaveHandler
  BY SaveTypes DEF SIInv
<1>2. saving[s] = [at |-> "asking", request |-> saving[s].request]
      /\ saving[s].request \in SaveRequests
  BY <1>1 DEF Shown, SaveHandler, NoSave
<1>3. [saving[s] EXCEPT !.at = "saving"] \in SaveHandler
  BY <1>2 DEF SaveHandler
<1>4. saving' \in [SaveTasks -> SaveHandler]
  BY <1>3, SaveTypes DEF SIInv, Shown
<1> QED
  BY <1>4, OnlySaves DEF Shown

LEMMA SaveFailsKeeps ==
  ASSUME SIInv, NEW s \in SaveTasks, SaveFails(s)
  PROVE  SIInv'
<1>1. saving' \in [SaveTasks -> SaveHandler]
  BY SaveTypes DEF SaveFails, SIInv, SaveHandler
<1> QED
  BY <1>1, OnlySaves DEF SaveFails

-----------------------------------------------------------------------------
(* The transactions that write.                                            *)

LEMMA CommitKeeps ==
  ASSUME SIInv, NEW s \in SaveTasks, Commit(s)
  PROVE  SIInv'
<1> DEFINE r == saving[s].request
           row == personal_stickers[r.attachment]
           id == IF row.sticker_id # 0 THEN row.sticker_id ELSE sticker_seq + 1
           changes == row.sticker_id = 0 \/ row.deleted
<1>1. saving[s] \in SaveHandler /\ saving[s].at = "saving"
  BY SaveTypes DEF SIInv, Commit
<1>2. r \in SaveRequests
  BY <1>1 DEF SaveHandler, NoSave
<1>3. r.attachment \in Attachments /\ r.key \in SaveKeys
  BY <1>2, SaveRequestTypes
<1>4. saving' \in [SaveTasks -> SaveHandler]
  BY SaveTypes DEF SIInv, Commit, SaveHandler
<1>5. CASE /\ UNCHANGED <<personal_stickers, sticker_seq, save_keys, delete_keys, effects>>
           /\ \/ told' = told
              \/ Stored(r) /\ told' = told \cup {<<r, save_keys[r.key].sticker_id>>}
  BY <1>2, <1>4, <1>5, OnlySaves
<1>6. CASE /\ save_keys[r.key] = NotSaved
           /\ id <= MaxStickerIds
           /\ personal_stickers' = [personal_stickers EXCEPT ![r.attachment] =
                                      [sticker_id |-> id, deleted |-> FALSE]]
           /\ sticker_seq' = IF id > sticker_seq THEN id ELSE sticker_seq
           /\ save_keys' = [save_keys EXCEPT ![r.key] =
                              [status |-> "completed", request |-> r, sticker_id |-> id]]
           /\ effects' = [effects EXCEPT ![r.key] = IF changes THEN @ + 1 ELSE @]
           /\ told' = told \cup {<<r, id>>}
           /\ UNCHANGED delete_keys
  <2> USE <1>3, <1>6
  <2>1. row \in StickerRow
    BY SaveTypes DEF SIInv
  <2>2. id \in StickerIds
    BY <2>1, StickerAssumption, SaveTypes DEF SIInv, StickerRow, StickerIds
  <2> HIDE DEF id
  <2>3. /\ personal_stickers'[r.attachment].sticker_id = id
        /\ \A a \in Attachments : a # r.attachment =>
             personal_stickers'[a] = personal_stickers[a]
        /\ row.sticker_id # 0 => id = row.sticker_id
        /\ row.sticker_id = 0 => id = sticker_seq + 1
    BY SaveTypes DEF SIInv, id
  <2>4. save_keys'[r.key] = [status |-> "completed", request |-> r, sticker_id |-> id]
        /\ \A k \in SaveKeys : k # r.key => save_keys'[k] = save_keys[k]
    BY SaveTypes DEF SIInv
  <2>5. STypeOK'
    <3>1. personal_stickers' \in [Attachments -> StickerRow] /\ sticker_seq' \in 0 .. MaxStickerIds
      BY <2>2, StickerAssumption, SaveTypes DEF SIInv, StickerRow, StickerIds
    <3>2. save_keys' \in [SaveKeys -> SaveRow]
      BY <1>2, <2>2, SaveTypes DEF SIInv, SaveRow
    <3>3. told' \subseteq SaveRequests \X StickerIds /\ effects' \in [SaveKeys -> Nat]
      BY <1>2, <2>2, SaveTypes DEF SIInv
    <3> QED
      BY <1>4, <3>1, <3>2, <3>3, SaveTypes DEF SIInv, STypeOK, StickerRow, SaveRow, SaveHandler
  <2>6. EffectsAreStored'
    <3>1. effects[r.key] = 0 /\ save_keys'[r.key] # NotSaved
      BY <2>4 DEF SIInv, EffectsAreStored, NotSaved
    <3> QED
      BY <2>4, <3>1, SaveTypes DEF SIInv, EffectsAreStored
  <2>7. IdsAreMinted'
    <3>1. \A a \in Attachments : personal_stickers[a].sticker_id \in 0 .. MaxStickerIds
      BY SaveTypes DEF SIInv, StickerRow
    <3>2. sticker_seq \in Nat /\ id \in Nat /\ id # 0 /\ sticker_seq' \in Nat
      BY <2>2, StickerAssumption, SaveTypes DEF SIInv, StickerIds
    <3>3. sticker_seq' >= sticker_seq /\ sticker_seq' >= id
      BY <3>2
    <3>4. \A a \in Attachments : personal_stickers'[a].sticker_id <= sticker_seq'
      BY <2>3, <3>1, <3>2, <3>3, StickerAssumption DEF SIInv, IdsAreMinted
    <3>5. ASSUME NEW a \in Attachments, a # r.attachment
          PROVE  personal_stickers[a].sticker_id # id
      BY <2>3, <3>1, <3>2, <3>5, StickerAssumption DEF SIInv, IdsAreMinted
    <3> QED
      BY <2>3, <3>4, <3>5 DEF SIInv, IdsAreMinted
  <2>8. SavedAnswersAreTrue'
    <3>1. ASSUME NEW q, NEW i \in StickerIds, IdOf(q, i)
          PROVE  IdOf(q, i)'
      <4>1. q \in SaveRequests /\ q.attachment \in Attachments
        BY <3>1, SaveRequestTypes DEF IdOf
      <4>2. CASE q.attachment = r.attachment
        BY <2>3, <3>1, <4>1, <4>2 DEF IdOf, StickerIds
      <4>3. CASE q.attachment # r.attachment
        BY <2>3, <3>1, <4>1, <4>3 DEF IdOf
      <4> QED
        BY <4>2, <4>3
    <3>2. r \in SaveRequests /\ personal_stickers'[r.attachment].sticker_id = id
      BY <1>2, <2>3
    <3>3. ASSUME NEW k \in SaveKeys, save_keys'[k] # NotSaved
          PROVE  IdOf(save_keys[k].request, save_keys[k].sticker_id)'
      <4>1. CASE k = r.key
        BY <2>4, <3>2, <4>1 DEF IdOf
      <4>2. CASE k # r.key
        <5>1. save_keys[k] # NotSaved /\ save_keys[k].sticker_id \in StickerIds
          BY <2>4, <3>3, <4>2, SaveTypes DEF SIInv, SaveRow
        <5>2. IdOf(save_keys[k].request, save_keys[k].sticker_id)
          BY <5>1 DEF SIInv, SavedAnswersAreTrue
        <5> QED
          BY <2>4, <3>1, <4>2, <5>1, <5>2 DEF IdOf
      <4> QED
        BY <4>1, <4>2
    <3>4. ASSUME NEW t \in told'
          PROVE  IdOf(t[1], t[2])'
      <4>1. CASE t \in told
        BY <3>1, <4>1, SaveTypes DEF SIInv, SavedAnswersAreTrue
      <4>2. CASE t = <<r, id>>
        BY <3>2, <4>2 DEF IdOf
      <4> QED
        BY <4>1, <4>2
    <3> QED
      BY <3>3, <3>4 DEF SavedAnswersAreTrue
  <2> QED
    BY <2>5, <2>6, <2>7, <2>8 DEF SIInv
<1>7. CASE SavedMeanwhile(r)
  <2>1. UNCHANGED <<personal_stickers, sticker_seq, save_keys, delete_keys, effects>>
    BY <1>7, Zenon DEF Commit
  <2>2. \/ told' = told
        \/ Stored(r) /\ told' = told \cup {<<r, save_keys[r.key].sticker_id>>}
    BY <1>7, Zenon DEF Commit, Tell
  <2> QED
    BY <1>5, <2>1, <2>2
<1>8. CASE ~SavedMeanwhile(r)
  BY <1>5, <1>6, <1>8, Zenon DEF Commit, SavedMeanwhile, Tell
<1> QED
  BY <1>7, <1>8

\* A deletion leaves the row, and its id, to its image.
LEMMA DeleteKeeps ==
  ASSUME SIInv, NEW k \in DeleteKeys, NEW id \in StickerIds, Delete(k, id)
  PROVE  SIInv'
<1>1. \A a \in Attachments : /\ personal_stickers[a] \in StickerRow
                             /\ personal_stickers'[a] \in StickerRow
                             /\ personal_stickers'[a].sticker_id = personal_stickers[a].sticker_id
  <2> SUFFICES ASSUME NEW a \in Attachments
               PROVE  /\ personal_stickers[a] \in StickerRow
                      /\ personal_stickers'[a] \in StickerRow
                      /\ personal_stickers'[a].sticker_id = personal_stickers[a].sticker_id
    OBVIOUS
  <2>1. personal_stickers[a] \in StickerRow
    BY SaveTypes DEF SIInv
  <2>2. personal_stickers'[a] = personal_stickers[a] \/
        personal_stickers'[a] = [personal_stickers[a] EXCEPT !.deleted = TRUE]
    BY DEF Delete
  <2> QED
    BY <2>1, <2>2 DEF StickerRow
<1>2. STypeOK'
  <2>1. personal_stickers' \in [Attachments -> StickerRow]
    BY <1>1 DEF Delete
  <2>2. delete_keys' \in [DeleteKeys -> 0 .. MaxStickerIds]
    BY SaveTypes, StickerAssumption DEF Delete, SIInv, StickerIds
  <2> QED
    BY <2>1, <2>2, SaveTypes DEF Delete, SIInv, STypeOK, StickerRow, SaveRow, SaveHandler
<1>3. EffectsAreStored' /\ IdsAreMinted'
  BY <1>1 DEF Delete, SIInv, EffectsAreStored, IdsAreMinted
<1>4. \A q, i : IdOf(q, i) => IdOf(q, i)'
  BY <1>1, SaveRequestTypes DEF IdOf
<1>5. SavedAnswersAreTrue'
  <2>1. UNCHANGED <<save_keys, told>>
    BY DEF Delete
  <2> QED
    BY <1>4, <2>1 DEF SIInv, SavedAnswersAreTrue, IdOf
<1> QED
  BY <1>2, <1>3, <1>5 DEF SIInv

-----------------------------------------------------------------------------
(* The theorems.                                                           *)

LEMMA SavesStepKeeps == SIInv /\ [SNext]_svars => SIInv'
<1> SUFFICES ASSUME SIInv, [SNext]_svars PROVE SIInv'
  OBVIOUS
<1>1. CASE \E s \in SaveTasks, r \in SaveRequests : Save(s, r)
  BY <1>1, SaveKeeps
<1>2. CASE \E s \in SaveTasks : Shown(s) \/ SaveFails(s) \/ Commit(s)
  BY <1>2, ShownKeeps, SaveFailsKeeps, CommitKeeps
<1>3. CASE \E k \in DeleteKeys, id \in StickerIds : Delete(k, id)
  BY <1>3, DeleteKeeps
<1>4. CASE UNCHANGED svars
  BY <1>4, OnlySaves, SaveTypes DEF SIInv, svars
<1> QED
  BY <1>1, <1>2, <1>3, <1>4 DEF SNext

LEMMA SavesInvariance == SSpec => []SIInv
  BY SavesInitially, SavesStepKeeps, PTL DEF SSpec

\* Type correctness of rows, keys and handlers.
THEOREM STypeCorrect == SSpec => []STypeOK
<1>1. SIInv => STypeOK
  BY DEF SIInv
<1> QED
  BY <1>1, SavesInvariance, PTL

\* A save is applied once: saveSticker looks at the key again in the
\* transaction that writes, whatever happened while it waited for the channel.
THEOREM SavesApplyOnce == SSpec => []SaveOnce
  BY SavesImplied, SavesInvariance, PTL

\* Ids that were answered keep naming their image.
THEOREM AnsweredIdsStand == SSpec => []ToldIdsStand
  BY SavesImplied, SavesInvariance, PTL

=============================================================================
