--------------------------- MODULE Membership_proofs ---------------------------
(***************************************************************************)
(* For any number of users, requests and versions: type correctness, one   *)
(* owner, the count, retries, and that every handler keeps the contract    *)
(* ChannelVersions on which the live path is built.                        *)
(***************************************************************************)
EXTENDS Membership, FiniteSetTheorems, TLAPS

-----------------------------------------------------------------------------
(* Rows and responses have their types.                                    *)

LEMMA RowTypes ==
  /\ \A v \in Nat : FanoutRow(v) \in Rows
  /\ \A u \in Users : UnregisterRow(u) \in Rows
  /\ \A u \in Users, act \in {"join", "leave", "dissolve"}, v \in Nat : UserRow(u, act, v) \in Rows
  /\ \A count \in Nat, st \in {"active", "dissolved"} : ListingUpsert(count, st) \in Rows
  /\ ListingDelete \in Rows
  /\ \A u \in Users, limit \in UseLimits : InviteRow(u, limit) \in Rows
BY DEF Rows, FanoutRow, UnregisterRow, UserRow, ListingUpsert, ListingDelete, InviteRow

LEMMA ListingTypes ==
  ASSUME NEW count \in Nat, NEW st \in {"active", "dissolved"}
  PROVE  Listing(count, st) \subseteq Rows
BY RowTypes DEF Listing

Outbox == [row : Rows, due : Int, attempts : Nat]

\* What Emit adds to the outbox are fresh rows.
LEMMA EmitTypes ==
  ASSUME TypeOK, NEW rows \in SUBSET Rows, Emit(rows)
  PROVE  outbox' \subseteq Outbox /\ clock' \in Nat
<1> DEFINE kept == {r \in rows : r.target \in Tracked}
           new == {[row |-> r, due |-> clock + 1, attempts |-> 0] : r \in kept}
<1>1. clock \in Nat /\ outbox \subseteq Outbox
  BY DEF TypeOK, Outbox
<1>2. \A r \in kept : [row |-> r, due |-> clock + 1, attempts |-> 0] \in Outbox
  BY <1>1 DEF Outbox
<1>3. outbox' = outbox \cup new /\ clock' \in {clock, clock + 1}
  BY DEF Emit
<1> QED BY <1>1, <1>2, <1>3

LEMMA AnswerTypes ==
  ASSUME TypeOK, NEW r \in Requests, NEW effect \in {"noop", "applied"}, Answer(r, effect)
  PROVE  /\ idempotency_keys' \subseteq Requests
         /\ outcome' \in [Requests -> {"none", "noop", "applied", "reapplied"}]
<1> DEFINE next == CASE outcome[r] = "none" -> effect
                     [] outcome[r] # "none" /\ effect = "applied" -> "reapplied"
                     [] OTHER -> outcome[r]
<1>1. outcome' = [outcome EXCEPT ![r] = next]
  BY DEF Answer
<1>2. next \in {"none", "noop", "applied", "reapplied"}
  <2>1. CASE outcome[r] = "none" /\ effect = "noop"
    BY <2>1
  <2>2. CASE outcome[r] = "none" /\ effect = "applied"
    BY <2>2
  <2>3. CASE outcome[r] # "none" /\ effect = "applied"
    BY <2>3
  <2>4. CASE outcome[r] # "none" /\ effect # "applied"
    BY <2>4 DEF TypeOK
  <2> QED BY <2>1, <2>2, <2>3, <2>4
<1> HIDE DEF next
<1> QED BY <1>1, <1>2 DEF Answer, TypeOK

LEMMA AnswerOnlyTypes ==
  ASSUME TypeOK, NEW r \in Requests, AnswerOnly(r)
  PROVE  TypeOK'
BY AnswerTypes DEF AnswerOnly, TypeOK, channel, roster, Invite

-----------------------------------------------------------------------------
(* Type correctness.                                                       *)

LEMMA ActiveFinite ==
  /\ IsFiniteSet(ActiveMembers) /\ Cardinality(ActiveMembers) \in Nat
  /\ \A s \in SUBSET Users : IsFiniteSet(s) /\ Cardinality(s) \in Nat
BY MembershipAssumption, FS_Subset, FS_CardinalityType DEF ActiveMembers

LEMMA TypeInit == Init => TypeOK
BY MembershipAssumption DEF Init, TypeOK, Invite, Visibilities

LEMMA TypeCreateChannel ==
  ASSUME TypeOK, NEW o \in Users, NEW initial \in SUBSET Users, NEW vis \in Visibilities,
         NEW role \in [initial -> {"member", "admin"}], CreateChannel(o, initial, role, vis)
  PROVE  TypeOK'
<1> DEFINE last == 1 + Cardinality(initial)
           listed == IF vis = "public_listed" THEN {ListingUpsert(last, "active")} ELSE {}
           rows == {FanoutRow(v) : v \in 1 .. last}
                   \cup {UserRow(o, "join", 1)}
                   \cup {UserRow(u, "join", last) : u \in initial}
                   \cup listed
<1>1. last \in Nat
  BY ActiveFinite
<1>2. rows \in SUBSET Rows
  <2>1. \A v \in 1 .. last : FanoutRow(v) \in Rows
    BY <1>1, RowTypes
  <2>2. UserRow(o, "join", 1) \in Rows /\ \A u \in initial : UserRow(u, "join", last) \in Rows
    BY <1>1, RowTypes
  <2>3. listed \subseteq Rows
    BY <1>1, RowTypes
  <2> QED BY <2>1, <2>2, <2>3
<1>3. Emit(rows)
  BY DEF CreateChannel
<1>4. outbox' \subseteq Outbox /\ clock' \in Nat
  BY <1>2, <1>3, EmitTypes
<1>5. members' \in [Users -> Roles \cup {"none", "left"}]
  <2>1. \A u \in Users : (CASE u = o -> "owner"
                            [] u \in initial -> role[u]
                            [] OTHER -> "none") \in Roles \cup {"none", "left"}
    BY DEF Roles
  <2> QED BY <2>1 DEF CreateChannel
<1>6. membership_version' = last /\ member_count' = last /\ last <= MaxVersion
  <2>1. membership_version' = last /\ member_count' = last /\ Room(last)
    BY DEF CreateChannel
  <2> HIDE DEF last
  <2> QED BY <1>1, <2>1, MembershipAssumption DEF Room, TypeOK
<1> HIDE DEF rows, last
<1> QED BY <1>1, <1>4, <1>5, <1>6 DEF CreateChannel, TypeOK, Outbox, Visibilities

LEMMA TypeCreateDm ==
  ASSUME TypeOK, NEW a \in Users, NEW b \in Users, CreateDm(a, b)
  PROVE  TypeOK'
<1> DEFINE rows == {UserRow(u, "join", 1) : u \in {a, b}}
<1>1. rows \in SUBSET Rows /\ Emit(rows)
  BY RowTypes DEF CreateDm
<1>2. outbox' \subseteq Outbox /\ clock' \in Nat
  BY <1>1, EmitTypes
<1> HIDE DEF rows
<1> QED BY <1>2, MembershipAssumption DEF CreateDm, Room, TypeOK, Outbox, Roles

LEMMA TypeAdmit ==
  ASSUME TypeOK, NEW u \in Users, NEW role \in {"member", "admin"}, Admit(u, role)
  PROVE  /\ members' \in [Users -> Roles \cup {"none", "left"}]
         /\ membership_version' \in 0 .. MaxVersion
         /\ member_count' \in Nat
         /\ outbox' \subseteq Outbox /\ clock' \in Nat
<1> DEFINE rows == {FanoutRow(membership_version + 1), UserRow(u, "join", membership_version + 1)}
                   \cup Listing(CountWith, status)
<1>1. membership_version + 1 \in Nat /\ CountWith \in Nat /\ status \in {"active", "dissolved"}
  BY DEF TypeOK, CountWith
<1>2. rows \in SUBSET Rows
  BY <1>1, RowTypes, ListingTypes
<1>3. Emit(rows)
  BY DEF Admit
<1>4. outbox' \subseteq Outbox /\ clock' \in Nat
  BY <1>2, <1>3, EmitTypes
<1> QED BY <1>1, <1>4, MembershipAssumption DEF Admit, Room, TypeOK, Roles

LEMMA TypeJoin ==
  ASSUME TypeOK, NEW u \in Users, NEW k \in Keys, Join(u, k)
  PROVE  TypeOK'
<1>1. <<u, "join", k>> \in Requests
  BY DEF Requests, Operations
<1>2. CASE AnswerOnly(<<u, "join", k>>)
  BY <1>1, <1>2, AnswerOnlyTypes
<1>3. CASE /\ Admit(u, "member") /\ Answer(<<u, "join", k>>, "applied") /\ UNCHANGED invites
  BY <1>1, <1>3, TypeAdmit, AnswerTypes DEF Admit, TypeOK, Outbox, channel
<1> QED BY <1>2, <1>3 DEF Join

LEMMA TypeAddMember ==
  ASSUME TypeOK, NEW a \in Users, NEW u \in Users, NEW role \in {"member", "admin"},
         NEW k \in Keys, AddMember(a, u, role, k)
  PROVE  TypeOK'
<1>1. <<a, "add", k>> \in Requests
  BY DEF Requests, Operations
<1>2. CASE AnswerOnly(<<a, "add", k>>)
  BY <1>1, <1>2, AnswerOnlyTypes
<1>3. CASE /\ Admit(u, role) /\ Answer(<<a, "add", k>>, "applied") /\ UNCHANGED invites
  BY <1>1, <1>3, TypeAdmit, AnswerTypes DEF Admit, TypeOK, Outbox, channel
<1> QED BY <1>2, <1>3 DEF AddMember

LEMMA TypeAccept ==
  ASSUME TypeOK, NEW u \in Users, NEW c \in Users, NEW k \in Keys, AcceptInvite(u, c, k)
  PROVE  TypeOK'
<1>1. <<u, "accept", k>> \in Requests
  BY DEF Requests, Operations
<1>2. CASE AnswerOnly(<<u, "accept", k>>)
  BY <1>1, <1>2, AnswerOnlyTypes
<1>3. CASE /\ Admit(u, "member") /\ SpendUse(c) /\ Answer(<<u, "accept", k>>, "applied")
  <2>1. invites' \in [Users -> Invite]
    BY <1>3 DEF SpendUse, TypeOK, Invite
  <2> QED BY <1>1, <1>3, <2>1, TypeAdmit, AnswerTypes DEF Admit, TypeOK, Outbox, channel
<1> QED BY <1>2, <1>3 DEF AcceptInvite

LEMMA TypeRemoveMember ==
  ASSUME TypeOK, NEW a \in Users, NEW u \in Users, NEW k \in Keys, RemoveMember(a, u, k)
  PROVE  TypeOK'
<1> DEFINE count == IF member_count > 0 THEN member_count - 1 ELSE 0
           rows == {UnregisterRow(u), FanoutRow(membership_version + 1),
                    UserRow(u, "leave", membership_version + 1)} \cup Listing(count, status)
<1>1. <<a, "remove", k>> \in Requests
  BY DEF Requests, Operations
<1>2. membership_version + 1 \in Nat /\ count \in Nat /\ status \in {"active", "dissolved"}
  BY DEF TypeOK
<1> HIDE DEF count
<1>3. rows \in SUBSET Rows
  BY <1>2, RowTypes, ListingTypes
<1>4. Emit(rows) /\ member_count' = count
  BY DEF RemoveMember, count
<1>5. outbox' \subseteq Outbox /\ clock' \in Nat
  BY <1>3, <1>4, EmitTypes
<1> HIDE DEF rows
<1>6. members' \in [Users -> Roles \cup {"none", "left"}]
  BY DEF RemoveMember, MarkLeft, TypeOK
<1>7. Answer(<<a, "remove", k>>, "applied")
  BY DEF RemoveMember
<1> QED BY <1>1, <1>2, <1>4, <1>5, <1>6, <1>7, AnswerTypes, MembershipAssumption
        DEF RemoveMember, Room, TypeOK, Outbox, channel

LEMMA TypeUpdateMemberRole ==
  ASSUME TypeOK, NEW a \in Users, NEW u \in Users, NEW role \in {"member", "admin"},
         NEW k \in Keys, UpdateMemberRole(a, u, role, k)
  PROVE  TypeOK'
<1> DEFINE rows == {FanoutRow(membership_version + 1), UserRow(u, "join", membership_version + 1)}
<1>1. <<a, "role", k>> \in Requests
  BY DEF Requests, Operations
<1>2. rows \in SUBSET Rows
  BY RowTypes DEF TypeOK
<1>3. Emit(rows) /\ Answer(<<a, "role", k>>, "applied")
  BY DEF UpdateMemberRole
<1>4. outbox' \subseteq Outbox /\ clock' \in Nat
  BY <1>2, <1>3, EmitTypes
<1> HIDE DEF rows
<1> QED BY <1>1, <1>3, <1>4, AnswerTypes, MembershipAssumption
        DEF UpdateMemberRole, Room, TypeOK, Outbox, Roles, channel

LEMMA TypeTransferOwner ==
  ASSUME TypeOK, NEW a \in Users, NEW u \in Users, NEW role \in {"member", "admin"},
         NEW k \in Keys, TransferOwner(a, u, role, k)
  PROVE  TypeOK'
<1> DEFINE rows == {FanoutRow(membership_version + 1), FanoutRow(membership_version + 2)}
<1>1. <<a, "transfer", k>> \in Requests
  BY DEF Requests, Operations
<1>2. rows \in SUBSET Rows
  BY RowTypes DEF TypeOK
<1>3. Emit(rows) /\ Answer(<<a, "transfer", k>>, "applied")
  BY DEF TransferOwner
<1>4. outbox' \subseteq Outbox /\ clock' \in Nat
  BY <1>2, <1>3, EmitTypes
<1> HIDE DEF rows
<1> QED BY <1>1, <1>3, <1>4, AnswerTypes, MembershipAssumption
        DEF TransferOwner, HandOver, Room, TypeOK, Outbox, Roles

LEMMA TypeDissolveChannel ==
  ASSUME TypeOK, NEW a \in Users, NEW k \in Keys, DissolveChannel(a, k)
  PROVE  TypeOK'
<1> DEFINE delisted == IF visibility = "public_listed" THEN {ListingDelete} ELSE {}
           rows == {FanoutRow(membership_version + 1)}
                   \cup {UserRow(u, "dissolve", membership_version + 1) : u \in ActiveMembers}
                   \cup delisted
<1>1. <<a, "dissolve", k>> \in Requests
  BY DEF Requests, Operations
<1>2. CASE AnswerOnly(<<a, "dissolve", k>>)
  BY <1>1, <1>2, AnswerOnlyTypes
<1>3. CASE status = "active" /\ ~AnswerOnly(<<a, "dissolve", k>>)
  <2>1. rows \in SUBSET Rows
    <3>1. membership_version + 1 \in Nat
      BY DEF TypeOK
    <3>2. \A u \in ActiveMembers : UserRow(u, "dissolve", membership_version + 1) \in Rows
      BY <3>1, RowTypes DEF ActiveMembers
    <3> QED BY <3>1, <3>2, RowTypes
  <2>2. Emit(rows) /\ Answer(<<a, "dissolve", k>>, "applied") /\ status' = "dissolved"
    BY <1>3 DEF DissolveChannel
  <2>3. outbox' \subseteq Outbox /\ clock' \in Nat
    BY <2>1, <2>2, EmitTypes
  <2> HIDE DEF rows
  <2> QED BY <1>1, <1>3, <2>2, <2>3, AnswerTypes, MembershipAssumption
          DEF DissolveChannel, Room, TypeOK, Outbox
<1> QED BY <1>2, <1>3 DEF DissolveChannel

LEMMA TypeUpdateChannel ==
  ASSUME TypeOK, NEW a \in Users, NEW vis \in Visibilities, NEW retitled \in BOOLEAN,
         NEW k \in Keys, UpdateChannel(a, vis, retitled, k)
  PROVE  TypeOK'
<1> DEFINE rows == {FanoutRow(membership_version)} \cup Relisting(vis)
<1>1. <<a, "update", k>> \in Requests
  BY DEF Requests, Operations
<1>2. CASE AnswerOnly(<<a, "update", k>>)
  BY <1>1, <1>2, AnswerOnlyTypes
<1>3. CASE ~AnswerOnly(<<a, "update", k>>)
  <2>1. rows \in SUBSET Rows
    BY RowTypes DEF TypeOK, Relisting
  <2>2. /\ Emit(rows) /\ Answer(<<a, "update", k>>, "applied") /\ visibility' = vis
        /\ UNCHANGED <<kind, status, created_by, roster, invites>>
    BY <1>3 DEF UpdateChannel
  <2>3. outbox' \subseteq Outbox /\ clock' \in Nat
    BY <2>1, <2>2, EmitTypes
  <2> HIDE DEF rows
  <2> QED BY <1>1, <2>2, <2>3, AnswerTypes DEF TypeOK, Outbox, roster
<1> QED BY <1>2, <1>3

LEMMA TypeCreateInvite ==
  ASSUME TypeOK, NEW u \in Users, NEW limit \in UseLimits, NEW k \in Keys,
         CreateInvite(u, limit, k)
  PROVE  TypeOK'
<1>1. <<u, "invite", k>> \in Requests
  BY DEF Requests, Operations
<1>2. {InviteRow(u, limit)} \in SUBSET Rows /\ Emit({InviteRow(u, limit)})
  BY RowTypes DEF CreateInvite
<1>3. outbox' \subseteq Outbox /\ clock' \in Nat
  BY <1>2, EmitTypes
<1>4. invites' \in [Users -> Invite]
  <2> DEFINE offered == [invites[u] EXCEPT !.live = TRUE, !.max = limit, !.made = TRUE]
  <2>1. offered \in Invite
    BY MembershipAssumption DEF TypeOK, Invite
  <2>2. invites' = [invites EXCEPT ![u] = offered]
    BY DEF CreateInvite, Offer, TypeOK
  <2> HIDE DEF offered
  <2> QED BY <2>1, <2>2 DEF TypeOK
<1>5. Answer(<<u, "invite", k>>, "applied")
  BY DEF CreateInvite
<1> QED BY <1>1, <1>3, <1>4, <1>5, AnswerTypes
        DEF CreateInvite, TypeOK, Outbox, channel, roster

LEMMA TypeExpireInvite ==
  ASSUME TypeOK, NEW c \in Users, ExpireInvite(c)
  PROVE  TypeOK'
BY DEF ExpireInvite, TypeOK, Invite, channel, roster

LEMMA TypeNext == TypeOK /\ [Next]_vars => TypeOK'
<1>1. TypeOK /\ Create => TypeOK'
  BY TypeCreateChannel, TypeCreateDm DEF Create
<1>2. TypeOK /\ Handler => TypeOK'
  BY TypeJoin, TypeAddMember, TypeAccept, TypeRemoveMember, TypeUpdateMemberRole,
     TypeTransferOwner, TypeDissolveChannel, TypeUpdateChannel, TypeCreateInvite
     DEF Handler
<1>3. TypeOK /\ UNCHANGED vars => TypeOK'
  BY DEF TypeOK, vars
<1> QED BY <1>1, <1>2, <1>3, TypeExpireInvite DEF Next

\* Whatever the clients ask for, in any order, the channel's tables stay
\* within their columns' types.
THEOREM TypeCorrect == Spec => []TypeOK
BY TypeInit, TypeNext, PTL DEF Spec

-----------------------------------------------------------------------------
(* The owner.  OneOwner is inductive once types are known: whoever removes *)
(* someone else from an active channel is its owner, so is created_by, who *)
(* is therefore not the one removed.                                       *)

LEMMA OwnerCreate == TypeOK /\ OneOwner /\ Create => OneOwner'
<1> SUFFICES ASSUME TypeOK, OneOwner, Create PROVE OneOwner'
  OBVIOUS
<1>1. ASSUME NEW o \in Users, NEW initial \in SUBSET Users, NEW vis \in Visibilities,
             NEW role \in [initial -> {"member", "admin"}], CreateChannel(o, initial, role, vis)
      PROVE  OneOwner'
  <2>1. members'[o] = "owner" /\ created_by' = o
    BY <1>1 DEF CreateChannel
  <2>2. \A u \in Users \ {o} : members'[u] # "owner"
    BY <1>1 DEF CreateChannel
  <2> QED BY <2>1, <2>2 DEF OneOwner
<1>2. ASSUME NEW a \in Users, NEW b \in Users, CreateDm(a, b) PROVE OneOwner'
  BY <1>2 DEF CreateDm, OneOwner
<1> QED BY <1>1, <1>2 DEF Create

LEMMA OwnerHandler == TypeOK /\ OneOwner /\ Handler => OneOwner'
<1> SUFFICES ASSUME TypeOK, OneOwner, Handler PROVE OneOwner'
  OBVIOUS
<1>1. ASSUME UNCHANGED <<kind, status, created_by, members>> PROVE OneOwner'
  BY <1>1 DEF OneOwner
<1>2. ASSUME NEW u \in Users, NEW role \in {"member", "admin"},
             u \notin ActiveMembers, Admit(u, role)
      PROVE  OneOwner'
  <2>1. members[u] # "owner" /\ members' = [members EXCEPT ![u] = role]
    BY <1>2 DEF ActiveMembers, Roles, Admit
  <2>2. \A w \in Users : members'[w] = "owner" <=> members[w] = "owner"
    BY <2>1 DEF TypeOK
  <2> QED BY <1>2, <2>2 DEF OneOwner, Admit, channel
<1>3. ASSUME NEW u \in Users, NEW k \in Keys, Join(u, k) PROVE OneOwner'
  BY <1>1, <1>2, <1>3 DEF Join, AnswerOnly, channel, roster
<1>4. ASSUME NEW a \in Users, NEW u \in Users, NEW role \in {"member", "admin"}, NEW k \in Keys,
             AddMember(a, u, role, k)
      PROVE  OneOwner'
  BY <1>1, <1>2, <1>4 DEF AddMember, AnswerOnly, channel, roster
<1>5. ASSUME NEW u \in Users, NEW c \in Users, NEW k \in Keys, AcceptInvite(u, c, k)
      PROVE  OneOwner'
  BY <1>1, <1>2, <1>5 DEF AcceptInvite, AnswerOnly, channel, roster
<1>6. ASSUME NEW a \in Users, NEW u \in Users, NEW k \in Keys, RemoveMember(a, u, k)
      PROVE  OneOwner'
  <2>1. CASE status = "active"
    <3>1. u # created_by
      BY <1>6, <2>1 DEF RemoveMember, MayRemove, OneOwner
    <3>2. members' = [members EXCEPT ![u] = "left"] /\ UNCHANGED channel /\ kind = "channel"
      BY <1>6 DEF RemoveMember, MarkLeft
    <3> QED BY <2>1, <3>1, <3>2 DEF OneOwner, TypeOK, channel
  <2>2. CASE status # "active"
    BY <1>6, <2>2 DEF RemoveMember, OneOwner, channel
  <2> QED BY <2>1, <2>2
<1>7. ASSUME NEW a \in Users, NEW u \in Users, NEW role \in {"member", "admin"}, NEW k \in Keys,
             UpdateMemberRole(a, u, role, k)
      PROVE  OneOwner'
  BY <1>7 DEF UpdateMemberRole, OpenChannel, OneOwner, TypeOK, channel
<1>8. ASSUME NEW a \in Users, NEW u \in Users, NEW role \in {"member", "admin"}, NEW k \in Keys,
             TransferOwner(a, u, role, k)
      PROVE  OneOwner'
  <2>1. a # u /\ {w \in Users : members[w] = "owner"} = {a}
    BY <1>8 DEF TransferOwner, OpenChannel, OneOwner
  <2> QED BY <1>8, <2>1 DEF TransferOwner, HandOver, OneOwner, TypeOK
<1>9. ASSUME NEW a \in Users, NEW k \in Keys, DissolveChannel(a, k) PROVE OneOwner'
  BY <1>1, <1>9 DEF DissolveChannel, AnswerOnly, OneOwner, channel, roster
<1>10. ASSUME NEW a \in Users, NEW vis \in Visibilities, NEW retitled \in BOOLEAN, NEW k \in Keys,
              UpdateChannel(a, vis, retitled, k)
       PROVE  OneOwner'
  BY <1>1, <1>10 DEF UpdateChannel, AnswerOnly, channel, roster
<1>11. ASSUME NEW u \in Users, NEW limit \in UseLimits, NEW k \in Keys, CreateInvite(u, limit, k)
       PROVE  OneOwner'
  BY <1>1, <1>11 DEF CreateInvite, channel, roster
<1> QED BY <1>3, <1>4, <1>5, <1>6, <1>7, <1>8, <1>9, <1>10, <1>11 DEF Handler

\* An active channel has exactly one owner, the one channel_meta names.
THEOREM AlwaysOneOwner == Spec => []OneOwner
<1>1. Init => OneOwner
  BY DEF Init, OneOwner
<1>2. TypeOK /\ OneOwner /\ [Next]_vars => OneOwner'
  BY OwnerCreate, OwnerHandler
     DEF Next, ExpireInvite, OneOwner, vars, channel, roster
<1> QED BY <1>1, <1>2, TypeCorrect, PTL DEF Spec

-----------------------------------------------------------------------------
(* What a handler does to the set of members: nothing, or one of five      *)
(* things.  The contract and the count both follow from this.              *)

Opens(first) == /\ kind = "none" /\ kind' # "none"
                /\ first # {}
                /\ ActiveMembers' = first
                /\ membership_version' \in 1 .. Cardinality(first)
                /\ member_count' = Cardinality(first)
                /\ UNCHANGED status

LetsIn(u) == /\ kind # "none" /\ status = "active"
             /\ u \notin ActiveMembers
             /\ ActiveMembers' = ActiveMembers \cup {u}
             /\ membership_version' = membership_version + 1
             /\ member_count' = member_count + 1
             /\ UNCHANGED <<kind, status>>

LetsOut(u) == /\ kind # "none"
              /\ u \in ActiveMembers
              /\ ActiveMembers' = ActiveMembers \ {u}
              /\ membership_version' = membership_version + 1
              /\ member_count' = IF member_count > 0 THEN member_count - 1 ELSE 0
              /\ UNCHANGED <<kind, status>>

ChangesRoles == /\ kind # "none" /\ status = "active"
                /\ membership_version' \in {membership_version + 1, membership_version + 2}
                /\ UNCHANGED <<kind, status, ActiveMembers, member_count>>

Closes == /\ kind # "none" /\ status = "active" /\ status' = "dissolved"
          /\ membership_version' = membership_version + 1
          /\ UNCHANGED <<kind, ActiveMembers, member_count>>

LeavesRoster == UNCHANGED <<kind, status, ActiveMembers, membership_version, member_count>>

Effect == \/ \E first \in SUBSET Users : Opens(first)
          \/ \E u \in Users : LetsIn(u) \/ LetsOut(u)
          \/ ChangesRoles \/ Closes \/ LeavesRoster

LEMMA CreateEffect == TypeOK /\ Create => Effect
<1> SUFFICES ASSUME TypeOK, Create PROVE Effect
  OBVIOUS
<1>1. ASSUME NEW o \in Users, NEW initial \in SUBSET Users, NEW vis \in Visibilities,
             NEW role \in [initial -> {"member", "admin"}], CreateChannel(o, initial, role, vis)
      PROVE  Opens(initial \cup {o})
  <2>1. o \notin initial
    BY <1>1 DEF CreateChannel
  <2>2. Cardinality(initial \cup {o}) = 1 + Cardinality(initial) /\ Cardinality(initial) \in Nat
    BY <2>1, ActiveFinite, FS_AddElement
  <2>3. ActiveMembers' = initial \cup {o}
    <3>1. \A u \in Users : members'[u] = CASE u = o -> "owner"
                                           [] u \in initial -> role[u]
                                           [] OTHER -> "none"
      BY <1>1 DEF CreateChannel
    <3>2. \A u \in Users : members'[u] \in Roles <=> u \in initial \cup {o}
      BY <3>1 DEF Roles
    <3> QED BY <3>2 DEF ActiveMembers
  <2> QED BY <1>1, <2>2, <2>3 DEF CreateChannel, Opens
<1>2. ASSUME NEW a \in Users, NEW b \in Users, CreateDm(a, b) PROVE Opens({a, b})
  <2>1. ActiveMembers' = {a, b}
    BY <1>2 DEF CreateDm, ActiveMembers, Roles
  <2>2. Cardinality({a, b}) = 2
    <3>1. Cardinality({a}) = 1 /\ IsFiniteSet({a})
      BY FS_Singleton
    <3>2. b \notin {a} /\ {a, b} = {a} \cup {b}
      BY <1>2 DEF CreateDm
    <3> QED BY <3>1, <3>2, FS_AddElement
  <2> QED BY <1>2, <2>1, <2>2 DEF CreateDm, Opens
<1>3. CASE \E o \in Users, initial \in SUBSET Users, vis \in Visibilities :
             \E role \in [initial -> {"member", "admin"}] : CreateChannel(o, initial, role, vis)
  <2>1. PICK o \in Users, initial \in SUBSET Users : Opens(initial \cup {o})
    BY <1>1, <1>3
  <2>2. initial \cup {o} \in SUBSET Users
    OBVIOUS
  <2> QED BY <2>1, <2>2 DEF Effect
<1>4. CASE \E a, b \in Users : CreateDm(a, b)
  <2>1. PICK a \in Users, b \in Users : Opens({a, b})
    BY <1>2, <1>4
  <2>2. {a, b} \in SUBSET Users
    OBVIOUS
  <2> QED BY <2>1, <2>2 DEF Effect
<1> QED BY <1>3, <1>4 DEF Create

LEMMA HandlerEffect == TypeOK /\ Handler => Effect
<1> SUFFICES ASSUME TypeOK, Handler PROVE Effect
  OBVIOUS
<1>1. ASSUME NEW r, AnswerOnly(r) PROVE Effect
  BY <1>1 DEF AnswerOnly, Effect, LeavesRoster, ActiveMembers, channel, roster
<1>2. ASSUME NEW u \in Users, NEW role \in {"member", "admin"}, kind # "none", status = "active",
             u \notin ActiveMembers, Admit(u, role)
      PROVE  Effect
  <2>1. ActiveMembers' = ActiveMembers \cup {u}
    BY <1>2 DEF Admit, TypeOK, ActiveMembers, Roles
  <2> QED BY <1>2, <2>1 DEF Admit, CountWith, Effect, LetsIn, channel
<1>3. ASSUME NEW u \in Users, NEW k \in Keys, Join(u, k) PROVE Effect
  BY <1>1, <1>2, <1>3 DEF Join, OpenChannel
<1>4. ASSUME NEW a \in Users, NEW u \in Users, NEW role \in {"member", "admin"}, NEW k \in Keys,
             AddMember(a, u, role, k)
      PROVE  Effect
  BY <1>1, <1>2, <1>4 DEF AddMember, OpenChannel
<1>5. ASSUME NEW u \in Users, NEW c \in Users, NEW k \in Keys, AcceptInvite(u, c, k)
      PROVE  Effect
  BY <1>1, <1>2, <1>5 DEF AcceptInvite
<1>6. ASSUME NEW a \in Users, NEW u \in Users, NEW k \in Keys, RemoveMember(a, u, k)
      PROVE  Effect
  <2>1. ActiveMembers' = ActiveMembers \ {u}
    BY <1>6 DEF RemoveMember, MarkLeft, TypeOK, ActiveMembers, Roles
  <2>2. LetsOut(u)
    BY <1>6, <2>1 DEF RemoveMember, LetsOut, channel
  <2> QED BY <2>2 DEF Effect
<1>7. ASSUME NEW a \in Users, NEW u \in Users, NEW role \in {"member", "admin"}, NEW k \in Keys,
             UpdateMemberRole(a, u, role, k)
      PROVE  Effect
  <2>1. UNCHANGED ActiveMembers
    BY <1>7 DEF UpdateMemberRole, TypeOK, ActiveMembers, Roles
  <2> QED BY <1>7, <2>1 DEF UpdateMemberRole, OpenChannel, Effect, ChangesRoles, channel
<1>8. ASSUME NEW a \in Users, NEW u \in Users, NEW role \in {"member", "admin"}, NEW k \in Keys,
             TransferOwner(a, u, role, k)
      PROVE  Effect
  <2>1. UNCHANGED ActiveMembers
    BY <1>8 DEF TransferOwner, HandOver, TypeOK, ActiveMembers, Roles
  <2> QED BY <1>8, <2>1 DEF TransferOwner, OpenChannel, Effect, ChangesRoles
<1>9. ASSUME NEW a \in Users, NEW k \in Keys, DissolveChannel(a, k) PROVE Effect
  BY <1>1, <1>9 DEF DissolveChannel, Effect, Closes, ActiveMembers
<1>10. ASSUME NEW a \in Users, NEW vis \in Visibilities, NEW retitled \in BOOLEAN, NEW k \in Keys,
              UpdateChannel(a, vis, retitled, k)
       PROVE  Effect
  BY <1>1, <1>10 DEF UpdateChannel, Effect, LeavesRoster, ActiveMembers, roster
<1>11. ASSUME NEW u \in Users, NEW limit \in UseLimits, NEW k \in Keys, CreateInvite(u, limit, k)
       PROVE  Effect
  BY <1>11 DEF CreateInvite, Effect, LeavesRoster, ActiveMembers, channel, roster
<1> QED BY <1>3, <1>4, <1>5, <1>6, <1>7, <1>8, <1>9, <1>10, <1>11 DEF Handler

LEMMA StepEffect == TypeOK /\ [Next]_vars => Effect
<1>1. UNCHANGED vars => Effect
  BY DEF vars, Effect, LeavesRoster, ActiveMembers
<1>2. ASSUME NEW c \in Users, ExpireInvite(c) PROVE Effect
  BY <1>2 DEF ExpireInvite, Effect, LeavesRoster, ActiveMembers, channel, roster
<1> QED BY <1>1, <1>2, CreateEffect, HandlerEffect DEF Next

-----------------------------------------------------------------------------
(* The count.                                                              *)

\* member_count, updated by hand in every handler, is the number of members.
THEOREM CountAlwaysMatches == Spec => []CountMatches
<1>1. Init => CountMatches
  <2>1. ASSUME Init PROVE ActiveMembers = {}
    BY <2>1 DEF Init, ActiveMembers, Roles
  <2> QED BY <2>1, FS_EmptySet DEF Init, CountMatches
<1>2. TypeOK /\ CountMatches /\ [Next]_vars => CountMatches'
  <2> SUFFICES ASSUME TypeOK, CountMatches, Effect PROVE CountMatches'
    BY StepEffect
  <2>1. ASSUME NEW first \in SUBSET Users, Opens(first) PROVE CountMatches'
    BY <2>1 DEF Opens, CountMatches
  <2>2. ASSUME NEW u \in Users, LetsIn(u) PROVE CountMatches'
    BY <2>2, ActiveFinite, FS_AddElement DEF LetsIn, CountMatches
  <2>3. ASSUME NEW u \in Users, LetsOut(u) PROVE CountMatches'
    <3>1. Cardinality(ActiveMembers \ {u}) = Cardinality(ActiveMembers) - 1
      BY <2>3, ActiveFinite, FS_RemoveElement DEF LetsOut
    <3>2. Cardinality(ActiveMembers) > 0
      BY <2>3, ActiveFinite, FS_EmptySet DEF LetsOut
    <3> QED BY <2>3, <3>1, <3>2, ActiveFinite DEF LetsOut, CountMatches
  <2>4. ASSUME ChangesRoles \/ Closes \/ LeavesRoster PROVE CountMatches'
    BY <2>4 DEF ChangesRoles, Closes, LeavesRoster, CountMatches
  <2> QED BY <2>1, <2>2, <2>3, <2>4 DEF Effect
<1> QED BY <1>1, <1>2, TypeCorrect, PTL DEF Spec

-----------------------------------------------------------------------------
(* The contract.                                                           *)

\* Only a channel that does not exist is at version 0.
Numbered == kind = "none" <=> membership_version = 0

LEMMA NumberedAlways == TypeOK /\ Numbered /\ Effect => Numbered'
<1> SUFFICES ASSUME TypeOK, Numbered, Effect PROVE Numbered'
  OBVIOUS
<1>1. membership_version \in Nat
  BY MembershipAssumption DEF TypeOK
<1>2. ASSUME NEW first \in SUBSET Users, Opens(first) PROVE Numbered'
  BY <1>2, ActiveFinite DEF Opens, Numbered
<1>3. ASSUME NEW u \in Users, LetsIn(u) \/ LetsOut(u) PROVE Numbered'
  BY <1>1, <1>3 DEF LetsIn, LetsOut, Numbered
<1>4. ASSUME ChangesRoles \/ Closes \/ LeavesRoster PROVE Numbered'
  BY <1>1, <1>4 DEF ChangesRoles, Closes, LeavesRoster, Numbered
<1> QED BY <1>2, <1>3, <1>4 DEF Effect

\* The handlers implement ChannelVersions: the set of members is a function
\* of membership_version, whatever is asked of the channel.
THEOREM ImplementsVersions == Spec => VersionsSpec
<1>1. Init => Versions!VInit
  BY DEF Init, Versions!VInit, ActiveMembers, Roles
<1>2. TypeOK /\ Numbered /\ [Next]_vars => [Versions!VNext]_(Versions!vvars)
  <2> SUFFICES ASSUME TypeOK, Numbered, Effect PROVE [Versions!VNext]_(Versions!vvars)
    BY StepEffect
  <2>1. membership_version \in Nat
    BY MembershipAssumption DEF TypeOK
  <2>2. ASSUME NEW first \in SUBSET Users, Opens(first) PROVE Versions!Open(first)
    <3>1. membership_version = 0 /\ UNCHANGED (status = "dissolved")
      BY <2>2 DEF Opens, Numbered
    <3>2. Versions!Cardinality(first) = Cardinality(first)
      BY Zenon DEF Cardinality, Versions!Cardinality
    <3> QED BY <2>2, <3>1, <3>2 DEF Opens, Versions!Open
  <2>3. ASSUME NEW u \in Users, LetsIn(u) PROVE Versions!Enter(u)
    BY <2>1, <2>3 DEF LetsIn, Numbered, Versions!Enter
  <2>4. ASSUME NEW u \in Users, LetsOut(u) PROVE Versions!Exit(u)
    BY <2>4 DEF LetsOut, Versions!Exit
  <2>5. ASSUME ChangesRoles PROVE Versions!Restate
    BY <2>1, <2>5 DEF ChangesRoles, Numbered, Versions!Restate
  <2>6. ASSUME Closes PROVE Versions!Close
    BY <2>1, <2>6 DEF Closes, Numbered, Versions!Close
  <2>7. ASSUME LeavesRoster PROVE UNCHANGED Versions!vvars
    BY <2>7 DEF LeavesRoster, Versions!vvars
  <2> QED BY <2>2, <2>3, <2>4, <2>5, <2>6, <2>7 DEF Effect, Versions!VNext
<1>3. Init => Numbered
  BY DEF Init, Numbered
<1>4. TypeOK /\ Numbered /\ [Next]_vars => Numbered'
  BY StepEffect, NumberedAlways
<1> QED BY <1>1, <1>2, <1>3, <1>4, TypeCorrect, PTL DEF Spec, VersionsSpec, Versions!VSpec

-----------------------------------------------------------------------------
(* Retries.                                                                *)

\* Whatever was answered is stored, and was answered once.
Remembered ==
  \A r \in Requests :
    \/ outcome[r] = "none"
    \/ r \in idempotency_keys /\ outcome[r] # "reapplied"

\* Every handler answers one request that had no answer yet.
LEMMA AnswersOnce ==
  ASSUME Handler
  PROVE  \E r \in Requests, effect \in {"noop", "applied"} : Fresh(r) /\ Answer(r, effect)
<1>1. \A u \in Users, op \in Operations, k \in Keys : <<u, op, k>> \in Requests
  BY DEF Requests
<1>2. ASSUME NEW r \in Requests, Fresh(r), AnswerOnly(r) \/ Answer(r, "applied")
      PROVE  \E q \in Requests, effect \in {"noop", "applied"} : Fresh(q) /\ Answer(q, effect)
  BY <1>2 DEF AnswerOnly
<1> USE DEF Operations
<1>3. ASSUME NEW u \in Users, NEW k \in Keys,
             \/ Join(u, k)
             \/ DissolveChannel(u, k)
             \/ \E limit \in UseLimits : CreateInvite(u, limit, k)
             \/ \E vis \in Visibilities, retitled \in BOOLEAN : UpdateChannel(u, vis, retitled, k)
      PROVE  \E q \in Requests, effect \in {"noop", "applied"} : Fresh(q) /\ Answer(q, effect)
  BY <1>1, <1>2, <1>3 DEF Join, DissolveChannel, CreateInvite, UpdateChannel
<1>4. ASSUME NEW u \in Users, NEW w \in Users, NEW k \in Keys,
             \/ RemoveMember(u, w, k)
             \/ AcceptInvite(u, w, k)
             \/ \E role \in {"member", "admin"} : \/ AddMember(u, w, role, k)
                                                  \/ UpdateMemberRole(u, w, role, k)
                                                  \/ TransferOwner(u, w, role, k)
      PROVE  \E q \in Requests, effect \in {"noop", "applied"} : Fresh(q) /\ Answer(q, effect)
  BY <1>1, <1>2, <1>4
     DEF RemoveMember, AcceptInvite, AddMember, UpdateMemberRole, TransferOwner
<1> QED BY <1>3, <1>4 DEF Handler

LEMMA AnswersRemembered == Spec => []Remembered
<1>1. Init => Remembered
  BY DEF Init, Remembered
<1>2. TypeOK /\ Remembered /\ [Next]_vars => Remembered'
  <2> SUFFICES ASSUME TypeOK, Remembered, [Next]_vars PROVE Remembered'
    OBVIOUS
  <2>1. ASSUME UNCHANGED <<idempotency_keys, outcome>> PROVE Remembered'
    BY <2>1 DEF Remembered
  <2>2. CASE Handler
    <3>1. PICK r \in Requests, effect \in {"noop", "applied"} : Fresh(r) /\ Answer(r, effect)
      BY <2>2, AnswersOnce
    <3>2. outcome[r] = "none" /\ idempotency_keys' = idempotency_keys \cup {r}
      BY <3>1 DEF Remembered, Fresh, Answer
    <3>3. outcome' = [outcome EXCEPT ![r] = effect]
      BY <3>1, <3>2 DEF Answer
    <3> QED BY <3>2, <3>3 DEF Remembered, TypeOK
  <2>3. CASE Create
    BY <2>1, <2>3 DEF Create, CreateChannel, CreateDm
  <2>4. CASE (\E c \in Users : ExpireInvite(c)) \/ UNCHANGED vars
    BY <2>1, <2>4 DEF ExpireInvite, vars
  <2> QED BY <2>2, <2>3, <2>4 DEF Next
<1> QED BY <1>1, <1>2, TypeCorrect, PTL DEF Spec

\* A request that was answered never takes effect afterwards.
THEOREM RetriesNeverReapply == Spec => []RetryNeverReapplies
<1>1. Remembered => RetryNeverReapplies
  BY DEF Remembered, RetryNeverReapplies
<1> QED BY <1>1, AnswersRemembered, PTL

-----------------------------------------------------------------------------
(* The uses of invites.  A use is spent and its entry is answered in one   *)
(* step; that no use is lost where they are counted needs that an invite   *)
(* has no more uses than there are answers.                                *)

Uses == {use \in Users \X (1 .. MaxRequests) : use[2] <= invites[use[1]].used}
Entries == {r \in Requests : r[2] = "accept" /\ outcome[r] = "applied"}

FewAnswers == /\ IsFiniteSet(idempotency_keys)
              /\ Cardinality(idempotency_keys) <= MaxRequests
              /\ \A c \in Users : invites[c].used <= MaxRequests

UsesInv == TypeOK /\ Remembered /\ FewAnswers /\ UsesAreEntries

SameUses == \A c \in Users : invites'[c].used = invites[c].used

Spends(c) == /\ invites'[c].used = invites[c].used + 1
             /\ \A d \in Users : d # c => invites'[d].used = invites[d].used

\* A request spends a use exactly if it is an acceptance that takes effect.
Spending(r, effect) ==
  \/ SameUses /\ ~(r[2] = "accept" /\ effect = "applied")
  \/ r[2] = "accept" /\ effect = "applied" /\ \E c \in Users : Spends(c)

LEMMA HandlersSpend ==
  ASSUME TypeOK, Handler
  PROVE  \E r \in Requests, effect \in {"noop", "applied"} :
           Fresh(r) /\ Answer(r, effect) /\ Spending(r, effect)
<1> DEFINE Goal == \E r \in Requests, effect \in {"noop", "applied"} :
                     Fresh(r) /\ Answer(r, effect) /\ Spending(r, effect)
<1>1. \A u \in Users, op \in Operations, k \in Keys : <<u, op, k>> \in Requests
  BY DEF Requests
<1>2. ASSUME NEW r \in Requests, Fresh(r), AnswerOnly(r) PROVE Goal
  BY <1>2 DEF AnswerOnly, Spending, SameUses
<1>3. ASSUME NEW r \in Requests, r[2] # "accept", Fresh(r), Answer(r, "applied"), SameUses
      PROVE  Goal
  BY <1>3 DEF Spending
<1>4. UNCHANGED invites => SameUses
  BY DEF SameUses
<1> HIDE DEF Goal
<1> USE DEF Operations
<1>5. ASSUME NEW u \in Users, NEW k \in Keys,
             \/ Join(u, k)
             \/ DissolveChannel(u, k)
             \/ \E vis \in Visibilities, retitled \in BOOLEAN : UpdateChannel(u, vis, retitled, k)
      PROVE  Goal
  BY <1>1, <1>2, <1>3, <1>4, <1>5 DEF Join, DissolveChannel, UpdateChannel
<1>6. ASSUME NEW u \in Users, NEW k \in Keys, NEW limit \in UseLimits, CreateInvite(u, limit, k)
      PROVE  Goal
  <2>1. SameUses
    BY <1>6 DEF CreateInvite, Offer, SameUses, TypeOK, Invite
  <2> QED BY <1>1, <1>3, <1>6, <2>1 DEF CreateInvite
<1>7. ASSUME NEW u \in Users, NEW w \in Users, NEW k \in Keys,
             \/ RemoveMember(u, w, k)
             \/ \E role \in {"member", "admin"} : \/ AddMember(u, w, role, k)
                                                  \/ UpdateMemberRole(u, w, role, k)
                                                  \/ TransferOwner(u, w, role, k)
      PROVE  Goal
  BY <1>1, <1>2, <1>3, <1>4, <1>7
     DEF RemoveMember, AddMember, UpdateMemberRole, TransferOwner
<1>8. ASSUME NEW u \in Users, NEW c \in Users, NEW k \in Keys, AcceptInvite(u, c, k)
      PROVE  Goal
  <2>1. CASE AnswerOnly(<<u, "accept", k>>)
    BY <1>1, <1>2, <1>8, <2>1 DEF AcceptInvite
  <2>2. CASE SpendUse(c) /\ Answer(<<u, "accept", k>>, "applied")
    <3>1. Spends(c)
      BY <2>2 DEF SpendUse, Spends, TypeOK, Invite
    <3>2. Spending(<<u, "accept", k>>, "applied")
      BY <3>1 DEF Spending
    <3> QED BY <1>1, <1>8, <2>2, <3>2 DEF AcceptInvite, Goal
  <2> QED BY <1>8, <2>1, <2>2 DEF AcceptInvite
<1> QED BY <1>5, <1>6, <1>7, <1>8 DEF Handler, Goal

\* An invite with all its uses counted has fewer than there may be answers.
LEMMA UsesFit ==
  ASSUME UsesInv, Cardinality(idempotency_keys) < MaxRequests, NEW c \in Users
  PROVE  /\ IsFiniteSet(Uses) /\ IsFiniteSet(Entries)
         /\ invites[c].used + 1 <= MaxRequests
<1> USE MembershipAssumption DEF UsesInv
<1>1. invites[c].used \in Nat /\ invites[c].used <= MaxRequests
  BY DEF TypeOK, Invite, FewAnswers
<1>2. IsFiniteSet(Uses)
  <2>1. IsFiniteSet(1 .. MaxRequests)
    BY FS_Interval
  <2>2. IsFiniteSet(Users \X (1 .. MaxRequests))
    BY <2>1, FS_Product
  <2>3. Uses \in SUBSET (Users \X (1 .. MaxRequests))
    BY DEF Uses
  <2> QED BY <2>2, <2>3, FS_Subset
<1>3. IsFiniteSet(Entries) /\ Cardinality(Entries) <= Cardinality(idempotency_keys)
  <2>1. Entries \in SUBSET idempotency_keys
    BY DEF Entries, Remembered
  <2> QED BY <2>1, FS_Subset DEF FewAnswers
<1>4. invites[c].used <= Cardinality(Uses)
  <2> DEFINE n == invites[c].used
             own == {c} \X (1 .. n)
  <2> HIDE DEF n
  <2>1. IsFiniteSet({c}) /\ Cardinality({c}) = 1
    BY FS_Singleton
  <2>2. n \in Nat /\ n <= MaxRequests
    BY <1>1 DEF n
  <2>3. Cardinality(own) = invites[c].used
    <3>1. IsFiniteSet(1 .. n) /\ Cardinality(1 .. n) = IF 1 > n THEN 0 ELSE n - 1 + 1
      BY <2>2, FS_Interval
    <3>2. Cardinality(1 .. n) = n
      BY <2>2, <3>1
    <3>3. Cardinality(own) = 1 * n
      BY <2>1, <3>1, <3>2, FS_Product, ZenonT(60)
    <3> QED BY <2>2, <3>3 DEF n
  <2>4. own \in SUBSET Uses
    BY <2>2 DEF Uses, n
  <2> QED BY <1>2, <2>3, <2>4, FS_Subset
<1>5. Cardinality(Uses) = Cardinality(Entries)
  BY DEF UsesAreEntries, Uses, Entries
<1>6. /\ Cardinality(Uses) \in Nat /\ Cardinality(Entries) \in Nat
      /\ Cardinality(idempotency_keys) \in Nat
  BY <1>2, <1>3, FS_CardinalityType DEF FewAnswers
<1> QED BY <1>1, <1>2, <1>3, <1>4, <1>5, <1>6

LEMMA UsesNext == UsesInv /\ TypeOK' /\ Remembered' /\ [Next]_vars => UsesInv'
<1> SUFFICES ASSUME UsesInv, TypeOK', Remembered', [Next]_vars
             PROVE  FewAnswers' /\ UsesAreEntries'
  BY DEF UsesInv
<1> USE DEF UsesInv
<1>1. UsesAreEntries <=> Cardinality(Uses) = Cardinality(Entries)
  BY DEF UsesAreEntries, Uses, Entries
<1>2. UsesAreEntries' <=> Cardinality(Uses') = Cardinality(Entries')
  BY DEF UsesAreEntries, Uses, Entries
<1>3. ASSUME UNCHANGED <<idempotency_keys, outcome>>, SameUses
      PROVE  FewAnswers' /\ UsesAreEntries'
  <2>1. UNCHANGED <<Uses, Entries>>
    BY <1>3 DEF Uses, Entries, SameUses
  <2> QED BY <1>1, <1>2, <1>3, <2>1 DEF FewAnswers, SameUses
<1>4. CASE Create \/ UNCHANGED vars
  <2>1. UNCHANGED <<idempotency_keys, outcome, invites>>
    BY <1>4 DEF Create, CreateChannel, CreateDm, vars
  <2> QED BY <1>3, <2>1 DEF SameUses
<1>5. ASSUME NEW c \in Users, ExpireInvite(c) PROVE FewAnswers' /\ UsesAreEntries'
  BY <1>3, <1>5 DEF ExpireInvite, SameUses, TypeOK, Invite
<1>6. CASE Handler
  <2>1. PICK r \in Requests, effect \in {"noop", "applied"} :
          Fresh(r) /\ Answer(r, effect) /\ Spending(r, effect)
    BY <1>6, HandlersSpend
  <2>2. outcome[r] = "none" /\ idempotency_keys' = idempotency_keys \cup {r}
    BY <2>1 DEF Remembered, Fresh, Answer
  <2>3. outcome' = [outcome EXCEPT ![r] = effect]
    BY <2>1, <2>2 DEF Answer
  <2>4. Cardinality(idempotency_keys) < MaxRequests
    BY <2>1 DEF Fresh
  <2>5. IsFiniteSet(idempotency_keys') /\ Cardinality(idempotency_keys') <= MaxRequests
    <3>1. IsFiniteSet(idempotency_keys) /\ Cardinality(idempotency_keys) \in Nat
      BY FS_CardinalityType DEF FewAnswers
    <3>2. /\ IsFiniteSet(idempotency_keys \cup {r})
          /\ Cardinality(idempotency_keys \cup {r}) <= Cardinality(idempotency_keys) + 1
      BY <3>1, FS_AddElement
    <3>3. Cardinality(idempotency_keys \cup {r}) \in Nat
      BY <3>2, FS_CardinalityType
    <3> QED BY <2>2, <2>4, <3>1, <3>2, <3>3, MembershipAssumption
  <2>6. CASE SameUses /\ ~(r[2] = "accept" /\ effect = "applied")
    <3>1. Uses' = Uses
      BY <2>6 DEF Uses, SameUses
    <3>2. Entries' = Entries
      BY <2>2, <2>3, <2>6 DEF Entries, TypeOK
    <3> QED BY <1>1, <1>2, <2>5, <2>6, <3>1, <3>2 DEF FewAnswers, SameUses
  <2>7. ASSUME r[2] = "accept", effect = "applied", NEW c \in Users, Spends(c)
        PROVE  FewAnswers' /\ UsesAreEntries'
    <3> DEFINE use == <<c, invites[c].used + 1>>
    <3>1. invites[c].used \in Nat /\ invites[c].used + 1 <= MaxRequests
      BY <2>4, UsesFit DEF TypeOK, Invite
    <3>2. Entries' = Entries \cup {r} /\ r \notin Entries
      BY <2>2, <2>3, <2>7 DEF Entries, TypeOK
    <3>3. use \notin Uses
      BY <3>1 DEF Uses
    <3>4. Uses' = Uses \cup {use}
      <4>1. \A p \in Users \X (1 .. MaxRequests) :
              p[2] <= invites'[p[1]].used <=> p[2] <= invites[p[1]].used \/ p = use
        <5> SUFFICES ASSUME NEW p \in Users \X (1 .. MaxRequests)
                     PROVE  p[2] <= invites'[p[1]].used <=>
                              p[2] <= invites[p[1]].used \/ p = use
          OBVIOUS
        <5>1. p = <<p[1], p[2]>> /\ p[1] \in Users /\ p[2] \in 1 .. MaxRequests
          OBVIOUS
        <5>2. CASE p[1] = c
          BY <2>7, <3>1, <5>1, <5>2 DEF Spends
        <5>3. CASE p[1] # c
          BY <2>7, <5>1, <5>3 DEF Spends
        <5> QED BY <5>2, <5>3
      <4>2. use \in Users \X (1 .. MaxRequests)
        BY <3>1, MembershipAssumption
      <4> HIDE DEF use
      <4> QED BY <4>1, <4>2 DEF Uses
    <3> HIDE DEF use
    <3>5. Cardinality(Uses') = Cardinality(Entries')
      <4>1. IsFiniteSet(Uses) /\ IsFiniteSet(Entries)
        BY <2>4, UsesFit
      <4>2. Cardinality(Uses') = Cardinality(Uses) + 1
        BY <3>3, <3>4, <4>1, FS_AddElement
      <4>3. Cardinality(Entries') = Cardinality(Entries) + 1
        BY <3>2, <4>1, FS_AddElement
      <4> QED BY <1>1, <4>2, <4>3
    <3>6. \A d \in Users : invites'[d].used <= MaxRequests
      BY <2>7, <3>1 DEF Spends, FewAnswers
    <3> QED BY <1>2, <2>5, <3>5, <3>6 DEF FewAnswers
  <2> QED BY <2>1, <2>6, <2>7 DEF Spending
<1> QED BY <1>4, <1>5, <1>6 DEF Next

\* Both counters that handlers move by hand tell what they count: however
\* often a request is repeated, an invite renewed and a member comes back, the
\* members are member_count and the uses spent are the people let in.
THEOREM CountersAlwaysMatch == Spec => []CountersMatch
<1>1. Init => FewAnswers /\ UsesAreEntries
  <2> SUFFICES ASSUME Init PROVE FewAnswers /\ UsesAreEntries
    OBVIOUS
  <2>1. Uses = {} /\ Entries = {}
    BY DEF Init, Uses, Entries
  <2>2. FewAnswers
    BY FS_EmptySet, MembershipAssumption DEF Init, FewAnswers
  <2> QED BY <2>1, <2>2 DEF UsesAreEntries, Uses, Entries
<1>2. UsesInv => UsesAreEntries
  BY DEF UsesInv
<1>3. CountMatches /\ UsesAreEntries => CountersMatch
  BY DEF CountersMatch
<1>4. UsesInv <=> TypeOK /\ Remembered /\ FewAnswers /\ UsesAreEntries
  BY DEF UsesInv
<1> QED
  BY <1>1, <1>2, <1>3, <1>4, UsesNext, TypeCorrect, AnswersRemembered, CountAlwaysMatches, PTL
     DEF Spec

=============================================================================
