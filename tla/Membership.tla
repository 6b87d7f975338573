------------------------------- MODULE Membership -------------------------------
(***************************************************************************)
(* The authoritative membership of one channel or DM: the ChatChannel      *)
(* Durable Object's channel_meta, members, invites and idempotency_keys    *)
(* tables, and the projection_outbox rows its handlers write in the same   *)
(* transaction.  One action per handler.  A Durable Object runs a          *)
(* transaction without interleaving, so a handler is one step; a request   *)
(* that is refused, or answered from idempotency_keys, writes nothing and  *)
(* is a stuttering step.                                                   *)
(***************************************************************************)
EXTENDS Integers, FiniteSets, MyChannels

CONSTANTS
  Users,        \* the users of the application
  Keys,         \* client-chosen operation ids (Idempotency-Key headers)
  UseLimits,    \* values a client may give for max_uses
  MaxVersion,   \* bound: no handler takes membership_version beyond it
  MaxRequests,  \* bound: how many requests are answered
  Offered,      \* the operations the clients of an instance ask for
  Kinds,        \* which rooms are created: a subset of {"channel", "dm"}
  Tracked       \* outbox targets whose rows are kept (see Emit)

NoUser == "no user"
NoLimit == -1   \* max_uses = NULL

ASSUME MembershipAssumption ==
  /\ NoUser \notin Users
  /\ IsFiniteSet(Users)
  /\ UseLimits \subseteq Nat \cup {NoLimit}
  /\ MaxVersion \in Nat /\ MaxRequests \in Nat
  /\ Kinds \subseteq {"channel", "dm"}

VARIABLES
  kind,               \* "none" before creation, then "channel" or "dm"
  status,             \* "active" or "dissolved"
  visibility,         \* "private", "public_unlisted" or "public_listed"
  created_by,         \* the owner recorded in channel_meta
  members,            \* user -> role while active; "left"; "none" if never in
  membership_version,
  member_count,
  invites,            \* creator -> that user's personal invite
  idempotency_keys,   \* requests with a stored response
  outbox,             \* pending projection_outbox rows
  clock,              \* orders outbox rows by next_attempt_at
  outcome             \* history: what the client was told about each request

channel == <<kind, status, visibility, created_by>>
roster == <<members, membership_version, member_count>>
vars == <<kind, status, visibility, created_by, members, membership_version,
          member_count, invites, idempotency_keys, outbox, clock, outcome>>

Roles == {"member", "admin", "owner"}
Visibilities == {"private", "public_unlisted", "public_listed"}
Operations == {"join", "add", "remove", "role", "transfer", "dissolve",
               "update", "invite", "accept"}
Requests == Users \X Operations \X Keys

ActiveMembers == {u \in Users : members[u] \in Roles}

-----------------------------------------------------------------------------
(* Rows of projection_outbox.                                              *)

FanoutRow(v) == [target |-> "channel_fanout", action |-> "fanout", mv |-> v]
UnregisterRow(u) ==
  [target |-> "channel_fanout", action |-> "unregister-user", user |-> u]
ListingUpsert(count, st) ==
  [target |-> "channel_directory", action |-> "upsert", count |-> count, status |-> st]
ListingDelete == [target |-> "channel_directory", action |-> "delete"]
InviteRow(u, limit) ==
  [target |-> "invite_directory", action |-> "upsert", user |-> u, limit |-> limit]

\* A row is due from the moment it is written; rows of one transaction share
\* that moment (nowIso) and rows of a later one come after it.  Rows for
\* targets outside Tracked are dropped: no table of the channel depends on
\* them, so a configuration follows the projections it asks about.
Emit(rows) ==
  LET kept == {r \in rows : r.target \in Tracked}
  IN /\ clock' = IF kept = {} THEN clock ELSE clock + 1
     /\ outbox' = outbox \cup
          {[row |-> r, due |-> clock + 1, attempts |-> 0] : r \in kept}

\* The listing of a public channel is refreshed with a full snapshot.
Listing(count, st) ==
  IF visibility = "public_listed" THEN {ListingUpsert(count, st)} ELSE {}

-----------------------------------------------------------------------------
(* Idempotency: the transaction looks the request up first and stores its  *)
(* response when it succeeds, whether or not anything else changed.        *)

Fresh(r) == /\ r[2] \in Offered
            /\ r \notin idempotency_keys
            /\ Cardinality(idempotency_keys) < MaxRequests   \* bound

Answer(r, effect) ==
  /\ idempotency_keys' = idempotency_keys \cup {r}
  /\ outcome' = [outcome EXCEPT ![r] =
                   CASE @ = "none" -> effect
                     [] @ # "none" /\ effect = "applied" -> "reapplied"
                     [] OTHER -> @]

\* Mutant: a request that changed nothing leaves no response behind.
AnswerNotStored(r) ==
  /\ outcome' = [outcome EXCEPT ![r] = IF @ = "none" THEN "noop" ELSE @]
  /\ UNCHANGED <<channel, roster, invites, idempotency_keys, outbox, clock>>

\* The response of a request that changed nothing is stored all the same.
AnswerOnly(r) == /\ Answer(r, "noop")
                 /\ UNCHANGED <<channel, roster, invites, outbox, clock>>

\* Mutant: the check that the channel is not dissolved is missing.
AnyChannel == kind = "channel"

OpenChannel == kind = "channel" /\ status = "active"

Room(n) == membership_version + n <= MaxVersion

-----------------------------------------------------------------------------
Init == /\ kind = "none"
        /\ status = "active"
        /\ visibility = "private"
        /\ created_by = NoUser
        /\ members = [u \in Users |-> "none"]
        /\ membership_version = 0
        /\ member_count = 0
        /\ invites = [u \in Users |-> [live |-> FALSE, max |-> 0, used |-> 0, made |-> FALSE]]
        /\ idempotency_keys = {}
        /\ outbox = {}
        /\ clock = 0
        /\ outcome = [r \in Requests |-> "none"]

\* createChannel: the creator joins at version 1, each initial member takes
\* one more; the creator's directory row carries 1, the others' the last one.
CreateChannel(o, initial, role, vis) ==
  LET last == 1 + Cardinality(initial)
  IN /\ kind = "none"
     /\ "channel" \in Kinds
     /\ o \notin initial
     /\ Room(last)
     /\ kind' = "channel"
     /\ visibility' = vis
     /\ created_by' = o
     /\ members' = [u \in Users |-> CASE u = o -> "owner"
                                      [] u \in initial -> role[u]
                                      [] OTHER -> "none"]
     /\ membership_version' = last
     /\ member_count' = last
     /\ Emit({FanoutRow(v) : v \in 1 .. last}
             \cup {UserRow(o, "join", 1)}
             \cup {UserRow(u, "join", last) : u \in initial}
             \cup (IF vis = "public_listed" THEN {ListingUpsert(last, "active")} ELSE {}))
     /\ UNCHANGED <<status, invites, idempotency_keys, outcome>>

\* createDm: two plain members share version 1, no channel event is fanned out.
CreateDm(a, b) ==
  /\ kind = "none"
  /\ "dm" \in Kinds
  /\ a # b
  /\ Room(1)
  /\ kind' = "dm"
  /\ created_by' = a
  /\ members' = [u \in Users |-> IF u \in {a, b} THEN "member" ELSE "none"]
  /\ membership_version' = 1
  /\ member_count' = 2
  /\ Emit({UserRow(u, "join", 1) : u \in {a, b}})
  /\ UNCHANGED <<status, visibility, invites, idempotency_keys, outcome>>

CountWith == member_count + 1

\* What joinChannel, addMember and acceptInvite do to the tables when u is
\* not active: first membership and rejoining are the same to the version,
\* the count and the outbox.
Admit(u, role) ==
  /\ Room(1)
  /\ members' = [members EXCEPT ![u] = role]
  /\ membership_version' = membership_version + 1
  /\ member_count' = CountWith
  /\ Emit({FanoutRow(membership_version + 1), UserRow(u, "join", membership_version + 1)}
          \cup Listing(CountWith, status))
  /\ UNCHANGED channel

Join(u, k) ==
  /\ OpenChannel
  /\ Fresh(<<u, "join", k>>)
  /\ \/ /\ u \in ActiveMembers
        /\ AnswerOnly(<<u, "join", k>>)
     \/ /\ u \notin ActiveMembers
        /\ visibility = "public_listed"
        /\ Admit(u, "member")
        /\ Answer(<<u, "join", k>>, "applied")
        /\ UNCHANGED invites

AddMember(a, u, role, k) ==
  /\ OpenChannel
  /\ Fresh(<<a, "add", k>>)
  /\ members[a] \in {"owner", "admin"}
  /\ u # a /\ u # created_by
  /\ \/ /\ members[u] = role
        /\ AnswerOnly(<<a, "add", k>>)
     \/ /\ u \notin ActiveMembers
        /\ Admit(u, role)
        /\ Answer(<<a, "add", k>>, "applied")
        /\ UNCHANGED invites

\* A dissolved channel can still be left, by oneself; the creator of an
\* active one cannot leave it.
MayRemove(a, u) ==
  IF status = "dissolved" THEN a = u
  ELSE IF a = u THEN u # created_by ELSE members[a] = "owner"

\* The row stays, with left_at set.
MarkLeft(u) == members' = [members EXCEPT ![u] = "left"]

RemoveMember(a, u, k) ==
  LET count == IF member_count > 0 THEN member_count - 1 ELSE 0
  IN /\ kind = "channel"
     /\ Fresh(<<a, "remove", k>>)
     /\ MayRemove(a, u)
     /\ u \in ActiveMembers
     /\ Room(1)
     /\ MarkLeft(u)
     /\ membership_version' = membership_version + 1
     /\ member_count' = count
     /\ Emit({UnregisterRow(u), FanoutRow(membership_version + 1),
              UserRow(u, "leave", membership_version + 1)}
             \cup Listing(count, status))
     /\ Answer(<<a, "remove", k>>, "applied")
     /\ UNCHANGED <<channel, invites>>

\* The role may be the one the member already has: the version moves anyway.
UpdateMemberRole(a, u, role, k) ==
  /\ OpenChannel
  /\ Fresh(<<a, "role", k>>)
  /\ members[a] = "owner"
  /\ u \in ActiveMembers
  /\ u # created_by /\ u # a
  /\ Room(1)
  /\ members' = [members EXCEPT ![u] = role]
  /\ membership_version' = membership_version + 1
  /\ Emit({FanoutRow(membership_version + 1), UserRow(u, "join", membership_version + 1)})
  /\ Answer(<<a, "role", k>>, "applied")
  /\ UNCHANGED <<channel, member_count, invites>>

\* Mutant: the roles change hands, channel_meta.created_by does not.
HandOverRoles(a, u, role) ==
  /\ members' = [members EXCEPT ![a] = role, ![u] = "owner"]
  /\ UNCHANGED created_by

HandOver(a, u, role) ==
  /\ members' = [members EXCEPT ![a] = role, ![u] = "owner"]
  /\ created_by' = u

\* Two role changes, two versions, two events, no directory row.
TransferOwner(a, u, role, k) ==
  /\ OpenChannel
  /\ Fresh(<<a, "transfer", k>>)
  /\ members[a] = "owner" /\ created_by = a
  /\ members[u] \in {"member", "admin"}
  /\ u # created_by
  /\ Room(2)
  /\ HandOver(a, u, role)
  /\ membership_version' = membership_version + 2
  /\ Emit({FanoutRow(membership_version + 1), FanoutRow(membership_version + 2)})
  /\ Answer(<<a, "transfer", k>>, "applied")
  /\ UNCHANGED <<kind, status, visibility, member_count, invites>>

\* Dissolving keeps the members' rows.  Dissolving again stores a response
\* for whoever asks: the ownership check comes after the status check.
DissolveChannel(a, k) ==
  /\ kind = "channel"
  /\ Fresh(<<a, "dissolve", k>>)
  /\ \/ /\ status = "dissolved"
        /\ AnswerOnly(<<a, "dissolve", k>>)
     \/ /\ status = "active"
        /\ created_by = a
        /\ Room(1)
        /\ status' = "dissolved"
        /\ membership_version' = membership_version + 1
        /\ Emit({FanoutRow(membership_version + 1)}
                \cup {UserRow(u, "dissolve", membership_version + 1) : u \in ActiveMembers}
                \cup (IF visibility = "public_listed" THEN {ListingDelete} ELSE {}))
        /\ Answer(<<a, "dissolve", k>>, "applied")
        /\ UNCHANGED <<kind, visibility, created_by, members, member_count, invites>>

\* Mutant: a channel that is no longer public is not taken off the list.
KeepListed(vis) ==
  IF vis = "public_listed" THEN {ListingUpsert(member_count, status)} ELSE {}

Relisting(vis) ==
  IF vis = "public_listed" THEN {ListingUpsert(member_count, status)}
  ELSE IF visibility = "public_listed" THEN {ListingDelete} ELSE {}

\* retitled stands for a change of title, topic or avatar.
UpdateChannel(a, vis, retitled, k) ==
  /\ OpenChannel
  /\ Fresh(<<a, "update", k>>)
  /\ members[a] \in {"owner", "admin"}
  /\ \/ /\ vis = visibility /\ ~retitled
        /\ AnswerOnly(<<a, "update", k>>)
     \/ /\ vis # visibility \/ retitled
        /\ visibility' = vis
        /\ Emit({FanoutRow(membership_version)} \cup Relisting(vis))
        /\ Answer(<<a, "update", k>>, "applied")
        /\ UNCHANGED <<kind, status, created_by, roster, invites>>

Offer(u, limit) ==
  invites' = [invites EXCEPT ![u].live = TRUE, ![u].max = limit, ![u].made = TRUE]

\* A user has one personal invite per channel; making it again renews its
\* expiry and its limit and keeps its count.  There is no check of kind.
CreateInvite(u, limit, k) ==
  /\ kind # "none" /\ status = "active"
  /\ Fresh(<<u, "invite", k>>)
  /\ u \in ActiveMembers
  /\ Offer(u, limit)
  /\ Emit({InviteRow(u, limit)})
  /\ Answer(<<u, "invite", k>>, "applied")
  /\ UNCHANGED <<channel, roster>>

ExpireInvite(c) ==
  /\ invites[c].live
  /\ invites' = [invites EXCEPT ![c].live = FALSE]
  /\ UNCHANGED <<channel, roster, idempotency_keys, outbox, clock, outcome>>

UsesLeft(c) == invites[c].max = NoLimit \/ invites[c].used < invites[c].max

\* Mutant: an entry that spends no use.
FreeUse(c) == UNCHANGED invites

SpendUse(c) == invites' = [invites EXCEPT ![c].used = @ + 1]

\* An active member's acceptance spends no use and needs none left.
AcceptInvite(u, c, k) ==
  /\ kind # "none" /\ status = "active"
  /\ Fresh(<<u, "accept", k>>)
  /\ invites[c].made /\ invites[c].live
  /\ \/ /\ u \in ActiveMembers
        /\ AnswerOnly(<<u, "accept", k>>)
     \/ /\ u \notin ActiveMembers
        /\ UsesLeft(c)
        /\ Admit(u, "member")
        /\ SpendUse(c)
        /\ Answer(<<u, "accept", k>>, "applied")

-----------------------------------------------------------------------------
Create == \/ \E o \in Users, initial \in SUBSET Users, vis \in Visibilities :
               \E role \in [initial -> {"member", "admin"}] :
                 CreateChannel(o, initial, role, vis)
          \/ \E a, b \in Users : CreateDm(a, b)

Handler == \E u \in Users, k \in Keys :
  \/ Join(u, k)
  \/ DissolveChannel(u, k)
  \/ \E limit \in UseLimits : CreateInvite(u, limit, k)
  \/ \E vis \in Visibilities, retitled \in BOOLEAN : UpdateChannel(u, vis, retitled, k)
  \/ \E w \in Users :
       \/ RemoveMember(u, w, k)
       \/ AcceptInvite(u, w, k)
       \/ \E role \in {"member", "admin"} :
            \/ AddMember(u, w, role, k)
            \/ UpdateMemberRole(u, w, role, k)
            \/ TransferOwner(u, w, role, k)

Next == Create \/ Handler \/ \E c \in Users : ExpireInvite(c)

Spec == Init /\ [][Next]_vars

-----------------------------------------------------------------------------
Rows ==
  [target : {"user_directory"}, user : Users, action : {"join", "leave", "dissolve"}, mv : Nat]
  \cup [target : {"channel_fanout"}, action : {"fanout"}, mv : Nat]
  \cup [target : {"channel_fanout"}, action : {"unregister-user"}, user : Users]
  \cup [target : {"channel_directory"}, action : {"upsert"}, count : Nat,
        status : {"active", "dissolved"}]
  \cup [target : {"channel_directory"}, action : {"delete"}]
  \cup [target : {"invite_directory"}, action : {"upsert"}, user : Users, limit : UseLimits]

Invite == [live : BOOLEAN, max : Nat \cup {NoLimit}, used : Nat, made : BOOLEAN]

\* The tables hold values of the types their columns declare.
TypeOK ==
  /\ kind \in {"none", "channel", "dm"}
  /\ status \in {"active", "dissolved"}
  /\ visibility \in Visibilities
  /\ created_by \in Users \cup {NoUser}
  /\ members \in [Users -> Roles \cup {"none", "left"}]
  /\ membership_version \in 0 .. MaxVersion
  /\ member_count \in Nat
  /\ invites \in [Users -> Invite]
  /\ idempotency_keys \subseteq Requests
  /\ outbox \subseteq [row : Rows, due : Int, attempts : Nat]
  /\ clock \in Nat
  /\ outcome \in [Requests -> {"none", "noop", "applied", "reapplied"}]

\* While a channel is active it has exactly one owner, the user recorded in
\* created_by: however ownership is passed on, and whoever leaves, is removed
\* and comes back, no second owner appears and the last one never goes.
OneOwner ==
  kind = "channel" /\ status = "active" => {u \in Users : members[u] = "owner"} = {created_by}

\* member_count, which every handler updates by hand, is the number of active
\* members, before and after dissolution.
CountMatches == member_count = Cardinality(ActiveMembers)

\* A request that was answered never takes effect afterwards: retrying a
\* join that found the user already a member, after that user has left, is
\* answered from the stored response and is not a rejoin.
RetryNeverReapplies == \A r \in Requests : outcome[r] # "reapplied"

\* used_count is true: the uses of all invites together are the acceptances
\* that let someone in.  Repeating an accepted request, accepting as a member,
\* leaving and coming back by an invite that was renewed meanwhile: no use is
\* lost and none is spent without an entry.
UsesAreEntries ==
  Cardinality({use \in Users \X (1 .. MaxRequests) : use[2] <= invites[use[1]].used})
    = Cardinality({r \in Requests : r[2] = "accept" /\ outcome[r] = "applied"})

\* The counters that handlers move by hand tell what they count.
CountersMatch == CountMatches /\ UsesAreEntries

\* Every handler respects the abstract contract on membership versions: the
\* active set changes only with the version, one member at a time, and no
\* one enters a dissolved channel.
Versions == INSTANCE ChannelVersions WITH
  version <- membership_version,
  active <- ActiveMembers,
  closed <- (status = "dissolved")
VersionsSpec == Versions!VSpec

=============================================================================
