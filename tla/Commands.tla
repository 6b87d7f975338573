-------------------------------- MODULE Commands --------------------------------
(***************************************************************************)
(* Slash commands of one channel: what it allows and blocks on top of the  *)
(* registry's catalog, the manifest a client keeps of it, and what is      *)
(* invoked.  A handler checks a call, waits for the catalog, the bot's     *)
(* connection and names, and commits in one transaction, which looks at    *)
(* some of what it checked again and at some not: an invocation answered   *)
(* at once at the manifest's version and the command's row, a change of a  *)
(* row at the caller's role, /permission and a stateful command at nothing *)
(* but the operation id.                                                   *)
(*                                                                         *)
(* What an item of the manifest says of its command is left out, and so    *)
(* are options, replies and messages.  The catalog is read where a handler *)
(* begins, and may be stale, or empty if the call failed, where it ends.   *)
(***************************************************************************)
EXTENDS CommandCatalog

CONSTANTS
  Users,
  Keys,          \* operation ids
  MaxVersion,    \* bound: changes of the channel's rows
  Slots          \* slots for handlers under way

ASSUME CommandsAssumption == MaxVersion \in Nat

VARIABLES
  roles,      \* role of every user, "none" outside the channel
  dissolved,  \* the channel is dissolved
  binding,    \* command -> row of channel_command_bindings
  version,    \* command_manifest_version
  deltas,     \* the deltas of binding_updated events, by version
  answer,     \* a manifest that waits for the catalog: version and rows
  copy,       \* the client's manifest
  handler,    \* slot -> handler under way
  done,       \* completed operations: name, user and key
  invoked     \* history: what was committed, as it was checked and found

tables == <<roles, dissolved, binding, version, deltas, done, invoked>>
client == <<answer, copy>>
mvars == <<catalog, tables, client, handler>>

Roles == {"none", "member", "admin", "owner"}
Rank(r) == CASE r = "owner" -> 3 [] r = "admin" -> 2 [] r = "member" -> 1 [] OTHER -> 0
Manages(u) == roles[u] \in {"admin", "owner"}

NoBinding == [status |-> "none", needs |-> "none", override |-> "none"]
Permissions == Definitions \cup {"none"}
Rows == [status : {"none", "allowed", "blocked"}, needs : Permissions, override : Permissions]

NoHandler == [kind |-> "idle"]
NoAnswer == [version |-> 0, rows |-> << >>]

ManifestTypeOK ==
  /\ CatalogTypeOK
  /\ roles \in [Users -> Roles]
  /\ binding \in [Commands -> Rows]
  /\ version = Len(deltas) /\ version <= MaxVersion
  /\ copy.version <= version
  /\ \A t \in Slots : handler[t].kind \in {"idle", "invoke", "stateful", "help", "permission", "bind"}
  /\ done \subseteq {"invoke", "bind"} \X Users \X Keys

MInit == /\ CInit
         /\ roles \in [Users -> Roles]
         /\ dissolved = FALSE
         /\ binding = [c \in Commands |-> NoBinding]
         /\ version = 0
         /\ deltas = << >>
         /\ answer = NoAnswer
         /\ copy = [version |-> 0, items |-> {}, sound |-> FALSE]
         /\ handler = [t \in Slots |-> NoHandler]
         /\ done = {}
         /\ invoked = {}

-----------------------------------------------------------------------------
(* The manifest: the rows merged with the official commands                *)

Ids(cat) == {e[1] : e \in cat}
CatalogBots(cat) == {c[1] : c \in Ids(cat)}
DefinitionIn(cat, c) == (CHOOSE e \in cat : e[1] = c)[2]

\* An official command is there unless it is blocked; another one if it is
\* allowed and its bot is not official.
Items(rows, cat) ==
  {c \in Ids(cat) : rows[c].status # "blocked"} \cup
  {c \in Commands : c[1] \notin CatalogBots(cat) /\ rows[c].status = "allowed"}

\* getCommandManifest reads version and rows at once, then asks for the catalog.
Ask == /\ answer = NoAnswer
       /\ ~dissolved
       /\ answer' = [version |-> version, rows |-> binding]
       /\ UNCHANGED <<catalog, tables, copy, handler>>

\* A catalog that cannot be had is taken for empty.
Answered(cat) ==
  /\ answer # NoAnswer
  /\ copy' = [version |-> answer.version, items |-> Items(answer.rows, cat),
              sound |-> cat = Official]
  /\ answer' = NoAnswer
  /\ UNCHANGED <<catalog, tables, handler>>

\* applyCommandManifestDelta: old ones are ignored, a gap asks for a refresh.
Follows(d, n) == n = copy.version + 1

\* A delta reaches the client late, twice, out of order or never.
Deliver(n) ==
  LET d == deltas[n]
  IN /\ Follows(d, n)
     /\ copy' = [version |-> n,
                 items |-> IF d.op = "upsert" THEN copy.items \cup {d.command}
                           ELSE copy.items \ {d.command},
                 sound |-> copy.sound /\ d.sound]
     /\ UNCHANGED <<catalog, tables, answer, handler>>

-----------------------------------------------------------------------------
(* Handlers up to their transaction.  The registry answers with its        *)
(* catalog or not at all.                                                  *)

Begins(t, h) == /\ handler[t] = NoHandler
                /\ handler' = [handler EXCEPT ![t] = h]
                /\ UNCHANGED <<catalog, tables, client>>

\* The row an invocation runs on: the channel's own, or the catalog's.
RowOf(c, cat) == IF binding[c].status = "allowed" THEN binding[c]
                 ELSE [status |-> "none", needs |-> DefinitionIn(cat, c), override |-> "none"]

Needs(row) == IF row.override # "none" THEN row.override ELSE row.needs

\* What every invocation asks first; the client names the version it has.
MayInvoke(u, k) == /\ <<"invoke", u, k>> \notin done
                   /\ ~dissolved
                   /\ roles[u] # "none"
                   /\ copy.version = version

Invoke(t, u, k, c, cat, mode) ==
  /\ MayInvoke(u, k)
  /\ binding[c].status = "allowed" \/ (binding[c].status = "none" /\ c \in Ids(cat))
  /\ Rank(roles[u]) >= Rank(Needs(RowOf(c, cat)))
  /\ Begins(t, [kind |-> mode, user |-> u, key |-> k, command |-> c, version |-> version,
                row |-> binding[c]])

Help(t, u, k) == MayInvoke(u, k) /\ Begins(t, [kind |-> "help", user |-> u, key |-> k])

\* /permission <command> on|off, for a command of the catalog or with a row.
Permission(t, u, k, c, want, cat) ==
  /\ MayInvoke(u, k) /\ Manages(u)
  /\ c \in Ids(cat) \/ (c[1] \notin CatalogBots(cat) /\ binding[c] # NoBinding)
  /\ ~(want = "allowed" /\ c \in Ids(cat) /\ binding[c].status # "blocked")
  /\ Begins(t, [kind |-> "permission", user |-> u, key |-> k, command |-> c, want |-> want,
                catalog |-> cat, row |-> binding[c]])

\* PATCH of a binding; a command that is allowed comes with its snapshot.
Bind(t, u, k, c, want, override, cat) ==
  /\ <<"bind", u, k>> \notin done
  /\ want = "allowed" =>
       /\ commands[c] # NoCommand
       /\ ~(c \in Ids(cat) /\ binding[c].status # "blocked")
  /\ Begins(t, [kind |-> "bind", user |-> u, key |-> k, command |-> c, want |-> want,
                catalog |-> cat, override |-> override,
                needs |-> commands[c].definition])

Lost(t) == /\ handler[t] # NoHandler
           /\ handler' = [handler EXCEPT ![t] = NoHandler]
           /\ UNCHANGED <<catalog, tables, client>>

-----------------------------------------------------------------------------
(* Their transactions                                                      *)

Operation(h) == <<IF h.kind = "bind" THEN "bind" ELSE "invoke", h.user, h.key>>

\* Mutant: an operation is looked up before the waits only.
Reopened(h) == TRUE

FirstTime(h) == Operation(h) \notin done

\* Mutant: a command that is not blocked runs as it was checked.
NotBlocked(h) == ~dissolved /\ binding[h.command].status # "blocked"

\* An invocation answered at once: the channel and the manifest are the ones it
\* was checked against.
StillAllowed(h) == /\ ~dissolved
                   /\ version = h.version
                   /\ binding[h.command].status # "blocked"

\* The rows are logged of an invocation answered at once.
Logged(t) ==
  LET h == handler[t]
      row(r) == IF h.kind = "invoke" THEN r ELSE NoBinding
  IN /\ done' = done \cup {Operation(h)}
     /\ invoked' = invoked \cup {[slot |-> t, operation |-> Operation(h),
                                  read |-> row(h.row), found |-> row(binding[h.command])]}

CommitInvocation(t) ==
  LET h == handler[t]
  IN /\ h.kind \in {"invoke", "stateful", "help"}
     /\ handler' = [handler EXCEPT ![t] = NoHandler]
     /\ IF FirstTime(h) /\ (h.kind = "invoke" => StillAllowed(h))
        THEN Logged(t)
        ELSE UNCHANGED <<done, invoked>>
     /\ UNCHANGED <<catalog, roles, dissolved, binding, version, deltas, client>>

\* A binding of an official command is lifted by deleting its row.  /permission
\* goes by the row it read before its waits; an absent row counts as blocked.
Lifts(h) == /\ h.want = "allowed"
            /\ h.command \in Ids(h.catalog)
            /\ IF h.kind = "permission" THEN h.row.status = "blocked"
               ELSE binding[h.command].status \in {"none", "blocked"}

\* What the transaction of a change looks at again.
MayChange(h) ==
  /\ FirstTime(h)
  /\ h.kind = "bind" => ~dissolved /\ Manages(h.user)
  /\ \/ binding[h.command] # NoBinding
     \/ Lifts(h)
     \/ IF h.want = "allowed" THEN h.kind = "bind" ELSE h.command \in Ids(h.catalog)

Changed(h) ==
  LET old == binding[h.command]
      override == IF h.kind = "bind" THEN h.override ELSE old.override
  IN CASE Lifts(h) -> NoBinding
       [] ~Lifts(h) /\ h.want = "allowed" ->
            [status |-> "allowed", override |-> override,
             needs |-> IF h.kind = "bind" THEN h.needs ELSE old.needs]
       [] h.want = "blocked" ->
            [status |-> "blocked", override |-> override,
             needs |-> IF old = NoBinding THEN DefinitionIn(h.catalog, h.command) ELSE old.needs]

\* Mutant: a row that is deleted is announced as a command that is gone.
DeltaOfRow(h) == [command |-> h.command, sound |-> h.catalog = Official,
                  op |-> IF Changed(h).status = "allowed" THEN "upsert" ELSE "remove"]

\* The delta of the event.  "sound" is history: the catalog was the true one.
Delta(h) == [command |-> h.command, sound |-> h.catalog = Official,
             op |-> IF h.want = "allowed" THEN "upsert" ELSE "remove"]

CommitChange(t) ==
  LET h == handler[t]
  IN /\ h.kind \in {"permission", "bind"}
     /\ version < MaxVersion   \* bound
     /\ handler' = [handler EXCEPT ![t] = NoHandler]
     /\ IF MayChange(h)
        THEN /\ binding' = [binding EXCEPT ![h.command] = Changed(h)]
             /\ version' = version + 1
             /\ deltas' = Append(deltas, Delta(h))
             /\ Logged(t)
        ELSE UNCHANGED <<binding, version, deltas, done, invoked>>
     /\ UNCHANGED <<catalog, roles, dissolved, client>>

-----------------------------------------------------------------------------
\* Members come, go and change roles.
Reroled(u, r) == /\ roles[u] # r
                 /\ roles' = [roles EXCEPT ![u] = r]
                 /\ UNCHANGED <<catalog, dissolved, binding, version, deltas, done, invoked,
                                client, handler>>

Dissolve == /\ ~dissolved
            /\ dissolved' = TRUE
            /\ UNCHANGED <<catalog, roles, binding, version, deltas, done, invoked, client, handler>>

\* The registry changes; a manifest that knows other official commands is no
\* longer sound, and nobody is told.
CatalogStep ==
  /\ CNext
  /\ copy' = [copy EXCEPT !.sound = @ /\ Official' = Official]
  /\ deltas' = [n \in DOMAIN deltas |-> [deltas[n] EXCEPT !.sound = @ /\ Official' = Official]]
  /\ UNCHANGED <<roles, dissolved, binding, version, done, invoked, answer, handler>>

MNext ==
  \/ CatalogStep
  \/ Dissolve
  \/ \E u \in Users, r \in Roles : Reroled(u, r)
  \/ Ask
  \/ \E cat \in {Official, {}} : Answered(cat)
  \/ \E n \in DOMAIN deltas : Deliver(n)
  \/ \E t \in Slots, u \in Users, k \in Keys :
       \/ Help(t, u, k)
       \/ \E c \in Commands, cat \in {Official, {}} :
            \/ \E m \in {"invoke", "stateful"} : Invoke(t, u, k, c, cat, m)
            \/ \E w \in {"allowed", "blocked"} :
                 \/ Permission(t, u, k, c, w, cat)
                 \/ \E o \in Permissions : Bind(t, u, k, c, w, o, cat)
  \/ \E t \in Slots : CommitInvocation(t) \/ CommitChange(t) \/ Lost(t)

MSpec == MInit /\ [][MNext]_mvars

-----------------------------------------------------------------------------
\* The tables of channel and registry hold values of their types, every version of
\* the manifest has its delta, and the registry's name table and commands agree.
ManifestInv == ManifestTypeOK /\ NamesAgree

\* A client that applies deltas as they come, late, twice or not at all, and has
\* the channel's version, has the channel's commands - if the catalog it was
\* given was the registry's and is still.
ManifestFollows ==
  copy.sound /\ copy.version = version => copy.items = Items(binding, Official)

\* A command answered at once runs on the row it was checked against, so with the
\* permission the channel asks for at that moment, however long the handler
\* waited for the bot.
CheckedIsCurrent == \A i \in invoked : i.read = i.found

\* One operation id has one effect: two handlers of a retried command, waiting
\* for the same bot, do not both run, and a binding is not changed twice.
ActsOnce ==
  \A i, j \in invoked : i.operation = j.operation => i = j

=============================================================================
