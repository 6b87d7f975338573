----------------------------- MODULE CommandCatalog -----------------------------
(***************************************************************************)
(* The bot registry's command catalog.  A bot syncs a list of commands,    *)
(* each with a name, aliases and a definition; names and aliases share one *)
(* namespace of slash tokens over all bots.  The list is hashed, which the *)
(* registry waits for, and then goes in within one transaction, command by *)
(* command.                                                                *)
(*                                                                         *)
(* A command is known by its bot and its name, for which the registry      *)
(* mints one id.  A definition is the permission it asks of a member; the  *)
(* rest of what the hash covers is left out.  Bots' tokens are left out: a *)
(* bot that syncs was active when its token was looked up.                 *)
(***************************************************************************)
EXTENDS Naturals, FiniteSets, Sequences

CONSTANTS
  Bots,
  Tokens,       \* slash tokens
  Definitions,
  Requests,     \* lists of commands a bot may sync
  SyncKeys,     \* idempotency keys of syncs
  MaxSchema,    \* bound: schema versions of a command
  Syncs         \* slots for syncs under way

Commands == Bots \X Tokens
TokensOf(c) == {c.name} \cup c.aliases

Listed == [name : Tokens, aliases : SUBSET Tokens, definition : Definitions]
Unused == <<"none", "none">>

\* What syncCommands accepts: no token twice in a list.  "none" is neither a
\* definition nor a bot.
ASSUME CatalogAssumption ==
  /\ \A r \in Requests :
       /\ r \in Seq(Listed)
       /\ \A n \in DOMAIN r : r[n].name \notin r[n].aliases
       /\ \A m, n \in DOMAIN r : m # n => TokensOf(r[m]) \cap TokensOf(r[n]) = {}
  /\ "none" \notin Definitions
  /\ Unused \notin Commands

VARIABLES
  bots,      \* row of bot_apps
  commands,  \* command -> row of bot_commands
  aliases,   \* command -> its rows of bot_command_aliases
  names,     \* token -> the command that has it in bot_command_names
  synced,    \* completed idempotency rows: bot and key
  sync       \* slot -> syncCommands under way

catalog == <<bots, commands, aliases, names, synced, sync>>

NoCommand == [definition |-> "none", version |-> 0]
NoSync == [bot |-> "none", key |-> "none", request |-> << >>]

CatalogTypeOK ==
  /\ bots \in [Bots -> [visibility : {"public", "official"}, status : {"active", "disabled", "deleted"}]]
  /\ \A c \in Commands : \/ commands[c] = NoCommand
                         \/ commands[c].definition \in Definitions /\ commands[c].version > 0
  /\ aliases \in [Commands -> SUBSET Tokens]
  /\ names \in [Tokens -> Commands \cup {Unused}]
  /\ synced \subseteq Bots \X SyncKeys

CInit == /\ bots = [b \in Bots |-> [visibility |-> "public", status |-> "active"]]
         /\ commands = [c \in Commands |-> NoCommand]
         /\ aliases = [c \in Commands |-> {}]
         /\ names = [k \in Tokens |-> Unused]
         /\ synced = {}
         /\ sync = [t \in Syncs |-> NoSync]

-----------------------------------------------------------------------------
Sync(t, b, k, r) ==
  /\ sync[t] = NoSync
  /\ bots[b].status = "active"
  /\ <<b, k>> \notin synced
  /\ sync' = [sync EXCEPT ![t] = [bot |-> b, key |-> k, request |-> r]]
  /\ UNCHANGED <<bots, commands, aliases, names, synced>>

Row(old, definition) ==
  [definition |-> definition,
   version |-> IF old.definition = definition THEN old.version ELSE old.version + 1]

\* Mutant: tokens a command no longer has stay its own.
Claimed(held, id, tokens) == [k \in Tokens |-> IF k \in tokens THEN id ELSE held[k]]

\* The command's tokens are deleted and inserted anew.
Renamed(held, id, tokens) ==
  [k \in Tokens |-> IF k \in tokens THEN id ELSE IF held[k] = id THEN Unused ELSE held[k]]

\* One command of a list: its row first, then the check of its tokens.
Upsert(b, acc, c) ==
  LET id == <<b, c.name>>
      row == [acc EXCEPT !.commands[id] = Row(acc.commands[id], c.definition)]
  IN IF acc.conflict THEN acc
     ELSE IF \E k \in TokensOf(c) : acc.names[k] \notin {Unused, id}
     THEN [row EXCEPT !.conflict = TRUE]
     ELSE [row EXCEPT !.aliases[id] = c.aliases, !.names = Renamed(acc.names, id, TokensOf(c))]

\* The whole list, one command after the other.
Upserted(b, r) ==
  LET after[n \in 0 .. Len(r)] ==
        IF n = 0
        THEN [commands |-> commands, aliases |-> aliases, names |-> names, conflict |-> FALSE]
        ELSE Upsert(b, after[n - 1], r[n])
  IN after[Len(r)]

\* A conflict returns from the transaction, which keeps what was written up to
\* there.  A key that was completed meanwhile makes the last insert throw.
Synced(t) ==
  LET h == sync[t]
      after == Upserted(h.bot, h.request)
      keeps == after.conflict \/ <<h.bot, h.key>> \notin synced
  IN /\ h # NoSync
     /\ \A c \in Commands : after.commands[c].version <= MaxSchema   \* bound
     /\ sync' = [sync EXCEPT ![t] = NoSync]
     /\ IF keeps
        THEN commands' = after.commands /\ aliases' = after.aliases /\ names' = after.names
        ELSE UNCHANGED <<commands, aliases, names>>
     /\ synced' = IF after.conflict THEN synced ELSE synced \cup {<<h.bot, h.key>>}
     /\ UNCHANGED bots

\* A deleted bot stays deleted.
UpdateBot(b, visibility, status) ==
  /\ bots[b].status # "deleted"
  /\ bots' = [bots EXCEPT ![b] = [visibility |-> visibility, status |-> status]]
  /\ UNCHANGED <<commands, aliases, names, synced, sync>>

\* officialCommands: the commands that every channel has unless it blocks them,
\* each with the permission it asks.
OfficialBots == {b \in Bots : bots[b] = [visibility |-> "official", status |-> "active"]}

Official == {<<c, commands[c].definition>> : c \in {d \in Commands :
              d[1] \in OfficialBots /\ commands[d] # NoCommand}}

CNext ==
  \/ \E t \in Syncs :
       \/ \E b \in Bots, k \in SyncKeys, r \in Requests : Sync(t, b, k, r)
       \/ Synced(t)
  \/ \E b \in Bots, v \in {"public", "official"}, s \in {"active", "disabled", "deleted"} :
       UpdateBot(b, v, s)

CSpec == CInit /\ [][CNext]_catalog

-----------------------------------------------------------------------------
\* The two tables agree, whatever lists were synced, in one piece or in part: a
\* token leads to a command that has it as its name or alias, and an alias of a
\* command leads to that command.
NamesAgree ==
  /\ \A k \in Tokens : names[k] # Unused => k \in {names[k][2]} \cup aliases[names[k]]
  /\ \A c \in Commands : \A k \in aliases[c] : names[k] = c

\* The plan: if a token is another command's, "abort whole request"; a sync that
\* is answered with a conflict leaves the catalog as it was.
RejectedChangesNothing ==
  [][\A t \in Syncs : sync[t] # NoSync /\ sync'[t] = NoSync /\ synced' = synced
       => UNCHANGED <<commands, aliases, names>>]_catalog

=============================================================================
