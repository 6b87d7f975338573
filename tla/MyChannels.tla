------------------------------- MODULE MyChannels -------------------------------
(***************************************************************************)
(* A user's UserDirectory row for one channel, as a value: what it holds,  *)
(* how a projection row of the channel's outbox changes it, and what       *)
(* listMyChannels makes of it.                                             *)
(***************************************************************************)
EXTENDS Integers

NoRow == [status |-> "none", mv |-> 0]

Statuses == {"none", "active", "left", "dissolved"}

UserRow(u, act, v) ==
  [target |-> "user_directory", user |-> u, action |-> act, mv |-> v]

\* Mutant: the version is not compared.
NeverStale(held, row) == held = NoRow /\ row.action = "leave"

\* A row that is not newer than the one held is ignored, and so is a leave
\* of a channel this directory never heard of.
Ignored(held, row) == IF held = NoRow THEN row.action = "leave" ELSE held.mv >= row.mv

Becomes == [join |-> "active", leave |-> "left", dissolve |-> "dissolved"]

\* Mutant: a stale row loses its version and keeps its effect.
UpsertKeepingVersion(held, row) ==
  IF held = NoRow /\ row.action = "leave" THEN held
  ELSE [status |-> Becomes[row.action], mv |-> IF held.mv >= row.mv THEN held.mv ELSE row.mv]

UpsertChannelProjection(held, row) ==
  IF Ignored(held, row) THEN held ELSE [status |-> Becomes[row.action], mv |-> row.mv]

\* A dissolved channel is still listed.
Listed(held) == held.status \in {"active", "dissolved"}

=============================================================================
