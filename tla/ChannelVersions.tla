---------------------------- MODULE ChannelVersions ----------------------------
(***************************************************************************)
(* What the rest of the system may assume of a channel's membership.       *)
(* ChatChannel is the authority on who is a member; every other object     *)
(* (UserDirectory, ChannelFanout, UserConnection) sees only the number     *)
(* membership_version and compares it.  Those comparisons mean something   *)
(* only if the set of active members is a function of the version: no      *)
(* change without a new number, at most one member per new number once     *)
(* the channel is open, and nobody enters a channel that is closed.        *)
(***************************************************************************)
EXTENDS Integers, FiniteSets

CONSTANT Users

VARIABLES version, active, closed

vvars == <<version, active, closed>>

VInit == /\ version = 0
         /\ active = {}
         /\ closed = FALSE

\* A channel or a DM is created with its first members; the versions it
\* spends on them are one per member, or one for all of them.
Open(first) == /\ version = 0
               /\ first # {}
               /\ version' \in 1 .. Cardinality(first)
               /\ active' = first
               /\ UNCHANGED closed

Enter(u) == /\ version > 0
            /\ ~closed
            /\ u \notin active
            /\ version' = version + 1
            /\ active' = active \cup {u}
            /\ UNCHANGED closed

Exit(u) == /\ u \in active
           /\ version' = version + 1
           /\ active' = active \ {u}
           /\ UNCHANGED closed

\* Roles change hands (an ownership transfer spends two versions).
Restate == /\ version > 0
           /\ ~closed
           /\ version' \in {version + 1, version + 2}
           /\ UNCHANGED <<active, closed>>

Close == /\ version > 0
         /\ ~closed
         /\ version' = version + 1
         /\ closed' = TRUE
         /\ UNCHANGED active

VNext == \/ \E first \in SUBSET Users : Open(first)
         \/ \E u \in Users : Enter(u) \/ Exit(u)
         \/ Restate
         \/ Close

VSpec == VInit /\ [][VNext]_vvars

=============================================================================
