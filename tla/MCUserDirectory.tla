---------------------------- MODULE MCUserDirectory ----------------------------
(***************************************************************************)
(* What UserDirectory keeps beside the channel list, for TLC: opening DMs, *)
(* uploads and stickers.  The three share an object and no row, so each    *)
(* area has behaviours of its own.                                         *)
(***************************************************************************)
EXTENDS DmOpening, Uploads, Stickers

CONSTANTS ada, bea, cid, k1, k2, h1, h2, room, cat, dog

VARIABLE area   \* the one that moves

MCUsers == {ada, bea, cid}
MCKeys == {k1}
MCHandlers == {h1, h2}

Open(u, r, k) == [user |-> u, recipient |-> r, key |-> k]

MCOpens == {Open(ada, bea, k1), Open(bea, ada, k1), Open(ada, cid, k1)}

TwoKeys == {k1, k2}

MCAttachments == {cat, dog}
MCOwn == {dog}
MCSaves == {[key |-> k, channel |-> room, attachment |-> a] : k \in TwoKeys, a \in MCAttachments}

Init == /\ area \in {"dms", "uploads", "stickers"}
        /\ DInit /\ UInit /\ SInit
        /\ area # "uploads" => side = "user"

Next == /\ \/ area = "dms" /\ DNext /\ UNCHANGED <<uvars, svars>>
           \/ area = "uploads" /\ UNext /\ UNCHANGED <<dvars, svars>>
           \/ area = "stickers" /\ SNext /\ UNCHANGED <<dvars, uvars>>
        /\ UNCHANGED area

Spec == Init /\ [][Next]_<<area, dvars, uvars, svars>> /\ DFair /\ UFair

\* Bounds.  DMs: two failures of one operation, one of the two that open the
\* same DM, and another DM without a failure.  Uploads: two requests at a time
\* for one upload, or a second upload, or a fault.
Operations == {o \in MCOpens : Standing(o)}

Busy == {h \in MCHandlers : upload[h] # NoUpload}

OneThing == /\ Cardinality(Operations) <= 2
            /\ Cardinality(Operations) = 2 => failures <= 1
            /\ Open(ada, cid, k1) \in Operations => failures = 0
            /\ Cardinality(Busy) = 2 => attachment_seq <= 1 /\ upload_faults = 0
=============================================================================
