------------------------------- MODULE Stickers -------------------------------
(***************************************************************************)
(* A user's sticker library in UserDirectory: saving an image, deleting an *)
(* entry and saving it again.  An image that is not the user's own upload  *)
(* is shown by the channel it was seen in, an await between the look-up of *)
(* the request's key and the transaction that writes.  A row is kept when  *)
(* its sticker is deleted and revived when the image is saved again.       *)
(*                                                                         *)
(* A request that fails, and one that is refused, leaves nothing behind.   *)
(***************************************************************************)
EXTENDS Naturals, FiniteSets

CONSTANTS
  Attachments,  \* images
  Own,          \* those among them the user uploaded and finalized
  SaveRequests, \* [key, channel, attachment]: what clients send, and send again
  DeleteKeys,   \* values of Idempotency-Key for deletions
  SaveTasks,    \* slots for saves under way
  MaxPersonalStickers,
  MaxStickerIds \* bound: ids minted

ASSUME StickerAssumption ==
  /\ Own \subseteq Attachments
  /\ \A r \in SaveRequests : r.attachment \in Attachments
  /\ MaxPersonalStickers \in Nat /\ MaxStickerIds \in Nat

VARIABLES
  personal_stickers, \* attachment -> its row
  sticker_seq,       \* ids minted so far
  save_keys,         \* key -> row of operation sticker.save
  delete_keys,       \* key -> the id of operation sticker.delete, or 0
  saving,            \* slot -> handler between its transactions
  told,              \* history: <<request, id>>: saves that were answered
  effects            \* history: key -> how often it changed the library

svars == <<personal_stickers, sticker_seq, save_keys, delete_keys, saving, told, effects>>

SaveKeys == {r.key : r \in SaveRequests}
StickerIds == 1 .. MaxStickerIds
NoSticker == [sticker_id |-> 0, deleted |-> FALSE]
NoSave == [at |-> "idle"]
NotSaved == [status |-> "none"]

SInit == /\ personal_stickers = [a \in Attachments |-> NoSticker]
         /\ sticker_seq = 0
         /\ save_keys = [k \in SaveKeys |-> NotSaved]
         /\ delete_keys = [k \in DeleteKeys |-> 0]
         /\ saving = [s \in SaveTasks |-> NoSave]
         /\ told = {}
         /\ effects = [k \in SaveKeys |-> 0]

-----------------------------------------------------------------------------
(* saveSticker.                                                            *)

\* The stored answer of the same request; another body under its key is
\* refused.
Stored(r) == save_keys[r.key] # NotSaved /\ save_keys[r.key].request = r

Tell(r, id) == told' = told \cup {<<r, id>>}

\* The first transaction looks for an answer and for an upload of the user's.
Save(s, r) ==
  /\ saving[s] = NoSave
  /\ \/ /\ Stored(r)
        /\ Tell(r, save_keys[r.key].sticker_id)
        /\ UNCHANGED saving
     \/ /\ save_keys[r.key] = NotSaved
        /\ saving' = [saving EXCEPT ![s] =
             [at |-> IF r.attachment \in Own THEN "saving" ELSE "asking", request |-> r]]
        /\ UNCHANGED told
  /\ UNCHANGED <<personal_stickers, sticker_seq, save_keys, delete_keys, effects>>

\* resolveVisibleAttachment: the channel shows the image to its members.
Shown(s) ==
  /\ saving[s].at = "asking"
  /\ saving' = [saving EXCEPT ![s].at = "saving"]
  /\ UNCHANGED <<personal_stickers, sticker_seq, save_keys, delete_keys, told, effects>>

\* The channel refuses, a call fails, or the object is evicted.
SaveFails(s) ==
  /\ saving[s] # NoSave
  /\ saving' = [saving EXCEPT ![s] = NoSave]
  /\ UNCHANGED <<personal_stickers, sticker_seq, save_keys, delete_keys, told, effects>>

\* Mutant: the look-up before the await is enough.
FirstLookUp(r) == FALSE

\* The second transaction looks at the key again.
SavedMeanwhile(r) == save_keys[r.key] # NotSaved

InLibrary == {a \in Attachments : personal_stickers[a].sticker_id # 0
                                  /\ ~personal_stickers[a].deleted}

\* An image without a row takes a new id, if the library has room; a deleted
\* row is revived, without a look at the limit; a row that is there is
\* answered.
Commit(s) ==
  LET r == saving[s].request
      row == personal_stickers[r.attachment]
      id == IF row.sticker_id # 0 THEN row.sticker_id ELSE sticker_seq + 1
      changes == row.sticker_id = 0 \/ row.deleted
  IN /\ saving[s].at = "saving"
     /\ saving' = [saving EXCEPT ![s] = NoSave]
     /\ \/ /\ SavedMeanwhile(r)
           /\ IF Stored(r) THEN Tell(r, save_keys[r.key].sticker_id) ELSE UNCHANGED told
           /\ UNCHANGED <<personal_stickers, sticker_seq, save_keys, effects>>
        \/ /\ ~SavedMeanwhile(r)
           /\ row.sticker_id = 0 => Cardinality(InLibrary) < MaxPersonalStickers
           /\ id <= MaxStickerIds   \* bound
           /\ personal_stickers' = [personal_stickers EXCEPT ![r.attachment] =
                                      [sticker_id |-> id, deleted |-> FALSE]]
           /\ sticker_seq' = IF id > sticker_seq THEN id ELSE sticker_seq
           /\ save_keys' = [save_keys EXCEPT ![r.key] =
                              [status |-> "completed", request |-> r, sticker_id |-> id]]
           /\ effects' = [effects EXCEPT ![r.key] = IF changes THEN @ + 1 ELSE @]
           /\ Tell(r, id)
        \/ /\ ~SavedMeanwhile(r)
           /\ row.sticker_id = 0
           /\ Cardinality(InLibrary) >= MaxPersonalStickers
           /\ UNCHANGED <<personal_stickers, sticker_seq, save_keys, told, effects>>
     /\ UNCHANGED delete_keys

-----------------------------------------------------------------------------
(* deleteSticker: one transaction; an id without a row is deleted already. *)

Delete(k, id) ==
  /\ delete_keys[k] = 0
  /\ delete_keys' = [delete_keys EXCEPT ![k] = id]
  /\ personal_stickers' = [a \in Attachments |->
       IF personal_stickers[a].sticker_id = id
       THEN [personal_stickers[a] EXCEPT !.deleted = TRUE] ELSE personal_stickers[a]]
  /\ UNCHANGED <<sticker_seq, save_keys, saving, told, effects>>

SNext == \/ \E s \in SaveTasks : \/ \E r \in SaveRequests : Save(s, r)
                                 \/ Shown(s) \/ SaveFails(s) \/ Commit(s)
         \/ \E k \in DeleteKeys, id \in StickerIds : Delete(k, id)

SSpec == SInit /\ [][SNext]_svars

-----------------------------------------------------------------------------
(* Properties.                                                             *)

STypeOK ==
  /\ personal_stickers \in [Attachments -> [sticker_id : 0 .. MaxStickerIds,
                                            deleted : BOOLEAN]]
  /\ sticker_seq \in 0 .. MaxStickerIds
  /\ save_keys \in [SaveKeys -> {NotSaved} \cup [status : {"completed"},
                                   request : SaveRequests, sticker_id : StickerIds]]
  /\ delete_keys \in [DeleteKeys -> 0 .. MaxStickerIds]
  /\ saving \in [SaveTasks -> {NoSave} \cup [at : {"asking", "saving"},
                                             request : SaveRequests]]
  /\ told \subseteq SaveRequests \X StickerIds
  /\ effects \in [SaveKeys -> Nat]

\* A save has one effect, however often and in however many handlers at a
\* time it is sent: a retry that comes after the sticker was deleted again
\* does not bring it back.
SaveOnce == \A k \in SaveKeys : effects[k] <= 1

\* Whatever a save was ever answered names the row of its image, which keeps
\* its id through deletions and revivals, and no other image has that id:
\* an id a client holds can be sent and deleted.
ToldIdsStand ==
  \A t \in told : \A a \in Attachments :
    personal_stickers[a].sticker_id = t[2] <=> a = t[1].attachment
=============================================================================
