----------------------------- MODULE StateStore -----------------------------
(***************************************************************************)
(* What the stores of the daemon promise their users: a core state (reply  *)
(* records and metadata) and a configuration, each replaced as a whole by  *)
(* an update that saw the latest one.  Nothing else ever changes them: no  *)
(* restart, no failed operation, no import of older files and no migration *)
(* of an older database.                                                   *)
(***************************************************************************)
EXTENDS StoredReplies

CONSTANT Setting  \* contents of the configuration

VARIABLES replies, meta, settings

storeVars == <<replies, meta, settings>>

StoreInit ==
  /\ replies \in [Id -> Reply] /\ meta \in BOOLEAN /\ settings \in Setting

\* Records and metadata change together.
UpdateState ==
  /\ replies' \in Updates(replies)
  /\ meta' = UpdatedMeta(replies, replies', meta)
  /\ UNCHANGED settings

WriteSettings ==
  /\ settings' \in Setting
  /\ UNCHANGED <<replies, meta>>

StoreNext == UpdateState \/ WriteSettings

StoreSpec == StoreInit /\ [][StoreNext]_storeVars
=============================================================================
