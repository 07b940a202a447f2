----------------------------- MODULE CloudBackup -----------------------------
(***************************************************************************)
(* Cloud backup and restore beside CloudSync.  CloudBackupService exports  *)
(* the business tables, then reads the pull cursor and the conflicts for   *)
(* the envelope's watermark, each in a step of its own; a restore is one   *)
(* transaction, which may fall between any two steps of a running sync.    *)
(* Sync tables are not in a backup: a restore empties them.                *)
(***************************************************************************)
EXTENDS CloudSync

CONSTANTS
  Uploaders,  \* devices that upload backups
  Restorers,  \* devices the owner restores on
  Given       \* what the cloud may hold at first: envelopes, or None

\* What the cloud holds at first is from before the first push, so that its
\* watermark, if it has one, is that of an empty log.
ASSUME CloudBackupAssumption ==
  /\ Uploaders \subseteq Devices /\ Restorers \subseteq Devices
  /\ \A g \in Given \ {None} : /\ g.rec \in [Ids -> Bodies \cup {None}]
                                /\ g.wm \in {0, None}

VARIABLES cloud, upload

bvars == <<log, db, run, late, edits, cloud, upload>>

NoUpload == [at |-> "none", rec |-> <<>>, cursor |-> 0, wm |-> 0]

BackupInit ==
  /\ Init
  /\ cloud \in Given
  /\ upload = [d \in Devices |-> NoUpload]

\* uploadCurrent: the snapshot of the business tables ...
Export(d) ==
  /\ upload[d].at = "none"
  /\ upload' = [upload EXCEPT ![d] = [@ EXCEPT !.at = "exported", !.rec = db[d].rec]]
  /\ UNCHANGED <<vars, cloud>>

\* ... then the pull cursor ...
ReadCursor(d) ==
  /\ upload[d].at = "exported"
  /\ upload' = [upload EXCEPT ![d] = [@ EXCEPT !.at = "cursor", !.cursor = db[d].cursor]]
  /\ UNCHANGED <<vars, cloud>>

\* Variants: one too low; the next number.
WatermarkTooLow(cursor, s) ==
  IF Pending(s) = {} THEN cursor
  ELSE Min({cursor, Min({x.c.seq : x \in Pending(s)}) - 2})
WatermarkNext(cursor, s) == cursor + 1

\* The cursor, kept below the earliest conflict still pending.
Watermark(cursor, s) ==
  IF Pending(s) = {} THEN cursor
  ELSE Min({cursor, Min({x.c.seq : x \in Pending(s)}) - 1})

\* ... then the conflicts, for the watermark ...
ReadConflicts(d) ==
  /\ upload[d].at = "cursor"
  /\ upload' = [upload EXCEPT ![d] =
                  [@ EXCEPT !.at = "ready", !.wm = Watermark(upload[d].cursor, db[d])]]
  /\ UNCHANGED <<vars, cloud>>

\* Variant: the cursor is read after the conflicts, when the envelope is made.
UploadCursorNow(d) ==
  /\ upload[d].at = "ready"
  /\ cloud' = [rec |-> upload[d].rec,
               wm  |-> IF upload[d].wm < upload[d].cursor THEN upload[d].wm ELSE db[d].cursor]
  /\ upload' = [upload EXCEPT ![d] = NoUpload]
  /\ UNCHANGED vars

\* ... and, with key and encryption, the upload of the envelope.
Upload(d) ==
  /\ upload[d].at = "ready"
  /\ cloud' = [rec |-> upload[d].rec, wm |-> upload[d].wm]
  /\ upload' = [upload EXCEPT ![d] = NoUpload]
  /\ UNCHANGED vars

\* The size check, the key, the encryption or the upload itself fails.
UploadFails(d) ==
  /\ upload[d].at # "none"
  /\ upload' = [upload EXCEPT ![d] = NoUpload]
  /\ UNCHANGED <<vars, cloud>>

\* restoreFromDecodedJson's transaction: business tables replaced, sync
\* tables emptied, the push gate set, and the cursor written when the
\* envelope has a watermark.  AUTOINCREMENT keeps its high-water mark.
Restored(s, envelope) ==
  [s EXCEPT
     !.rec = envelope.rec,
     !.used = @ \cup {i \in Ids : envelope.rec[i] # None},
     !.meta = [i \in Ids |-> NoMeta], !.outbox = {}, !.conflicts = {},
     !.gated = TRUE,
     !.cursor = IF envelope.wm = None THEN @ ELSE envelope.wm]

Restore(d) ==
  /\ cloud # None
  /\ Edit(d, Restored(db[d], cloud))
  /\ UNCHANGED <<cloud, upload>>

UploadStep(d) ==
  Export(d) \/ ReadCursor(d) \/ ReadConflicts(d) \/ Upload(d) \/ UploadFails(d)

BackupNext ==
  \/ Next /\ UNCHANGED <<cloud, upload>>
  \/ \E d \in Uploaders : UploadStep(d)
  \/ \E d \in Restorers : Restore(d)

BackupSpec == BackupInit /\ [][BackupNext]_bvars
-----------------------------------------------------------------------------
\* The shape of the variables of backup.
BackupTypeOK ==
  /\ cloud # None => /\ cloud.rec \in [Ids -> Bodies \cup {None}]
                    /\ cloud.wm \in Nat \cup {None}
  /\ \A d \in Devices : /\ upload[d].at \in {"none", "exported", "cursor", "ready"}
                        /\ upload[d].cursor \in Nat /\ upload[d].wm \in Nat

\* What goes up never covers a change that is parked on its device by then,
\* whatever a pull parks and the owner resolves between the readings: who
\* restores it pulls the change again and gets the conflict back
\* (cloud_backup_service.dart:244-249).  A device that is restored itself
\* may have its cursor rewound in between.
ParkedNotCovered ==
  [][\A d \in Uploaders \ Restorers :
       Upload(d) => \A x \in Pending(db[d]) : cloud'.wm < x.c.seq]_bvars

\* But for a restore, which replaces it, a local change leaves the outbox as
\* ChangesKept says.
KeptUnlessRestored ==
  [][\A d \in Devices : (d \in Restorers /\ Restore(d)) \/ LeavesAccounted(d)]_bvars

\* What a device uploads, when the owner edits elsewhere, is at least as new
\* as its watermark (cloud_backup_service.dart:244-249).
SnapshotCoversWatermark ==
  cloud # None =>
    \A e \in Ids : \E n \in cloud.wm..Len(log) : cloud.rec[e] = Content(e, n)

\* Refuted: a restored device that nothing is edited on mirrors the log up to
\* its cursor.  Without a watermark it should start from 0
\* (cloud_backup_service.dart:236), but it keeps the cursor it had; with one,
\* a page in hand at the restore moves the cursor past changes
\* (docs/architecture/sync-transport-design.md:78).
RestoredMirrors ==
  \A d \in Restorers \ Writers, e \in Ids :
    (\A x \in db[d].conflicts : x.c.ent # e) => db[d].rec[e] = Content(e, db[d].cursor)
=============================================================================
