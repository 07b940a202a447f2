----------------------------- MODULE DeviceStore -----------------------------
(***************************************************************************)
(* One device's SQLite database, as far as sync is concerned, and what     *)
(* each transaction of the app does to it.  A store is a record:           *)
(*   rec        timing_records: id -> body, None where there is no row     *)
(*   used       the ids AUTOINCREMENT will not give out again              *)
(*   meta       entity_sync_meta: id -> status, version, hash, deleted_at  *)
(*   outbox     sync_outbox                                                *)
(*   clock      what created_at is read from                               *)
(*   cursor, gated   sync_state                                            *)
(*   conflicts  sync_conflicts                                             *)
(* A change is a row of the server's log: seq, ent, op, body, base, ver.   *)
(***************************************************************************)
EXTENDS OutboxPlanner

CONSTANTS Ids, Bodies, None

\* payload_hash covers the operation and the record.
Hash(c) == <<c.op, c.body>>

\* No meta row; the resolver is given this one instead (_emptyLocalMeta).
NoMeta == [st |-> "synced", ver |-> 0, hash |-> None, del |-> FALSE]

NewStore ==
  [rec |-> [i \in Ids |-> None], used |-> {}, meta |-> [i \in Ids |-> NoMeta],
   outbox |-> {}, clock |-> 0, cursor |-> 0, gated |-> FALSE, conflicts |-> {}]

\* EntitySyncMetaRepository.upsert: version only grows, hash and deleted_at
\* stay unless given.
Upsert(old, st, ver, hash) ==
  [st |-> st, ver |-> IF ver > old.ver THEN ver ELSE old.ver,
   hash |-> IF hash = None THEN old.hash ELSE hash, del |-> old.del]

\* Variant: the operation is stored where the status belongs.
OperationAsStatus(op) == op

StatusFor(op) ==
  CASE op = "create" -> "pendingUpload"
    [] op = "update" -> "pendingUpdate"
    [] op = "delete" -> "pendingDelete"

\* TimingRecordSyncEnqueuer._enqueue, inside the caller's transaction.
EnqueueChange(s, id, op, body) ==
  [s EXCEPT
     !.clock  = @ + 1,
     !.outbox = @ \cup {[id |-> s.clock, at |-> s.clock, ent |-> id, op |-> op,
                         body |-> body, gid |-> NoGroup, lseq |-> 0, late |-> FALSE]},
     !.meta[id] = Upsert(@, StatusFor(op), 0, <<op, body>>)]

\* The owner saves or deletes a timing record.
CreateRecord(s, id, body) ==
  EnqueueChange([s EXCEPT !.rec[id] = body, !.used = @ \cup {id}], id, "create", body)
UpdateRecord(s, id, body) ==
  EnqueueChange([s EXCEPT !.rec[id] = body], id, "update", body)
DeleteRecord(s, id) ==
  EnqueueChange([s EXCEPT !.rec[id] = None], id, "delete", s.rec[id])

\* Variant: a remote delete leaves the record in place.
ApplyKeepingRecord(s, c) ==
  [s EXCEPT
     !.rec[c.ent]  = IF c.op = "delete" THEN @ ELSE c.body,
     !.used        = IF c.op = "delete" THEN @ ELSE @ \cup {c.ent},
     !.meta[c.ent] = [st |-> "synced", ver |-> c.ver, hash |-> Hash(c),
                      del |-> c.op = "delete"]]

\* TimingRecordRemoteChangeApplier.applyWithExecutor.
ApplyRemote(s, c) ==
  [s EXCEPT
     !.rec[c.ent]  = IF c.op = "delete" THEN None ELSE c.body,
     !.used        = IF c.op = "delete" THEN @ ELSE @ \cup {c.ent},
     !.meta[c.ent] = [st |-> "synced", ver |-> c.ver, hash |-> Hash(c),
                      del |-> c.op = "delete"]]

\* Variant: the change is applied and the cursor left where it is.
CursorUnwritten(s, n) == s

WriteCursor(s, n) == [s EXCEPT !.cursor = n]

\* insertIfAbsent: a conflict is keyed by entity and server_seq.
Park(s, c) ==
  IF \E x \in s.conflicts : x.c.seq = c.seq THEN s
  ELSE [s EXCEPT !.conflicts = @ \cup {[c |-> c, st |-> "pending"]}]

Pending(s) == {x \in s.conflicts : x.st = "pending"}

\* ConflictResolver.resolve says synced.
Agrees(m, c) ==
  \/ m.hash = Hash(c)
  \/ /\ ~(m.del /\ c.op # "delete")
     /\ c.ver > m.ver
     /\ m.st = "synced"

AlreadyApplied(m, c) == m.hash = Hash(c) /\ m.ver >= c.ver

\* One change of a pulled page, judged by the meta row m read before.
MergeChange(s, m, c) ==
  WriteCursor(CASE Agrees(m, c) /\ AlreadyApplied(m, c) -> s
                [] Agrees(m, c) /\ ~AlreadyApplied(m, c) -> ApplyRemote(s, c)
                [] ~Agrees(m, c) -> Park(s, c),
              c.seq)

\* Variant: an acknowledged row stays queued.
RowKept(s, r) == s

DeleteRow(s, r) == [s EXCEPT !.outbox = {x \in @ : x.id # r.id}]

MarkFailed(s, r) ==
  [s EXCEPT !.outbox = {IF x.id = r.id THEN [x EXCEPT !.late = TRUE] ELSE x : x \in @}]

\* Variant: one is added to a version that already counts the change.
AcknowledgeOneMore(s, r, ver) ==
  IF r.op # "delete" /\ s.meta[r.ent].st = StatusFor(r.op)
  THEN [s EXCEPT !.meta[r.ent] = [@ EXCEPT !.st = "synced", !.ver = ver + 1]]
  ELSE s

\* Clears the status the operation had set, and only that one; the version
\* is stored with it or not at all.
MarkPushAcknowledged(s, r, ver) ==
  IF r.op # "delete" /\ s.meta[r.ent].st = StatusFor(r.op)
  THEN [s EXCEPT !.meta[r.ent] = [@ EXCEPT !.st = "synced", !.ver = ver]]
  ELSE s

Resolve(s, x) ==
  [s EXCEPT !.conflicts = (@ \ {x}) \cup {[x EXCEPT !.st = "resolved"]}]

\* The owner settles a parked conflict for the remote side ...
UseRemote(s, x) ==
  LET t == ApplyRemote(s, x.c)
  IN Resolve([t EXCEPT !.outbox = @ \ OfEntity(@, x.c.ent)], x)

\* ... or for the local record, which then is pushed again.
UseLocal(s, x) ==
  LET e == x.c.ent
      t == [s EXCEPT !.meta[e] = Upsert(@, "synced", x.c.ver, None)]
  IN Resolve(EnqueueChange(t, e, "update", s.rec[e]), x)
=============================================================================
