---------------------------- MODULE OutboxPlanner ----------------------------
(***************************************************************************)
(* How SyncManager turns the due rows of sync_outbox into what it sends    *)
(* (lib/infrastructure/sync/sync_manager_push_planner.dart).  Pure         *)
(* operators over a set of rows, the snapshot that listPending returned.   *)
(*                                                                         *)
(* A row has its id, its created_at (at), its entity (ent), its operation  *)
(* (op), and either transaction_group_id (gid) with local_sequence (lseq), *)
(* or NoGroup and 0, the nulls of an ordinary enqueue.                     *)
(***************************************************************************)
EXTENDS Integers, FiniteSets

CONSTANT NoGroup

\* created_at ASC, then id ASC
Before(a, b) == a.at < b.at \/ (a.at = b.at /\ a.id < b.id)

OfEntity(rows, e) == {r \in rows : r.ent = e}
OfGroup(rows, g)  == {r \in rows : r.gid = g}

IsLast(r, rows) == \A q \in rows \ {r} : Before(q, r)

\* The rows of one entity that the delete it ends in makes void: all of them
\* when one before it created the entity, else the updates.
Voided(own) ==
  IF \E r \in own : r.op = "create" /\ ~IsLast(r, own)
  THEN own
  ELSE {r \in own : r.op = "update"}

EndsInDelete(own) == \E r \in own : IsLast(r, own) /\ r.op = "delete"

\* No row of the set shares its transaction group with another entity.
GroupSafe(rows, set) ==
  \A r \in set : r.gid # NoGroup => \A q \in OfGroup(rows, r.gid) : q.ent = r.ent

\* _foldPendingRows: what is dropped from the outbox instead of sent.
Folded(rows) ==
  {r \in rows :
     LET own == OfEntity(rows, r.ent) IN
       /\ Cardinality(own) >= 2
       /\ EndsInDelete(own)
       /\ r \in Voided(own)
       /\ GroupSafe(rows, Voided(own))}

\* _buildOrderedSyncPushGroups: grouped rows together, any other row alone.
SendGroups(rows) ==
  {OfGroup(rows, r.gid) : r \in {q \in rows : q.gid # NoGroup}}
    \cup {{r} : r \in {q \in rows : q.gid = NoGroup}}

Earliest(group) == CHOOSE t \in {r.at : r \in group} : \A r \in group : t <= r.at

\* Groups go out by their earliest created_at; a tie goes by an opaque key,
\* here either way.
GoesBefore(g, h) == Earliest(g) < Earliest(h)

\* _groupInvalidReason, and the local_sequence of a row without a group.
Invalid(group) ==
  \/ \E r \in group : r.gid = NoGroup /\ r.lseq # 0
  \/ /\ \E r \in group : r.gid # NoGroup
     /\ {r.lseq : r \in group} # 1..Cardinality(group)
=============================================================================
