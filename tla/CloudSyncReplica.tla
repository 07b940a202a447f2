--------------------------- MODULE CloudSyncReplica ---------------------------
(***************************************************************************)
(* CloudSync implements LogReplica: the refinement mapping.  The readers   *)
(* are the devices nothing is edited on.  Of a row the abstract log has    *)
(* what it makes of its entity; a reader has gone as far as its cursor and *)
(* set aside what it parked.  A run is a step for each change it merges.   *)
(***************************************************************************)
EXTENDS CloudSync

Readers == Devices \ Writers

ASSUME BodiesAssumption == None \notin Bodies

\* What a change makes of its entity.
Makes(c)  == IF c.op = "delete" THEN None ELSE c.body
Brief(c) == [ent |-> c.ent, body |-> Makes(c)]

Replica == INSTANCE LogReplica WITH
  log   <- [i \in DOMAIN log |-> Brief(log[i])],
  pos   <- [d \in Readers |-> db[d].cursor],
  held  <- [d \in Readers |-> db[d].rec],
  aside <- [d \in Readers |-> {x.c.seq : x \in db[d].conflicts}]

\* A device that only pulls is a reader of the log: however answers are lost
\* and runs are killed between the reads and the writes of a merge, each row is
\* merged exactly once and in order, and none is parked but one that brings
\* back an entity deleted before.
ImplementsReplica == Replica!Spec

\* Refuted: a delete overtakes an earlier change of the record that is backing
\* off, and that one brings the record back.
NoneSetAside == \A d \in Readers : db[d].conflicts = {}
=============================================================================
