---------------------------- MODULE MCCloudSync ----------------------------
(* Up to two devices, up to two records and two bodies.  Devices start      *)
(* empty, or from one backup with every record in it and no metadata.       *)
EXTENDS CloudSyncReplica

CONSTANTS d1, d2, x, y

MCEmpty == [d \in Devices |-> NewStore]

MCSeeded == [d \in Devices |-> [NewStore EXCEPT !.rec = [i \in Ids |-> x], !.used = Ids]]
=============================================================================
