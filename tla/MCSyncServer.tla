---------------------------- MODULE MCSyncServer ----------------------------
(* Two request threads, two accounts and two entities; batches with a       *)
(* duplicate, a stale base, a chain within one batch and one too many.      *)
EXTENDS SyncServerLog

CONSTANTS h1, h2, a1, a2, e1, e2, p, q

Ch(e, b, k) == [ent |-> e, base |-> b, hash |-> k, del |-> k = q]

MCBatches == { <<Ch(e1, 0, p)>>, <<Ch(e1, 1, q), Ch(e2, 0, q)>>,
               <<Ch(e2, 0, p), Ch(e2, 1, q)>>,
               <<Ch(e1, 0, p), Ch(e1, 0, p), Ch(e1, 0, p)>> }
=============================================================================
