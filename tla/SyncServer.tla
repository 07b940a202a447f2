----------------------------- MODULE SyncServer -----------------------------
(***************************************************************************)
(* The change log of the cloud sync backend (server/cloud_sync_backend).   *)
(*                                                                         *)
(* SyncHttpServer is a ThreadingHTTPServer: every request runs in a thread *)
(* of its own, opens its own SQLite connection and may interleave with any *)
(* other.  A push (SyncStore.push_changes) takes the write lock with BEGIN *)
(* IMMEDIATE, works through its batch against uncommitted rows and commits *)
(* or rolls back; a pull is one SELECT over committed rows.  The process   *)
(* may die at any point: SQLite keeps what was committed.                  *)
(*                                                                         *)
(* changes[a] is table sync_changes of account a, heads[a] its             *)
(* sync_entity_heads.  wrows and wheads are the tables of the writer's     *)
(* account as the open transaction sees them.                              *)
(***************************************************************************)
EXTENDS Integers, Sequences, FiniteSets

CONSTANTS
  Handlers,    \* request threads
  Accounts,
  Entities,    \* (entity_type, entity_id) pairs
  Hashes,      \* payload_hash values, stored verbatim
  Batches,     \* the bodies a client may push: sequences of changes
  MaxBatch,    \* MAX_BATCH_CHANGES
  MaxPull,     \* config.max_pull_limit
  Sinces, Limits,  \* the cursors and limits a client may ask a page with
  None

Change == [ent : Entities, base : Nat, hash : Hashes, del : BOOLEAN]

ASSUME BatchesAssumption == Batches \subseteq Seq(Change)
ASSUME LimitsAssumption  == MaxBatch \in Nat /\ MaxPull \in Nat \ {0}
                            /\ Sinces \subseteq Nat /\ Limits \subseteq Nat \ {0}
ASSUME NoneAssumption    == None \notin Handlers \cup Hashes \cup Accounts

VARIABLES
  changes, heads,          \* committed tables
  writer, wrows, wheads,   \* the open write transaction
  pc, acct, todo, reply    \* one entry per request thread

db   == <<changes, heads>>
txn  == <<writer, wrows, wheads>>
conn == <<pc, acct, todo, reply>>
vars == <<changes, heads, writer, wrows, wheads, pc, acct, todo, reply>>

Row  == [seq : Nat, ent : Entities, base : Nat, ver : Nat,
         hash : Hashes, del : BOOLEAN]
HeadRow == [ver : Nat, seq : Nat, hash : Hashes \cup {None}, del : BOOLEAN]

NoHead    == [ver |-> 0, seq |-> 0, hash |-> None, del |-> FALSE]
NoHeads   == [e \in Entities |-> NoHead]
Accepted  == [ent : Entities, seq : Nat, ver : Nat]
Conflict  == [ent : Entities, ver : Nat]
Reply     == [kind : {"none", "error", "push", "pull"},
              accepted : SUBSET Accepted, conflicts : SUBSET Conflict,
              page : SUBSET Row, since : Nat, next : Nat]

Answer(kind, accepted, conflicts, page, since, next) ==
  [kind |-> kind, accepted |-> accepted, conflicts |-> conflicts,
   page |-> page, since |-> since, next |-> next]
NoReply     == Answer("none", {}, {}, {}, 0, 0)
ErrorReply  == Answer("error", {}, {}, {}, 0, 0)
PushReply(accepted, conflicts) == Answer("push", accepted, conflicts, {}, 0, 0)
PullReply(page, since, next)   == Answer("pull", {}, {}, page, since, next)

\* Variant: the hash is answered where the version belongs.
AckWithHash(r) == [ent |-> r.ent, seq |-> r.seq, ver |-> r.hash]

\* What an accepted item of an answer says of a row.
Ack(r) == [ent |-> r.ent, seq |-> r.seq, ver |-> r.ver]

Seqs(S)  == {r.seq : r \in S}

\* COALESCE(MAX(server_seq), 0)
MaxSeq(S) == IF S = {} THEN 0
             ELSE CHOOSE m \in Seqs(S) : \A k \in Seqs(S) : k <= m

\* Variant: nothing is looked up.
NoLookup(S, c) == {}

\* The rows the idempotency lookup finds for a change.
Same(S, c) == {r \in S : r.ent = c.ent /\ r.hash = c.hash}

\* Variant: the newest rows come first.
NewestPage(S, since, limit) ==
  {r \in S : r.seq > since /\ Cardinality({q \in S : r.seq < q.seq}) < limit}

\* WHERE server_seq > since ORDER BY server_seq LIMIT limit
Page(S, since, limit) ==
  {r \in S : r.seq > since
             /\ Cardinality({q \in S : since < q.seq /\ q.seq < r.seq}) < limit}
-----------------------------------------------------------------------------
Init ==
  /\ changes = [a \in Accounts |-> {}]
  /\ heads   = [a \in Accounts |-> NoHeads]
  /\ writer  = None
  /\ wrows   = {}
  /\ wheads  = NoHeads
  /\ pc      = [h \in Handlers |-> "idle"]
  /\ acct    = [h \in Handlers |-> None]
  /\ todo    = [h \in Handlers |-> <<>>]
  /\ reply   = [h \in Handlers |-> NoReply]

\* POST /sync/changes arrives, authenticated for account a.
ReceivePush(h, a, batch) ==
  /\ pc[h] = "idle"
  /\ pc'   = [pc EXCEPT ![h] = "begin"]
  /\ acct' = [acct EXCEPT ![h] = a]
  /\ todo' = [todo EXCEPT ![h] = batch]
  /\ UNCHANGED <<changes, heads, writer, wrows, wheads, reply>>

AnswerError(h) ==
  /\ pc'    = [pc EXCEPT ![h] = "done"]
  /\ todo'  = [todo EXCEPT ![h] = <<>>]
  /\ reply' = [reply EXCEPT ![h] = ErrorReply]
  /\ UNCHANGED <<changes, heads, acct>>

\* 413: the batch is larger than MAX_BATCH_CHANGES.
RejectBatch(h) ==
  /\ pc[h] = "begin"
  /\ Len(todo[h]) > MaxBatch
  /\ AnswerError(h)
  /\ UNCHANGED txn

\* 429 or 400: the account is over its rate limit or a change does not parse.
RefusePush(h) ==
  /\ pc[h] = "begin"
  /\ AnswerError(h)
  /\ UNCHANGED txn

\* Variant: a connection waits for the lock without end.
NeverGivesUp(h) == FALSE

\* SQLite gives up waiting for another connection's write lock: 500.
BusyTimeout(h) ==
  /\ pc[h] = "begin"
  /\ writer # None
  /\ AnswerError(h)
  /\ UNCHANGED txn

BeginImmediate(h) ==
  /\ pc[h] = "begin"
  /\ Len(todo[h]) <= MaxBatch
  /\ writer = None
  /\ writer' = h
  /\ wrows'  = changes[acct[h]]
  /\ wheads' = heads[acct[h]]
  /\ pc'     = [pc EXCEPT ![h] = "writing"]
  /\ reply'  = [reply EXCEPT ![h] = PushReply({}, {})]
  /\ UNCHANGED <<changes, heads, acct, todo>>

\* The transaction of h has a change left to process.
Processing(h) == pc[h] = "writing" /\ writer = h /\ todo[h] # <<>>

\* The same payload is already logged for the entity: answer with its row.
PushDuplicate(h) ==
  /\ Processing(h)
  /\ \E r \in Same(wrows, Head(todo[h])) :
       reply' = [reply EXCEPT ![h] = PushReply(@.accepted \cup {Ack(r)}, @.conflicts)]
  /\ todo' = [todo EXCEPT ![h] = Tail(@)]
  /\ UNCHANGED <<changes, heads, writer, wrows, wheads, pc, acct>>

\* Variant: the rest of the batch is left aside.
PushConflictStops(h) ==
  /\ Processing(h)
  /\ LET c == Head(todo[h]) IN
       /\ Same(wrows, c) = {}
       /\ c.base # wheads[c.ent].ver
       /\ reply' = [reply EXCEPT ![h] =
            PushReply(@.accepted,
                      @.conflicts \cup {[ent |-> c.ent, ver |-> wheads[c.ent].ver]})]
  /\ todo' = [todo EXCEPT ![h] = <<>>]
  /\ UNCHANGED <<changes, heads, writer, wrows, wheads, pc, acct>>

\* base_version is not the head's version: nothing is written.
PushConflict(h) ==
  /\ Processing(h)
  /\ LET c == Head(todo[h]) IN
       /\ Same(wrows, c) = {}
       /\ c.base # wheads[c.ent].ver
       /\ reply' = [reply EXCEPT ![h] =
            PushReply(@.accepted,
                      @.conflicts \cup {[ent |-> c.ent, ver |-> wheads[c.ent].ver]})]
  /\ todo' = [todo EXCEPT ![h] = Tail(@)]
  /\ UNCHANGED <<changes, heads, writer, wrows, wheads, pc, acct>>

\* Variant: the number is used up already.
LastSeq == MaxSeq(wrows)

NextSeq == MaxSeq(wrows) + 1

\* The row an accepted change is logged as.
NewRow(c) == [seq |-> NextSeq, ent |-> c.ent, base |-> c.base,
              ver |-> wheads[c.ent].ver + 1, hash |-> c.hash, del |-> c.del]

\* Variant: the head keeps the version the change was based on.
HeadOfBase(r) == [ver |-> r.base, seq |-> r.seq, hash |-> r.hash, del |-> r.del]

\* The head row it leaves.
HeadOf(r) == [ver |-> r.ver, seq |-> r.seq, hash |-> r.hash, del |-> r.del]

PushAccept(h) ==
  /\ Processing(h)
  /\ LET c == Head(todo[h])
         r == NewRow(c) IN
       /\ Same(wrows, c) = {}
       /\ c.base = wheads[c.ent].ver
       /\ wrows'  = wrows \cup {r}
       /\ wheads' = [wheads EXCEPT ![c.ent] = HeadOf(r)]
       /\ reply'  = [reply EXCEPT ![h] = PushReply(@.accepted \cup {Ack(r)}, @.conflicts)]
  /\ todo' = [todo EXCEPT ![h] = Tail(@)]
  /\ UNCHANGED <<changes, heads, writer, pc, acct>>

EndTransaction ==
  /\ writer' = None
  /\ wrows'  = {}
  /\ wheads' = NoHeads

CommitPush(h) ==
  /\ pc[h] = "writing" /\ writer = h
  /\ todo[h] = <<>>
  /\ changes' = [changes EXCEPT ![acct[h]] = wrows]
  /\ heads'   = [heads EXCEPT ![acct[h]] = wheads]
  /\ EndTransaction
  /\ pc' = [pc EXCEPT ![h] = "done"]
  /\ UNCHANGED <<acct, todo, reply>>

\* Variant: the exception is swallowed, what was collected is answered.
RollbackAnswering(h) ==
  /\ pc[h] = "writing" /\ writer = h
  /\ EndTransaction
  /\ pc'   = [pc EXCEPT ![h] = "done"]
  /\ todo' = [todo EXCEPT ![h] = <<>>]
  /\ UNCHANGED <<changes, heads, acct, reply>>

\* An exception inside the transaction: roll back, answer 500.
RollbackPush(h) ==
  /\ pc[h] = "writing" /\ writer = h
  /\ EndTransaction
  /\ AnswerError(h)

\* GET /sync/changes?since=&limit=: one SELECT over the committed rows.
ServePull(h, a, since, limit) ==
  /\ pc[h] = "idle"
  /\ LET rows == Page(changes[a], since, IF limit < MaxPull THEN limit ELSE MaxPull) IN
       reply' = [reply EXCEPT ![h] =
                   PullReply(rows, since, IF rows = {} THEN since ELSE MaxSeq(rows))]
  /\ pc'   = [pc EXCEPT ![h] = "done"]
  /\ acct' = [acct EXCEPT ![h] = a]
  /\ UNCHANGED <<changes, heads, writer, wrows, wheads, todo>>

\* The answer has left (or its connection is gone); the thread ends.
Finish(h) ==
  /\ pc[h] = "done"
  /\ pc'    = [pc EXCEPT ![h] = "idle"]
  /\ acct'  = [acct EXCEPT ![h] = None]
  /\ reply' = [reply EXCEPT ![h] = NoReply]
  /\ UNCHANGED <<changes, heads, writer, wrows, wheads, todo>>

\* The process dies and is restarted; uncommitted work is lost.
Crash ==
  /\ EndTransaction
  /\ pc'    = [h \in Handlers |-> "idle"]
  /\ acct'  = [h \in Handlers |-> None]
  /\ todo'  = [h \in Handlers |-> <<>>]
  /\ reply' = [h \in Handlers |-> NoReply]
  /\ UNCHANGED <<changes, heads>>

\* What a thread does by itself once its request is in.
Work(h) ==
  \/ RejectBatch(h) \/ BeginImmediate(h) \/ BusyTimeout(h)
  \/ PushDuplicate(h) \/ PushConflict(h) \/ PushAccept(h)
  \/ CommitPush(h)
  \/ Finish(h)

Next ==
  \/ \E h \in Handlers :
       \/ Work(h)
       \/ RefusePush(h) \/ RollbackPush(h)
       \/ \E a \in Accounts, b \in Batches : ReceivePush(h, a, b)
       \/ \E a \in Accounts, since \in Sinces, limit \in Limits :
            ServePull(h, a, since, limit)
  \/ Crash

Spec == Init /\ [][Next]_vars

\* A thread that can run does run; nothing is assumed about arrivals,
\* refusals, exceptions or crashes.
Fairness == \A h \in Handlers : WF_vars(Work(h))
FairSpec == Spec /\ Fairness
-----------------------------------------------------------------------------
\* The shape of every variable.
TypeOK ==
  /\ changes \in [Accounts -> SUBSET Row]
  /\ heads   \in [Accounts -> [Entities -> HeadRow]]
  /\ writer  \in Handlers \cup {None}
  /\ wrows   \in SUBSET Row
  /\ wheads  \in [Entities -> HeadRow]
  /\ pc      \in [Handlers -> {"idle", "begin", "writing", "done"}]
  /\ acct    \in [Handlers -> Accounts \cup {None}]
  /\ todo    \in [Handlers -> Seq(Change)]
  /\ reply   \in [Handlers -> Reply]

RowsOf(S, e) == {r \in S : r.ent = e}

\* server_seq numbers the rows of an account 1..n.
GapFree(S) == \E n \in {0} \cup Seqs(S) : Seqs(S) = 1..n

\* One server_seq, one row; one payload_hash of an entity, one row.
KeysUnique(S) ==
  \A r, q \in S : (r.seq = q.seq \/ (r.ent = q.ent /\ r.hash = q.hash)) => r = q

\* Among the rows of an entity a later row builds on exactly the one before
\* it: its base is that row's version, and versions grow by one.
Chained(S) ==
  \A r \in S :
    /\ r.ver = r.base + 1
    /\ r.base = 0 \/ \E q \in RowsOf(S, r.ent) : q.ver = r.base /\ q.seq < r.seq
    /\ \A q \in RowsOf(S, r.ent) : q.seq < r.seq => q.ver < r.ver

\* The head row of an entity is its last change, or there is neither.
HeadsMatch(S, H) ==
  \A e \in Entities :
    \/ H[e] = NoHead /\ RowsOf(S, e) = {}
    \/ \E r \in RowsOf(S, e) :
         /\ H[e] = [ver |-> r.ver, seq |-> r.seq, hash |-> r.hash, del |-> r.del]
         /\ \A q \in RowsOf(S, e) : q.seq <= r.seq

\* Concurrent pushes never leave a hole or a duplicate in the numbering a
\* pull cursor relies on, in the payload hashes, or in an entity's versions.
LogWellFormed ==
  \A a \in Accounts :
    GapFree(changes[a]) /\ KeysUnique(changes[a]) /\ Chained(changes[a])

\* The denormalised heads, which decide every later conflict, agree with the
\* log they summarise, whatever was rolled back or lost in a crash.
HeadsMatchLog == \A a \in Accounts : HeadsMatch(changes[a], heads[a])

\* A page has every committed row between the cursor it was asked with and
\* the cursor it hands back, also when pushes commit after the SELECT: a
\* client that moves to next_cursor never skips a row.
PageComplete ==
  \A h \in Handlers :
    reply[h].kind = "pull" =>
      reply[h].page = {r \in changes[acct[h]] :
                        reply[h].since < r.seq /\ r.seq <= reply[h].next}

\* Every change a finished push answers as accepted is committed under the
\* account that pushed it, with the server_seq and version of the answer.
AcceptedIsCommitted ==
  \A h \in Handlers :
    pc[h] = "done" =>
      \A x \in reply[h].accepted :
        \E r \in changes[acct[h]] : r.ent = x.ent /\ r.seq = x.seq /\ r.ver = x.ver

\* The log of an account only grows, and only at its end.
AppendOnly ==
  [][\A a \in Accounts :
       /\ changes[a] \subseteq changes'[a]
       /\ \A r \in changes'[a] \ changes[a] : r.seq > MaxSeq(changes[a])]_vars

\* A push is answered, however many others want the write lock, unless the
\* process dies first.
PushAnswered ==
  \A h \in Handlers : pc[h] = "begin" ~> pc[h] \in {"done", "idle"}
=============================================================================
