------------------------------ MODULE GroupPush ------------------------------
(***************************************************************************)
(* One device's live push of transaction groups: business transactions     *)
(* enqueue rows, SyncManager.pushPending lists a bounded snapshot of the   *)
(* due rows, folds it, orders it and sends row by row; a send may fail, an *)
(* answer may get lost, and the app may be killed anywhere.  Versions and  *)
(* pulls are left to CloudSync: here the server accepts a change it has    *)
(* not seen, or does not, for a reason left open.                          *)
(***************************************************************************)
EXTENDS OutboxPlanner, SequencesExt

CONSTANTS
  Entities,
  Transactions,   \* the business transactions: the rows each enqueues, in
                  \* causal order, and whether it numbers them as a group
  Existing,       \* entities there before, synced
  Limit           \* listPending's limit

Operations == {"create", "update", "delete"}

ASSUME GroupPushAssumption ==
  /\ Limit \in Nat \ {0} /\ Existing \subseteq Entities
  /\ NoGroup \notin Nat
  /\ \A t \in Transactions :
       /\ t.rows \in Seq([ent : Entities, op : Operations]) /\ Len(t.rows) < 10
       /\ t.grouped \in BOOLEAN

VARIABLES
  outbox,    \* sync_outbox: rows, their status (st), next_retry_at set (late)
  committed, \* business transactions so far, in order
  accepted,  \* the rows the server has accepted, in order, once each
  dropped,   \* rows removed by folding
  at,        \* where the push loop is
  todo,      \* send groups still to go, of the rows as listed
  group      \* rest of the group being sent

vars == <<outbox, committed, accepted, dropped, at, todo, group>>

Row == [id : Nat, at : Nat, ent : Entities, op : Operations,
        gid : Nat \cup {NoGroup}, lseq : Nat]

\* The i-th row the n-th transaction t enqueues.  Ids are row numbers: that a
\* transaction has fewer than ten rows keeps them apart.
RowOf(t, n, i) ==
  [id |-> 10 * n + i, at |-> 10 * n + i, ent |-> t.rows[i].ent, op |-> t.rows[i].op,
   gid |-> IF t.grouped THEN n ELSE NoGroup, lseq |-> IF t.grouped THEN i ELSE 0]

\* Variant: a status that listPending does not look for.
StoredQueued(r) == [row |-> r, st |-> "queued", late |-> FALSE]

\* A row as it is inserted.
Stored(r) == [row |-> r, st |-> "pending", late |-> FALSE]

Init ==
  /\ outbox = {} /\ committed = <<>> /\ accepted = <<>> /\ dropped = {}
  /\ at = "idle" /\ todo = {} /\ group = {}

\* Every row enqueued so far.
Enqueued ==
  UNION {{RowOf(committed[n], n, i) : i \in DOMAIN committed[n].rows} : n \in DOMAIN committed}

\* A business repository creates what is not there and changes what is.
Legal(t) ==
  \A i \in DOMAIN t.rows :
    LET ops == {r.op : r \in OfEntity(Enqueued, t.rows[i].ent)} IN
      IF t.rows[i].op = "create" THEN ops = {} /\ t.rows[i].ent \notin Existing
      ELSE "delete" \notin ops /\ ("create" \in ops \/ t.rows[i].ent \in Existing)

\* A business transaction commits.  Its rows carry a fresh group id and are
\* numbered 1..n by SyncTransactionGroup, or stay ungrouped.
Enqueue(t) ==
  /\ t \notin ToSet(committed) /\ Legal(t)
  /\ committed' = Append(committed, t)
  /\ outbox' = outbox \cup
       {Stored(RowOf(t, Len(committed) + 1, i)) : i \in DOMAIN t.rows}
  /\ UNCHANGED <<accepted, dropped, at, todo, group>>

InOutbox(st) == {x.row : x \in {y \in outbox : y.st = st}}
Late == {x.row : x \in {y \in outbox : y.late}}

\* listPending: the first Limit pending rows by created_at, without the ones
\* still backing off (of those that failed any may be); then the fold.
ListPending ==
  /\ at = "idle"
  /\ \E waiting \in SUBSET Late :
       LET due    == InOutbox("pending") \ waiting
           listed == {q \in due : Cardinality({p \in due : Before(p, q)}) < Limit}
           folded == Folded(listed)
       IN /\ listed # {}
          /\ todo'  = SendGroups(listed \ folded)
          /\ group' = folded
  /\ at' = "fold"
  /\ UNCHANGED <<outbox, committed, accepted, dropped>>

\* Variant: the row stays in the outbox.
Keep(r) == UNCHANGED outbox

Delete(r) == outbox' = {x \in outbox : x.row.id # r.id}

\* Variant: a row that failed is given up.
GiveUp(rows, st, late) == outbox' = {x \in outbox : x.row \notin rows}

\* UPDATE sync_outbox ... WHERE id of a row of the set.
Update(rows, st, late) ==
  outbox' = {IF x.row \in rows THEN [x EXCEPT !.st = st, !.late = late] ELSE x : x \in outbox}

\* deleteSuperseded: the rows of an entity in order, entities in any order.
DropFolded ==
  /\ at = "fold"
  /\ \E r \in group :
       /\ \A q \in OfEntity(group, r.ent) \ {r} : Before(r, q)
       /\ Delete(r)
       /\ dropped' = dropped \cup {r}
       /\ group' = group \ {r}
  /\ UNCHANGED <<committed, accepted, at, todo>>

FoldDone ==
  /\ at = "fold" /\ group = {}
  /\ at' = "next"
  /\ UNCHANGED <<outbox, committed, accepted, dropped, todo, group>>

\* The groups that may go next, and the end of the loop.
Turn(g) == g \in todo /\ \A h \in todo : ~GoesBefore(h, g)

NextGroup ==
  /\ at = "next"
  /\ \E g \in todo :
       /\ Turn(g) /\ ~Invalid(g)
       /\ todo' = todo \ {g} /\ group' = g
  /\ at' = "send"
  /\ UNCHANGED <<outbox, committed, accepted, dropped>>

FailGroup ==
  /\ at = "next"
  /\ \E g \in todo :
       /\ Turn(g) /\ Invalid(g)
       /\ todo' = todo \ {g} /\ group' = g
  /\ at' = "fail"
  /\ UNCHANGED <<outbox, committed, accepted, dropped>>

PushDone ==
  /\ at = "next" /\ todo = {}
  /\ at' = "idle"
  /\ UNCHANGED <<outbox, committed, accepted, dropped, todo, group>>

FirstOf(g) == CHOOSE r \in g : \A q \in g : r.lseq <= q.lseq

\* markTerminalFailed, row by row of an invalid group.
MarkInvalid ==
  /\ at = "fail" /\ group # {}
  /\ Update({FirstOf(group)}, "failed", FALSE)
  /\ group' = group \ {FirstOf(group)}
  /\ UNCHANGED <<committed, accepted, dropped, at, todo>>

ServerAccepts(r) ==
  accepted' = IF r \in ToSet(accepted) THEN accepted ELSE Append(accepted, r)

\* The row is sent and accepted: the next step acknowledges it.
SendOk ==
  /\ at = "send" /\ group # {}
  /\ ServerAccepts(FirstOf(group))
  /\ at' = "ack"
  /\ UNCHANGED <<outbox, committed, dropped, todo, group>>

\* deleteAcknowledged, by id: nothing happens when the row is gone.
Acknowledge ==
  /\ at = "ack"
  /\ Delete(FirstOf(group))
  /\ group' = group \ {FirstOf(group)}
  /\ at' = "send"
  /\ UNCHANGED <<committed, accepted, dropped, todo>>

\* Variant: the rest of the group is sent all the same.
SendFailsAndGoesOn ==
  /\ at = "send" /\ group # {}
  /\ UNCHANGED accepted \/ ServerAccepts(FirstOf(group))
  /\ Update({FirstOf(group)}, "pending", TRUE)
  /\ group' = group \ {FirstOf(group)}
  /\ UNCHANGED <<committed, dropped, at, todo>>

\* The request or its answer is lost: the row backs off and the rest of its
\* group is skipped, still pending.
SendFails ==
  /\ at = "send" /\ group # {}
  /\ UNCHANGED accepted \/ ServerAccepts(FirstOf(group))
  /\ Update({FirstOf(group)}, "pending", TRUE)
  /\ group' = {}
  /\ UNCHANGED <<committed, dropped, at, todo>>

GroupDone ==
  /\ at \in {"send", "fail"} /\ group = {}
  /\ at' = "next"
  /\ UNCHANGED <<outbox, committed, accepted, dropped, todo, group>>

\* The app is killed: the loop is gone, the tables stay.
Kill ==
  /\ at # "idle"
  /\ at' = "idle" /\ todo' = {} /\ group' = {}
  /\ UNCHANGED <<outbox, committed, accepted, dropped>>

Next ==
  \/ \E t \in Transactions : Enqueue(t)
  \/ ListPending \/ DropFolded \/ FoldDone
  \/ NextGroup \/ FailGroup \/ MarkInvalid \/ PushDone
  \/ SendOk \/ Acknowledge \/ SendFails \/ GroupDone
  \/ Kill

Spec == Init /\ [][Next]_vars
-----------------------------------------------------------------------------
\* The shape of every variable.
TypeOK ==
  /\ outbox \subseteq [row : Row, st : {"pending", "failed"}, late : BOOLEAN]
  /\ committed \in Seq(Transactions) /\ accepted \in Seq(Row)
  /\ dropped \subseteq Row /\ group \subseteq Row
  /\ \A g \in todo : g \subseteq Row
  /\ at \in {"idle", "fold", "next", "send", "ack", "fail"}

\* A row leaves the outbox only when the server has it or folding made it
\* void: no failure, lost answer or kill between the steps of a push loses
\* a committed business row.
NothingLost ==
  Enqueued = InOutbox("pending") \cup InOutbox("failed") \cup ToSet(accepted) \cup dropped

\* The server never has a row of a transaction group without all the rows the
\* same transaction numbered before it, not even ones a fold dropped: what it
\* leaves of a group is not sent.
GroupOrder ==
  \A i \in DOMAIN accepted : \A q \in Enqueued :
    (accepted[i].gid # NoGroup /\ q.gid = accepted[i].gid /\ q.lseq < accepted[i].lseq)
      => \E j \in 1..(i - 1) : accepted[j] = q

\* A row of an entity is accepted and no delete of it after that.
AliveAtServer(e) ==
  \E i \in DOMAIN accepted :
    /\ accepted[i].ent = e
    /\ \A j \in i..Len(accepted) : accepted[j].ent = e => accepted[j].op # "delete"

\* What folding drops "the server NEVER saw" (sync_repositories.dart:53,
\* sync_manager_push_planner.dart:8): no entity alive at the server loses
\* the delete that the owner meant for it.
DeleteReachesServer == \A r \in dropped : r.op = "delete" => ~AliveAtServer(r.ent)

\* Only invalid local metadata is failed for good: no row of a group that a
\* business transaction enqueued whole (sync_repositories.dart:68).
LegalNeverFailed == InOutbox("failed") = {}
=============================================================================
