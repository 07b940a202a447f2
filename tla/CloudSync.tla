------------------------------ MODULE CloudSync ------------------------------
(***************************************************************************)
(* Several devices of one owner, the sync backend and the network between  *)
(* them.  SyncProductionCaller.runOnce pulls one page, then pushes what    *)
(* is due; every await is a step, between which the owner edits records    *)
(* and settles conflicts.  The backend is one log: that a push is atomic   *)
(* and numbers its rows without gaps is what SyncServer establishes.       *)
(*                                                                         *)
(* db[d] is the device's database (DeviceStore), run[d] the run in         *)
(* progress, lost when the app is killed.  late holds requests whose       *)
(* sender no longer waits for them.                                        *)
(***************************************************************************)
EXTENDS DeviceStore, SequencesExt

CONSTANTS
  Devices,
  Writers,    \* the devices the owner edits records on
  First,      \* the stores the devices start from
  PageLimit,  \* pullPending's limit
  PushLimit,  \* listPending's limit
  MaxSaves,   \* edits, of the owner on any device
  MaxEdits,   \* edits and resolutions, in all
  MaxLate,    \* requests given up and still on their way, at a time
  Faults      \* "network": requests and answers get lost; "kill": the app dies

Operations == {"create", "update", "delete"}

\* A database with records, none of which sync has seen.
Unsynced(s) ==
  /\ s.rec \in [Ids -> Bodies \cup {None}] /\ s.used \subseteq Ids
  /\ s = [NewStore EXCEPT !.rec = s.rec, !.used = s.used]

ASSUME CloudSyncAssumption ==
  /\ Writers \subseteq Devices /\ Faults \subseteq {"network", "kill"}
  /\ First = [d \in Devices |-> First[d]] /\ \A d \in Devices : Unsynced(First[d])
  /\ Ids \subseteq Nat \ {0} /\ None \notin Operations \X Bodies
  /\ PageLimit \in Nat \ {0} /\ PushLimit \in Nat \ {0}
  /\ MaxSaves \in Nat /\ MaxEdits \in Nat /\ MaxLate \in Nat

VARIABLES log, db, run, late, edits

vars == <<log, db, run, late, edits>>

Idle == [at |-> "idle", page |-> <<>>, seen |-> NoMeta, fold |-> {}, todo |-> {},
         base |-> 0, ack |-> 0]

Init ==
  /\ log = <<>>
  /\ db = First
  /\ run = [d \in Devices |-> Idle]
  /\ late = {}
  /\ edits = 0

At(d, p) == run[d].at = p
Goto(d, p) == run' = [run EXCEPT ![d].at = p]
Store(d, s) == db' = [db EXCEPT ![d] = s]
-----------------------------------------------------------------------------
(* The backend *)

RowsOf(e) == {i \in DOMAIN log : log[i].ent = e}
HeadVer(e) == Cardinality(RowsOf(e))

\* The row the idempotency lookup finds for a request.
Same(q) == {i \in RowsOf(q.row.ent) : Hash(log[i]) = Hash(q.row)}

\* A request is logged unless it is known or its base is not the head.  Who
\* wrote it and when is noted for the properties: the app sends neither.
Logged(q) ==
  IF Same(q) # {} \/ q.base # HeadVer(q.row.ent) THEN log
  ELSE Append(log, [seq |-> Len(log) + 1, ent |-> q.row.ent, op |-> q.row.op,
                    body |-> q.row.body, base |-> q.base, ver |-> q.base + 1,
                    by |-> q.dev, at |-> q.row.at])

\* The server_seq it is acknowledged with; none for a conflict.
Acks(q) ==
  IF Same(q) # {} THEN Same(q)
  ELSE IF q.base = HeadVer(q.row.ent) THEN {Len(log) + 1} ELSE {}

\* Variant: the newest rows are answered first.
NewestPage(since) ==
  SubSeq(log, Max({since, Len(log) - PageLimit}) + 1, Len(log))

\* What GET /sync/changes answers a cursor with.
Page(since) ==
  SubSeq(log, since + 1, Min({Len(log), since + PageLimit}))

\* A request that was given up arrives after all.
ServeLate(q) ==
  /\ log' = Logged(q)
  /\ late' = late \ {q}
  /\ UNCHANGED <<db, run, edits>>

LoseLate(q) ==
  /\ late' = late \ {q}
  /\ UNCHANGED <<log, db, run, edits>>
-----------------------------------------------------------------------------
(* Pull *)

\* GET /sync/changes from the cursor; the answer is here.
FetchPage(d) ==
  /\ At(d, "idle")
  /\ run' = [run EXCEPT ![d] = [Idle EXCEPT !.at = "pull", !.page = Page(db[d].cursor)]]
  /\ UNCHANGED <<log, db, late, edits>>

\* An error answer: nothing is pulled, the push goes ahead.
FetchFails(d) ==
  /\ "network" \in Faults
  /\ At(d, "idle")
  /\ Goto(d, "pull")
  /\ UNCHANGED <<log, db, late, edits>>

\* The meta row of the next change is read, outside of any transaction ...
ReadMeta(d) ==
  /\ At(d, "pull") /\ run[d].page # <<>>
  /\ run' = [run EXCEPT ![d].at = "merge", ![d].seen = db[d].meta[Head(run[d].page).ent]]
  /\ UNCHANGED <<log, db, late, edits>>

\* ... and what it decides is done in one, with the cursor.
Merge(d) ==
  /\ At(d, "merge")
  /\ Store(d, MergeChange(db[d], run[d].seen, Head(run[d].page)))
  /\ run' = [run EXCEPT ![d].at = "pull", ![d].page = Tail(@), ![d].seen = NoMeta]
  /\ UNCHANGED <<log, late, edits>>

\* The page is done and the push gate is read: a gated push ends the run.
PullDone(d) ==
  /\ At(d, "pull") /\ run[d].page = <<>>
  /\ Goto(d, IF db[d].gated THEN "idle" ELSE "list")
  /\ UNCHANGED <<log, db, late, edits>>
-----------------------------------------------------------------------------
(* Push *)

\* What is next in a push with these rows to drop and these to send.
Pushing(fold, todo) ==
  [Idle EXCEPT !.at = IF fold # {} THEN "fold" ELSE IF todo # {} THEN "send" ELSE "idle",
               !.fold = fold, !.todo = todo]

\* The due rows, folded.  A row that failed before may still be backing off.
List(d, waiting) ==
  /\ At(d, "list")
  /\ LET due    == db[d].outbox \ waiting
         listed == {q \in due : Cardinality({p \in due : Before(p, q)}) < PushLimit}
     IN run' = [run EXCEPT ![d] = Pushing(Folded(listed), listed \ Folded(listed))]
  /\ UNCHANGED <<log, db, late, edits>>

FailedRows(d) == {r \in db[d].outbox : r.late}

ListPending(d) == \E waiting \in SUBSET FailedRows(d) : List(d, waiting)

\* deleteSuperseded, row by row.
DropFolded(d) ==
  /\ At(d, "fold")
  /\ \E r \in run[d].fold :
       /\ \A q \in OfEntity(run[d].fold, r.ent) \ {r} : Before(r, q)
       /\ Store(d, DeleteRow(db[d], r))
       /\ run' = [run EXCEPT ![d] = Pushing(@.fold \ {r}, @.todo)]
  /\ UNCHANGED <<log, late, edits>>

\* The row in hand and the request it goes out in.  Every row is a group of its
\* own, so they go in the order they were written in.
Current(d) == CHOOSE r \in run[d].todo : \A q \in run[d].todo \ {r} : Before(r, q)
Request(d) == [dev |-> d, row |-> Current(d), base |-> run[d].base]

\* POST /sync/changes with the version the meta row has now.
Send(d) ==
  /\ At(d, "send")
  /\ run' = [run EXCEPT ![d].at = "wait", ![d].base = db[d].meta[Current(d).ent].ver]
  /\ UNCHANGED <<log, db, late, edits>>

\* The request arrives and so does its answer: accepted, or a conflict.
Answered(d) ==
  /\ At(d, "wait")
  /\ log' = Logged(Request(d))
  /\ \/ \E seq \in Acks(Request(d)) :
          run' = [run EXCEPT ![d].at = "delete", ![d].ack = seq]
     \/ Acks(Request(d)) = {} /\ Goto(d, "fail")
  /\ UNCHANGED <<db, late, edits>>

\* The request is given up: it may be lost, or still arrive.
GiveUp(d) == Cardinality(late) < MaxLate /\ late' = late \cup {Request(d)}

NoAnswer(d) ==
  /\ "network" \in Faults
  /\ At(d, "wait")
  /\ GiveUp(d)
  /\ Goto(d, "fail")
  /\ UNCHANGED <<log, db, edits>>

NextRow(d, s) ==
  /\ Store(d, s)
  /\ run' = [run EXCEPT ![d] = Pushing({}, @.todo \ {Current(d)})]

RecordFailure(d) ==
  /\ At(d, "fail")
  /\ NextRow(d, MarkFailed(db[d], Current(d)))
  /\ UNCHANGED <<log, late, edits>>

\* The writes of an acknowledged row, each a transaction of its own; the
\* cursor is read first and written when the change is beyond it.
AckDelete(d) ==
  /\ At(d, "delete")
  /\ Store(d, DeleteRow(db[d], Current(d)))
  /\ Goto(d, "meta")
  /\ UNCHANGED <<log, late, edits>>

AckMeta(d) ==
  /\ At(d, "meta")
  /\ Store(d, MarkPushAcknowledged(db[d], Current(d), log[run[d].ack].ver))
  /\ Goto(d, "cursor")
  /\ UNCHANGED <<log, late, edits>>

AckReadCursor(d) ==
  /\ At(d, "cursor")
  /\ IF run[d].ack > db[d].cursor
     THEN Goto(d, "write") /\ UNCHANGED db
     ELSE NextRow(d, db[d])
  /\ UNCHANGED <<log, late, edits>>

AckWriteCursor(d) ==
  /\ At(d, "write")
  /\ NextRow(d, WriteCursor(db[d], run[d].ack))
  /\ UNCHANGED <<log, late, edits>>

\* The app is killed ...
Kill(d) ==
  /\ "kill" \in Faults
  /\ ~At(d, "idle") /\ ~At(d, "dead")
  /\ run' = [run EXCEPT ![d] = [Idle EXCEPT !.at = "dead"]]
  /\ IF At(d, "wait") THEN GiveUp(d) ELSE UNCHANGED late
  /\ UNCHANGED <<log, db, edits>>

\* ... and started again.
Start(d) ==
  /\ At(d, "dead")
  /\ Goto(d, "idle")
  /\ UNCHANGED <<log, db, late, edits>>
-----------------------------------------------------------------------------
(* The owner, at any time and on any of the writing devices *)

Edit(d, s) ==
  /\ edits < MaxEdits
  /\ edits' = edits + 1
  /\ Store(d, s)
  /\ UNCHANGED <<log, run, late>>

\* AUTOINCREMENT gives out one more than the largest id so far.
FreshId(s) == 1 + Max(s.used \cup {0})

Create(d) ==
  /\ edits < MaxSaves
  /\ \E b \in Bodies : FreshId(db[d]) \in Ids /\ Edit(d, CreateRecord(db[d], FreshId(db[d]), b))

Save(d) ==
  /\ edits < MaxSaves
  /\ \E i \in Ids, b \in Bodies :
       db[d].rec[i] # None /\ Edit(d, UpdateRecord(db[d], i, b))

Discard(d) ==
  /\ edits < MaxSaves
  /\ \E i \in Ids : db[d].rec[i] # None /\ Edit(d, DeleteRecord(db[d], i))

TakeRemote(d) == \E x \in Pending(db[d]) : Edit(d, UseRemote(db[d], x))

\* Refused when the local record no longer exists.
TakeLocal(d) ==
  \E x \in Pending(db[d]) : db[d].rec[x.c.ent] # None /\ Edit(d, UseLocal(db[d], x))
-----------------------------------------------------------------------------
\* What a run in progress does by itself.
Work(d) ==
  \/ ReadMeta(d) \/ Merge(d) \/ PullDone(d)
  \/ ListPending(d) \/ DropFolded(d) \/ Send(d) \/ RecordFailure(d)
  \/ AckDelete(d) \/ AckMeta(d) \/ AckReadCursor(d) \/ AckWriteCursor(d)
  \/ Start(d)

Next ==
  \/ \E d \in Devices : FetchPage(d) \/ FetchFails(d) \/ Work(d)
                          \/ Answered(d) \/ NoAnswer(d) \/ Kill(d)
  \/ \E d \in Writers : Create(d) \/ Save(d) \/ Discard(d) \/ TakeRemote(d) \/ TakeLocal(d)
  \/ \E q \in late : ServeLate(q) \/ LoseLate(q)

Spec == Init /\ [][Next]_vars

\* A run that finds the oldest row of the outbox no longer backing off.
ListOldest(d) ==
  \E waiting \in SUBSET FailedRows(d) :
    (\E r \in db[d].outbox \ waiting : \A q \in db[d].outbox \ {r} : Before(r, q))
      /\ List(d, waiting)

\* Runs are started again and again, by app start, resume and the owner; not
\* every attempt to reach the backend fails, and the app is killed only so
\* many times.
RunsGoOn ==
  /\ \A d \in Devices : WF_vars(Work(d)) /\ SF_vars(FetchPage(d)) /\ <>[][~Kill(d)]_vars
  /\ \A d \in Writers : SF_vars(Answered(d))

\* No row backs off for ever: now and then a run finds the oldest one due.
RowsComeDue == \A d \in Writers : SF_vars(ListOldest(d))

FairSpec == Spec /\ RunsGoOn /\ RowsComeDue
-----------------------------------------------------------------------------
Places     == {"idle", "pull", "merge", "list", "fold", "send", "wait", "fail",
               "delete", "meta", "cursor", "write", "dead"}
Statuses   == {"synced", "pendingUpload", "pendingUpdate", "pendingDelete"}
Row    == [id : Nat, at : Nat, ent : Ids, op : Operations, body : Bodies,
           gid : {NoGroup}, lseq : {0}, late : BOOLEAN]
Change == [seq : Nat, ent : Ids, op : Operations, body : Bodies, base : Nat,
           ver : Nat, by : Devices, at : Nat]
Meta   == [st : Statuses, ver : Nat, hash : (Operations \X Bodies) \cup {None},
           del : BOOLEAN]
Stores == [rec : [Ids -> Bodies \cup {None}], used : SUBSET Ids, meta : [Ids -> Meta],
           outbox : SUBSET Row, clock : Nat, cursor : Nat, gated : BOOLEAN,
           conflicts : SUBSET [c : Change, st : {"pending", "resolved"}]]
Runs   == [at : Places, page : Seq(Change), seen : Meta, fold : SUBSET Row,
           todo : SUBSET Row, base : Nat, ack : Nat]

\* The shape of every variable.
TypeOK ==
  /\ log \in Seq(Change)
  /\ db \in [Devices -> Stores]
  /\ run \in [Devices -> Runs]
  /\ late \subseteq [dev : Devices, row : Row, base : Nat]
  /\ edits \in 0..MaxEdits

\* What the log makes of an entity up to a sequence number.
Content(e, n) ==
  LET upto == {i \in RowsOf(e) : i <= n}
  IN IF upto = {} \/ log[Max(upto)].op = "delete" THEN None ELSE log[Max(upto)].body

\* A device never knows a version or a change the backend does not have, so
\* no base it sends is ahead of the head, whatever answer got lost.
NeverAhead ==
  \A d \in Devices :
    /\ db[d].cursor <= Len(log)
    /\ \A e \in Ids : db[d].meta[e].ver <= HeadVer(e)

\* A record shown as synced, with nothing of it queued, is as some change
\* the backend logged left it.
SyncedIsLogged ==
  \A d \in Devices, e \in Ids :
    LET m == db[d].meta[e] IN
      (m.st = "synced" /\ m.hash # None /\ OfEntity(db[d].outbox, e) = {}) =>
        \E i \in RowsOf(e) : Hash(log[i]) = m.hash /\ Content(e, i) = db[d].rec[e]

\* What leaves the outbox of a device is logged, about to be folded, or of an
\* entity whose conflict the owner settles.
LeavesAccounted(d) ==
  \A r \in db[d].outbox :
    (\A x \in db'[d].outbox : x.id # r.id) =>
       \/ \E i \in DOMAIN log : log[i].ent = r.ent /\ Hash(log[i]) = Hash(r)
       \/ \E x \in run[d].fold : x.id = r.id
       \/ Pending(db'[d]) # Pending(db[d])

\* A local change leaves the outbox only when the backend has it, when a
\* later local delete voids it, or when the owner takes the remote side.
ChangesKept == [][\A d \in Devices : LeavesAccounted(d)]_vars

\* The cursor moves past a change of another device only by applying it or
\* parking it for the owner: pull_cursor is last_applied_server_seq
\* (docs/architecture/sync-transport-design.md:49).
NoneSkipped ==
  [][\A d \in Devices :
       \A i \in (db[d].cursor + 1)..db'[d].cursor :
         \/ log'[i].by = d
         \/ Hash(log'[i]) = db'[d].meta[log'[i].ent].hash
         \/ \E x \in db'[d].conflicts : x.c.seq = i]_vars

\* A device the owner edits nothing on mirrors the log up to its cursor,
\* save for the entities with a conflict parked.
ReaderMirrors ==
  \A d \in Devices \ Writers : \A e \in Ids :
    (\A x \in db[d].conflicts : x.c.ent # e) =>
      db[d].rec[e] = Content(e, db[d].cursor)

\* Such a device gets to the end of the log and stays there.
ReaderCatchesUp == \A d \in Devices \ Writers : <>[](db[d].cursor = Len(log))

\* Every local change is pushed in the end, unless a conflict waits for the
\* owner or the device has fallen behind a change of its own: then, and only
\* then, the backend refuses it for good.
Drains ==
  \A d \in Devices :
    <>[](\/ db[d].outbox = {}
         \/ Pending(db[d]) # {}
         \/ \E r \in db[d].outbox : db[d].meta[r.ent].ver < HeadVer(r.ent))

\* All is quiet: nobody runs, nothing is queued or parked, every cursor is
\* at the end.
Quiet ==
  /\ late = {}
  /\ \A d \in Devices : /\ At(d, "idle") /\ db[d].outbox = {} /\ Pending(db[d]) = {}
                        /\ db[d].cursor = Len(log)

\* When all is quiet the devices have the same records
\* (docs/architecture/sync-transport-design.md:26).
Converged == Quiet => \A d, c \in Devices : db[d].rec = db[c].rec
=============================================================================
