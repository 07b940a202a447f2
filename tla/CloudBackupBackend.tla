------------------------- MODULE CloudBackupBackend -------------------------
(***************************************************************************)
(* The cloud backup backend (server/cloud_backup_backend): threads that    *)
(* create, list and download backups over two stores without a common      *)
(* transaction, an object store and a metadata table, behind a rate        *)
(* limiter in memory.                                                      *)
(*                                                                         *)
(* objects is the object store, rows the table backups, both keyed by      *)
(* <<user, backup id>>.  A key is fresh, being made of a uuid4.  window is *)
(* the memory of the limiter: how many requests it counts at each time.    *)
(* acked and admitted are history: the backups whose creation was          *)
(* answered, and the requests let through at each time of the clock.       *)
(***************************************************************************)
EXTENDS Integers, FiniteSets

CONSTANTS
  Handlers,      \* request threads
  Users, Ids,    \* accounts, backup ids
  MaxRequests, Window,  \* max_requests, window_seconds
  MaxClock,      \* bound of the clock
  None

ASSUME LimitAssumption ==
  MaxRequests \in Nat /\ Window \in Nat /\ MaxClock \in Nat
ASSUME HandlersAssumption == IsFiniteSet(Handlers)

VARIABLES objects, rows, issued, req, clock, window, acked, admitted

vars == <<objects, rows, issued, req, clock, window, acked, admitted>>

Keys     == Users \X Ids
Times    == 0..MaxClock
Contents == {"absent", "torn", "whole"}
Ops      == {"create", "list", "download"}
Places   == {"clock", "check", "put", "insert", "created", "cleanup", "get",
             "answered"} \cup Ops
Kinds    == {"error", "missing", "list", "backup"}

Idle == [pc |-> "idle"]

\* A request: its operation, user and backup, the time it read, its answer, and
\* what had been acknowledged when it came (history).
Request == [pc : Places, op : Ops, user : Users, id : Ids \cup {None},
            now : Times, kind : Kinds, keys : SUBSET Keys, before : SUBSET Keys]

Key(h)   == <<req[h].user, req[h].id>>
Busy     == {h \in Handlers : req[h] # Idle}

At(h, p)     == req[h].pc = p
Goto(h, p)   == req' = [req EXCEPT ![h].pc = p]
Reply(h, kind, keys) ==
  req' = [req EXCEPT ![h].pc = "answered", ![h].now = 0,
                     ![h].kind = kind, ![h].keys = keys]

\* The requests f counts at the times up to each time, and at all of them.
UpTo(f) ==
  LET sum[t \in Times] == IF t = 0 THEN f[0] ELSE sum[t - 1] + f[t] IN sum
Total(f) == UpTo(f)[MaxClock]

NoStamps == [t \in Times |-> 0]
limiter  == <<clock, window, admitted>>
-----------------------------------------------------------------------------
Init ==
  /\ objects  = [k \in Keys |-> "absent"]
  /\ rows     = {}
  /\ issued   = {}
  /\ req      = [h \in Handlers |-> Idle]
  /\ clock    = 0
  /\ window   = [u \in Users |-> NoStamps]
  /\ acked    = {}
  /\ admitted = [u \in Users |-> NoStamps]

\* An authenticated request of user u.
Receive(h, op, u) ==
  /\ req[h] = Idle
  /\ req' = [req EXCEPT ![h] =
       [pc |-> "clock", op |-> op, user |-> u, id |-> None, now |-> 0,
        kind |-> "error", keys |-> {},
        before |-> IF op = "create" THEN {} ELSE acked]]
  /\ UNCHANGED <<objects, rows, issued, limiter, acked>>

\* now = time.time(), before the lock of the limiter is taken.
ReadClock(h) ==
  /\ At(h, "clock")
  /\ req' = [req EXCEPT ![h].pc = "check", ![h].now = clock]
  /\ UNCHANGED <<objects, rows, issued, limiter, acked>>

\* The recorded stamps that are not older than the window of a request.
Recent(u, now) ==
  [t \in Times |-> IF t >= now - Window THEN window[u][t] ELSE 0]

\* 429: the window is full.
Limit(h) ==
  LET u == req[h].user  recent == Recent(u, req[h].now) IN
  /\ At(h, "check")
  /\ Total(recent) >= MaxRequests
  /\ window' = [window EXCEPT ![u] = recent]
  /\ Reply(h, "error", {})
  /\ UNCHANGED <<objects, rows, issued, clock, acked, admitted>>

\* Variant: a request let through is not recorded.
AdmitUnrecorded(h) ==
  LET u == req[h].user  recent == Recent(u, req[h].now) IN
  /\ At(h, "check")
  /\ Total(recent) < MaxRequests
  /\ window' = [window EXCEPT ![u] = recent]
  /\ admitted' = [admitted EXCEPT ![u][clock] = @ + 1]
  /\ req' = [req EXCEPT ![h].pc = req[h].op, ![h].now = 0]
  /\ UNCHANGED <<objects, rows, issued, clock, acked>>

Admit(h) ==
  LET u == req[h].user  recent == Recent(u, req[h].now) IN
  /\ At(h, "check")
  /\ Total(recent) < MaxRequests
  /\ window' = [window EXCEPT ![u] = [recent EXCEPT ![req[h].now] = @ + 1]]
  /\ admitted' = [admitted EXCEPT ![u][clock] = @ + 1]
  /\ req' = [req EXCEPT ![h].pc = req[h].op, ![h].now = 0]
  /\ UNCHANGED <<objects, rows, issued, clock, acked>>
-----------------------------------------------------------------------------
(* POST /v1/backups: create_backup.                                        *)

\* The body is too large, or validate_envelope refuses it.
Reject(h) ==
  /\ At(h, "create")
  /\ Reply(h, "error", {})
  /\ UNCHANGED <<objects, rows, issued, limiter, acked>>

\* put_text begins: a file store has opened the file, not written it.
PutBegins(h) ==
  /\ At(h, "create")
  /\ \E i \in Ids \ {k[2] : k \in issued} : LET key == <<req[h].user, i>> IN
       /\ issued'  = issued \cup {key}
       /\ objects' = [objects EXCEPT ![key] = "torn"]
       /\ req' = [req EXCEPT ![h].pc = "put", ![h].id = i]
  /\ UNCHANGED <<rows, limiter, acked>>

PutEnds(h) ==
  /\ At(h, "put")
  /\ objects' = [objects EXCEPT ![Key(h)] = "whole"]
  /\ Goto(h, "insert")
  /\ UNCHANGED <<rows, issued, limiter, acked>>

\* Variant: a failed put goes unnoticed.
PutFailsUnseen(h) ==
  /\ At(h, "put")
  /\ \E c \in Contents : objects' = [objects EXCEPT ![Key(h)] = c]
  /\ Goto(h, "insert")
  /\ UNCHANGED <<rows, issued, limiter, acked>>

\* 502 or 500: the store failed, or did its work and the answer was lost.
PutFails(h) ==
  /\ At(h, "put")
  /\ \E c \in Contents : objects' = [objects EXCEPT ![Key(h)] = c]
  /\ Reply(h, "error", {})
  /\ UNCHANGED <<rows, issued, limiter, acked>>

\* Variant: the row names the user the body claims.
InsertRowAsSaid(h) ==
  /\ At(h, "insert")
  /\ \E u \in Users : rows' = rows \cup {<<u, req[h].id>>}
  /\ Goto(h, "created")
  /\ UNCHANGED <<objects, issued, limiter, acked>>

\* The row is committed.
InsertRow(h) ==
  /\ At(h, "insert")
  /\ rows' = rows \cup {Key(h)}
  /\ Goto(h, "created")
  /\ UNCHANGED <<objects, issued, limiter, acked>>

InsertFails(h) ==
  /\ At(h, "insert")
  /\ Goto(h, "cleanup")
  /\ UNCHANGED <<objects, rows, issued, limiter, acked>>

\* _cleanup_object_after_metadata_failure, whose own failure is swallowed.
CleanUp(h) ==
  /\ At(h, "cleanup")
  /\ \E c \in {"absent", "whole"} :
       objects' = [objects EXCEPT ![Key(h)] = c]
  /\ Reply(h, "error", {})
  /\ UNCHANGED <<rows, issued, limiter, acked>>

\* 200 with the backup id.
AnswerCreated(h) ==
  /\ At(h, "created")
  /\ acked' = acked \cup {Key(h)}
  /\ req' = [req EXCEPT ![h] = Idle]
  /\ UNCHANGED <<objects, rows, issued, limiter>>
-----------------------------------------------------------------------------
(* GET /v1/backups and GET /v1/backups/{id}.                               *)

\* Variant: the account is not looked at.
OfAnyone(u) == rows

\* Variant: the columns are mistaken for one another.
OwnedById(u) == {k \in rows : k[2] = u}

\* WHERE user_id = ?
Owned(u) == {k \in rows : k[1] = u}

\* list_for_user.
ListRows(h) ==
  /\ At(h, "list")
  /\ Reply(h, "list", Owned(req[h].user))
  /\ UNCHANGED <<objects, rows, issued, limiter, acked>>

\* get_for_user; 404 when there is no row.
FindRow(h) ==
  /\ At(h, "download")
  /\ \E i \in Ids :
       req' = [req EXCEPT ![h].id = i,
         ![h].pc = IF \E k \in Owned(req[h].user) : k[2] = i THEN "get" ELSE "answered",
         ![h].kind = "missing"]
  /\ UNCHANGED <<objects, rows, issued, limiter, acked>>

\* get_text, then decoding and validation of what was stored.
GetObject(h) ==
  /\ At(h, "get")
  /\ \/ /\ objects[Key(h)] = "whole"
        /\ Reply(h, "backup", {Key(h)})
     \/ /\ objects[Key(h)] # "whole"
        /\ Reply(h, "missing", {})
  /\ UNCHANGED <<objects, rows, issued, limiter, acked>>

\* 502: the object store does not answer.
GetFails(h) ==
  /\ At(h, "get")
  /\ Reply(h, "error", {})
  /\ UNCHANGED <<objects, rows, issued, limiter, acked>>

Finish(h) ==
  /\ At(h, "answered")
  /\ req' = [req EXCEPT ![h] = Idle]
  /\ UNCHANGED <<objects, rows, issued, limiter, acked>>
-----------------------------------------------------------------------------
\* The process dies: requests and the memory of the limiter are gone.
Crash ==
  /\ Busy # {}
  /\ req'      = [h \in Handlers |-> Idle]
  /\ window'   = [u \in Users |-> NoStamps]
  /\ admitted' = [u \in Users |-> NoStamps]
  /\ UNCHANGED <<objects, rows, issued, clock, acked>>

Tick ==
  /\ clock < MaxClock
  /\ clock' = clock + 1
  /\ UNCHANGED <<objects, rows, issued, req, window, acked, admitted>>

Create(h) == PutBegins(h) \/ PutEnds(h) \/ PutFails(h) \/ InsertRow(h)
             \/ InsertFails(h) \/ CleanUp(h) \/ AnswerCreated(h)
Step(h) ==
  \/ ReadClock(h) \/ Limit(h) \/ Admit(h)
  \/ Reject(h) \/ Create(h)
  \/ ListRows(h) \/ FindRow(h) \/ GetObject(h) \/ GetFails(h)
  \/ Finish(h)

Next ==
  \/ \E h \in Handlers : Step(h) \/ \E op \in Ops, u \in Users : Receive(h, op, u)
  \/ Crash
  \/ Tick

Spec == Init /\ [][Next]_vars
-----------------------------------------------------------------------------
TypeOK ==
  /\ objects \in [Keys -> Contents]
  /\ rows \subseteq issued /\ acked \subseteq issued /\ issued \subseteq Keys
  /\ req \in [Handlers -> Request \cup {Idle}]
  /\ clock \in Times
  /\ window \in [Users -> [Times -> Nat]]
  /\ admitted \in [Users -> [Times -> Nat]]

\* Every row of the metadata table has its object, complete, whatever failed
\* or died between the two stores, and every backup whose creation was
\* answered has its row.
Restorable ==
  /\ \A k \in rows : objects[k] = "whole"
  /\ acked \subseteq rows

\* A list names every backup of the account that was acknowledged before the
\* request came, and only backups of that account.
ListComplete ==
  \A h \in Busy :
    LET own == {k \in req[h].before : k[1] = req[h].user} IN
    At(h, "answered") /\ req[h].kind = "list" =>
      /\ own \subseteq req[h].keys
      /\ \A k \in req[h].keys : k[1] = req[h].user

\* A download is not answered with "there is no such backup" or "it is
\* damaged" for a backup that was acknowledged before the request came.
DownloadServed ==
  \A h \in Busy :
    At(h, "answered") /\ req[h].op = "download" /\ Key(h) \in req[h].before =>
      req[h].kind # "missing"

\* However late threads are between reading the clock and taking the lock, in
\* no window of time are more requests of an account let through than the
\* limit and one more for every thread.
LimitHeld ==
  \A u \in Users, t \in Times :
    Total([s \in Times |-> IF s \in t..(t + Window) THEN admitted[u][s] ELSE 0])
      <= MaxRequests + Cardinality(Handlers)
=============================================================================
