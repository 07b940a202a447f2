---------------------- MODULE CloudBackupBackendProofs ----------------------
(***************************************************************************)
(* Proofs about CloudBackupBackend, for every set of threads, accounts and *)
(* backup ids and every limit.                                             *)
(*                                                                         *)
(* Between the two stores a key belongs to one thread (Apart), and what    *)
(* that thread has done so far is written in its place (ThreadOK): before  *)
(* the insert the key has no row, at the insert its object is whole, so    *)
(* that neither a failure nor a death can leave a row without its object.  *)
(*                                                                         *)
(* While a window of time lasts, the limiter prunes nothing of it; what it *)
(* misses are the requests of threads that read the clock before the       *)
(* window and took the lock in it, one for each thread (Remembered).       *)
(***************************************************************************)
EXTENDS CloudBackupBackend, FiniteSetTheorems, WellFoundedInduction, TLAPS

\* The places of a thread that is creating the backup of its key.
Creating == {"put", "insert", "created", "cleanup"}

KeyOf(q) == <<q.user, q.id>>

\* What a request knows and owes at its place.
ThreadOK(q) ==
  q # Idle =>
    /\ q.before \subseteq acked
    /\ q.pc \in Creating => KeyOf(q) \in issued
    /\ q.pc \in {"put", "insert", "cleanup"} => KeyOf(q) \notin rows
    /\ q.pc = "insert" => objects[KeyOf(q)] = "whole"
    /\ q.pc \in {"created", "get"} => KeyOf(q) \in rows
    /\ q.pc = "answered" /\ q.kind = "list" =>
         /\ \A k \in q.before : k[1] = q.user => k \in q.keys
         /\ \A k \in q.keys : k[1] = q.user
    /\ q.pc = "answered" /\ q.op = "download" /\ KeyOf(q) \in q.before =>
         q.kind # "missing"

\* No two threads create the same backup.
Apart ==
  \A g, h \in Handlers :
    g # h /\ req[g].pc \in Creating /\ req[h].pc \in Creating =>
      KeyOf(req[g]) # KeyOf(req[h])

IInv == TypeOK /\ Restorable /\ (\A h \in Handlers : ThreadOK(req[h])) /\ Apart

tables == <<objects, rows, issued, acked>>
-----------------------------------------------------------------------------
\* A request is idle or has all its fields.
LEMMA RequestFields ==
  ASSUME TypeOK, NEW h \in Handlers, req[h].pc # "idle"
  PROVE  req[h] \in Request /\ req[h] # Idle
BY DEF TypeOK, Idle

\* An idle thread has the place "idle", which no request has.
LEMMA IdlePlace ==
  /\ Idle.pc = "idle"
  /\ \A q \in Request : q # Idle /\ q.pc # "idle"
BY DEF Idle, Request, Places, Ops

\* Changing the place and the time of a request, or answering it, leaves it a
\* request.
LEMMA RequestUpdates ==
  ASSUME NEW q \in Request, NEW p \in Places, NEW kind \in Kinds, NEW keys \in SUBSET Keys
  PROVE  /\ [q EXCEPT !.pc = p, !.now = 0] \in Request
         /\ [q EXCEPT !.pc = p] \in Request
         /\ [q EXCEPT !.pc = p, !.now = 0, !.kind = kind, !.keys = keys] \in Request
<1>1. 0 \in Times
  BY LimitAssumption DEF Times
<1> QED BY <1>1 DEF Request

\* A step that changes one request and no table keeps the invariant when the
\* new request is sound and starts no creation.
LEMMA RequestStep ==
  ASSUME IInv, NEW h \in Handlers, NEW q \in Request \cup {Idle},
         req' = [req EXCEPT ![h] = q], UNCHANGED tables,
         clock' \in Times, window' \in [Users -> [Times -> Nat]],
         admitted' \in [Users -> [Times -> Nat]],
         ThreadOK(q),
         q.pc \in Creating => req[h].pc \in Creating /\ KeyOf(q) = KeyOf(req[h])
  PROVE  IInv'
<1>1. TypeOK'
  BY DEF IInv, TypeOK, tables
<1>2. Restorable'
  BY DEF IInv, Restorable, tables
<1>3. ASSUME NEW g \in Handlers PROVE ThreadOK(req[g])'
  <2>1. req'[g] = IF g = h THEN q ELSE req[g]
    BY DEF IInv, TypeOK
  <2>2. ThreadOK(req[g]) /\ ThreadOK(q)
    BY DEF IInv
  <2> QED BY <2>1, <2>2 DEF ThreadOK, tables
<1>4. Apart'
  <2> SUFFICES ASSUME NEW g \in Handlers, NEW k \in Handlers, g # k,
                      req'[g].pc \in Creating, req'[k].pc \in Creating
               PROVE  KeyOf(req'[g]) # KeyOf(req'[k])
    BY DEF Apart, KeyOf
  <2>1. \A i \in Handlers : req'[i] = IF i = h THEN q ELSE req[i]
    BY DEF IInv, TypeOK
  <2>2. \A i \in Handlers : req'[i].pc \in Creating =>
          req[i].pc \in Creating /\ KeyOf(req'[i]) = KeyOf(req[i])
    BY <2>1
  <2> QED BY <2>2 DEF IInv, Apart
<1> QED BY <1>1, <1>2, <1>3, <1>4 DEF IInv

\* Answering a request keeps the invariant when a list is the account's and
\* complete, and nothing acknowledged before is missed.
LEMMA AnswerStep ==
  ASSUME IInv, NEW h \in Handlers, req[h].pc # "idle",
         NEW kind \in Kinds, NEW keys \in SUBSET Keys, Reply(h, kind, keys),
         UNCHANGED <<tables, clock, admitted>>, window' \in [Users -> [Times -> Nat]],
         kind = "list" => /\ \A k \in req[h].before : k[1] = req[h].user => k \in keys
                          /\ \A k \in keys : k[1] = req[h].user,
         kind = "missing" => KeyOf(req[h]) \notin req[h].before
  PROVE  IInv'
<1> DEFINE q == [req[h] EXCEPT !.pc = "answered", !.now = 0,
                               !.kind = kind, !.keys = keys]
<1>1. req[h] \in Request /\ req[h] # Idle
  BY RequestFields DEF IInv
<1>2. q \in Request
  BY <1>1, RequestUpdates DEF Places
<1>3. /\ q.pc = "answered" /\ q.kind = kind /\ q.keys = keys
      /\ q.before = req[h].before /\ KeyOf(q) = KeyOf(req[h]) /\ q.user = req[h].user
  BY <1>1 DEF Request, KeyOf
<1>4. req' = [req EXCEPT ![h] = q]
  BY DEF Reply
<1> HIDE DEF q
<1>5. ThreadOK(q) /\ q.pc \notin Creating
  BY <1>1, <1>3 DEF IInv, ThreadOK, Creating
<1> QED BY <1>2, <1>4, <1>5, RequestStep DEF IInv, TypeOK, tables

\* A step of the thread creating key k that changes the tables at k only keeps
\* the invariant, when its own request stays sound.
LEMMA CreateStep ==
  ASSUME IInv, NEW h \in Handlers, NEW q \in Request \cup {Idle}, NEW k \in Keys,
         req' = [req EXCEPT ![h] = q],
         UNCHANGED <<clock, window, admitted>>,
         NEW c \in Contents, objects' = [objects EXCEPT ![k] = c],
         rows \subseteq rows', rows' \subseteq rows \cup {k},
         issued' = issued \cup {k},
         acked \subseteq acked', acked' \subseteq acked \cup {k},
         k \in rows' => c = "whole", k \in acked' => k \in rows',
         ThreadOK(q)',
         q.pc \in Creating => KeyOf(q) = k,
         \A g \in Handlers \ {h} : req[g].pc \in Creating => KeyOf(req[g]) # k
  PROVE  IInv'
<1>1. \A i \in Handlers : req'[i] = IF i = h THEN q ELSE req[i]
  BY DEF IInv, TypeOK
<1>2. TypeOK'
  BY DEF IInv, TypeOK
<1>3. Restorable'
  BY DEF IInv, Restorable, TypeOK
<1>4. ASSUME NEW g \in Handlers PROVE ThreadOK(req[g])'
  <2>1. CASE g = h
    BY <1>1, <2>1 DEF ThreadOK
  <2>2. CASE g # h
    <3>1. req'[g] = req[g] /\ ThreadOK(req[g])
      BY <1>1, <2>2 DEF IInv
    <3>2. req[g].pc \in Creating => KeyOf(req[g]) # k
      BY <2>2
    <3>3. req[g].pc = "insert" => objects'[KeyOf(req[g])] = objects[KeyOf(req[g])]
      BY <3>1, <3>2 DEF Creating, IInv, TypeOK
    <3> QED BY <3>1, <3>2, <3>3 DEF ThreadOK, Creating
  <2> QED BY <2>1, <2>2
<1>5. Apart'
  <2> SUFFICES ASSUME NEW g \in Handlers, NEW i \in Handlers, g # i,
                      req'[g].pc \in Creating, req'[i].pc \in Creating
               PROVE  KeyOf(req'[g]) # KeyOf(req'[i])
    BY DEF Apart, KeyOf
  <2>1. CASE g = h
    BY <1>1, <2>1
  <2>2. CASE i = h
    BY <1>1, <2>2
  <2>3. CASE g # h /\ i # h
    BY <1>1, <2>3 DEF IInv, Apart
  <2> QED BY <2>1, <2>2, <2>3
<1> QED BY <1>2, <1>3, <1>4, <1>5 DEF IInv
\* Going to another place changes nothing else of a request.
LEMMA PlaceStep ==
  ASSUME NEW r \in Request, NEW p \in Places, NEW q, q = [r EXCEPT !.pc = p]
  PROVE  q \in Request /\ q.pc = p /\ q.before = r.before /\ KeyOf(q) = KeyOf(r)
BY DEF Request, KeyOf

-----------------------------------------------------------------------------
\* The steps before the request proper keep the invariant.
LEMMA ArrivalSteps ==
  ASSUME IInv, NEW h \in Handlers,
         \/ \E op \in Ops, u \in Users : Receive(h, op, u)
         \/ ReadClock(h) \/ Limit(h) \/ Admit(h) \/ Reject(h)
  PROVE  IInv'
<1> USE DEF limiter, tables
<1>1. CASE \E op \in Ops, u \in Users : Receive(h, op, u)
  <2>1. PICK op \in Ops, u \in Users : Receive(h, op, u)
    BY <1>1
  <2> DEFINE q == [pc |-> "clock", op |-> op, user |-> u, id |-> None, now |-> 0,
                   kind |-> "error", keys |-> {},
                   before |-> IF op = "create" THEN {} ELSE acked]
  <2>2. q \in Request
    BY LimitAssumption DEF IInv, TypeOK, Request, Places, Kinds, Times
  <2>3. ThreadOK(q) /\ q.pc \notin Creating
    BY DEF ThreadOK, Creating
  <2>4. req' = [req EXCEPT ![h] = q]
    BY <2>1 DEF Receive
  <2>5. UNCHANGED <<tables, limiter>>
    BY <2>1 DEF Receive
  <2> HIDE DEF q
  <2> QED BY <2>2, <2>3, <2>4, <2>5, RequestStep DEF IInv, TypeOK
<1>2. CASE ReadClock(h)
  <2> DEFINE q == [req[h] EXCEPT !.pc = "check", !.now = clock]
  <2>1. req[h] \in Request /\ req[h] # Idle
    BY <1>2, RequestFields DEF IInv, ReadClock, At
  <2>2. q \in Request /\ q.pc = "check"
    BY <2>1 DEF IInv, TypeOK, Request, Places
  <2>3. ThreadOK(q) /\ q.pc \notin Creating
    BY <2>1, <2>2 DEF IInv, ThreadOK, Creating, Request
  <2>4. req' = [req EXCEPT ![h] = q] /\ UNCHANGED <<tables, limiter>>
    BY <1>2 DEF ReadClock
  <2> HIDE DEF q
  <2> QED BY <2>2, <2>3, <2>4, RequestStep DEF IInv, TypeOK
<1>3. ASSUME NEW u \in Users, NEW now \in Times
      PROVE  Recent(u, now) \in [Times -> Nat]
  BY DEF Recent, IInv, TypeOK
<1>4. CASE Limit(h)
  <2>1. req[h] \in Request /\ req[h].pc # "idle"
    BY <1>4, RequestFields DEF IInv, Limit, At
  <2>2. Reply(h, "error", {}) /\ UNCHANGED <<tables, clock, admitted>>
    BY <1>4 DEF Limit
  <2>3. window' \in [Users -> [Times -> Nat]]
    BY <1>3, <1>4, <2>1 DEF Limit, IInv, TypeOK, Request
  <2> QED BY <2>1, <2>2, <2>3, AnswerStep DEF IInv, TypeOK, Kinds
<1>5. CASE Admit(h)
  <2> DEFINE q == [req[h] EXCEPT !.pc = req[h].op, !.now = 0]
             u == req[h].user
             recent == Recent(u, req[h].now)
  <2>1. req[h] \in Request /\ req[h] # Idle
    BY <1>5, RequestFields DEF IInv, Admit, At
  <2>2. q \in Request /\ q.pc \in Ops
    <3>1. req[h].op \in Ops /\ req[h].op \in Places
      BY <2>1 DEF Request, Places
    <3>2. q \in Request
      BY <2>1, <3>1, RequestUpdates DEF Kinds
    <3>3. q.pc = req[h].op
      BY <2>1 DEF Request
    <3> QED BY <3>1, <3>2, <3>3
  <2>3. ThreadOK(q) /\ q.pc \notin Creating
    BY <2>1, <2>2 DEF IInv, ThreadOK, Creating, Request, Ops
  <2>4. req' = [req EXCEPT ![h] = q] /\ UNCHANGED <<tables, clock>>
    BY <1>5 DEF Admit
  <2>5. recent \in [Times -> Nat] /\ u \in Users /\ req[h].now \in Times
    BY <1>3, <2>1 DEF Request
  <2>6. window' \in [Users -> [Times -> Nat]]
    <3> DEFINE w == [recent EXCEPT ![req[h].now] = @ + 1]
    <3>1. w \in [Times -> Nat]
      BY <2>5
    <3>2. window' = [window EXCEPT ![u] = w]
      BY <1>5 DEF Admit
    <3> HIDE DEF w
    <3> QED BY <3>1, <3>2 DEF IInv, TypeOK
  <2>7. admitted' \in [Users -> [Times -> Nat]]
    BY <1>5, <2>5 DEF Admit, IInv, TypeOK
  <2> HIDE DEF q
  <2> QED BY <2>2, <2>3, <2>4, <2>6, <2>7, RequestStep DEF IInv, TypeOK
<1>6. CASE Reject(h)
  BY <1>6, RequestFields, AnswerStep DEF IInv, TypeOK, Kinds, Reject, At
<1> QED BY <1>1, <1>2, <1>4, <1>5, <1>6

\* A thread that is creating a backup has its key to itself, and the key has
\* no row before the insert.
LEMMA CreatingKey ==
  ASSUME IInv, NEW h \in Handlers, req[h].pc \in Creating
  PROVE  /\ req[h] \in Request /\ Key(h) = KeyOf(req[h])
         /\ Key(h) \in issued /\ Key(h) \in Keys
         /\ req[h].before \subseteq acked
         /\ \A g \in Handlers \ {h} : req[g].pc \in Creating => KeyOf(req[g]) # Key(h)
         /\ req[h].pc # "created" => Key(h) \notin rows /\ Key(h) \notin acked
         /\ req[h].pc = "insert" => objects[Key(h)] = "whole"
         /\ req[h].pc = "created" => Key(h) \in rows
<1>1. req[h] \in Request /\ req[h] # Idle
  BY RequestFields DEF IInv, Creating
<1>2. Key(h) = KeyOf(req[h])
  BY DEF Key, KeyOf
<1> QED BY <1>1, <1>2 DEF IInv, TypeOK, Restorable, ThreadOK, Creating, Apart

\* The steps of create_backup keep the invariant.
LEMMA CreateSteps ==
  ASSUME IInv, NEW h \in Handlers, Create(h)
  PROVE  IInv'
<1>1. CASE PutBegins(h)
  <2>1. PICK i \in Ids \ {k[2] : k \in issued} :
          LET key == <<req[h].user, i>> IN
            /\ issued'  = issued \cup {key}
            /\ objects' = [objects EXCEPT ![key] = "torn"]
            /\ req' = [req EXCEPT ![h].pc = "put", ![h].id = i]
    BY <1>1 DEF PutBegins
  <2> DEFINE key == <<req[h].user, i>>
  <2>0. PICK q : q = [req[h] EXCEPT !.pc = "put", !.id = i]
    OBVIOUS
  <2>2. req[h] \in Request /\ req[h] # Idle
    BY <1>1, RequestFields DEF IInv, PutBegins, At
  <2>3. key \in Keys /\ key \notin issued
    BY <2>2 DEF Request, Keys
  <2>4. /\ q \in Request /\ q.pc = "put" /\ q.before = req[h].before /\ KeyOf(q) = key
    BY <2>0, <2>2 DEF Request, Places, KeyOf
  <2>5. \A g \in Handlers \ {h} : req[g].pc \in Creating => KeyOf(req[g]) # key
    BY <2>3, CreatingKey
  <2>6. /\ req' = [req EXCEPT ![h] = q] /\ UNCHANGED <<rows, clock, window, admitted, acked>>
    BY <1>1, <2>0, <2>1 DEF PutBegins, limiter
  <2>7. ThreadOK(q)'
    BY <2>1, <2>2, <2>3, <2>4, <2>6 DEF IInv, TypeOK, ThreadOK, Creating
  <2>8. key \notin rows' /\ key \notin acked'
    BY <2>3, <2>6 DEF IInv, TypeOK
  <2>9. objects' = [objects EXCEPT ![key] = "torn"] /\ issued' = issued \cup {key}
    BY <2>1
  <2> HIDE DEF key
  <2> QED BY <2>3, <2>4, <2>5, <2>6, <2>7, <2>8, <2>9, CreateStep DEF Contents
<1> DEFINE Mine == /\ req[h] \in Request /\ Key(h) \in Keys /\ Key(h) \in issued
                   /\ Key(h) = KeyOf(req[h])
                   /\ \A g \in Handlers \ {h} : req[g].pc \in Creating => KeyOf(req[g]) # Key(h)
<1>2. CASE PutEnds(h)
  <2>0. PICK q : q = [req[h] EXCEPT !.pc = "insert"]
    OBVIOUS
  <2>1. req[h].pc = "put" /\ req[h].pc \in Creating
    BY <1>2 DEF PutEnds, At, Creating
  <2>2. Mine /\ Key(h) \notin rows /\ Key(h) \notin acked /\ req[h].before \subseteq acked
    BY <2>1, CreatingKey
  <2>3. q \in Request /\ q.pc = "insert" /\ q.before = req[h].before /\ KeyOf(q) = Key(h)
    BY <2>0, <2>2, PlaceStep DEF Places
  <2>4. /\ req' = [req EXCEPT ![h] = q]
        /\ UNCHANGED <<rows, clock, window, admitted, acked>>
        /\ issued' = issued \cup {Key(h)}
        /\ objects' = [objects EXCEPT ![Key(h)] = "whole"]
    BY <1>2, <2>0, <2>2 DEF PutEnds, limiter, Goto
  <2>5. ThreadOK(q)'
    BY <2>2, <2>3, <2>4 DEF IInv, TypeOK, ThreadOK, Creating
  <2>6. Key(h) \notin rows' /\ Key(h) \notin acked'
    BY <2>2, <2>4
  <2> QED BY <2>2, <2>3, <2>4, <2>5, <2>6, CreateStep DEF Contents
<1>3. CASE PutFails(h) \/ CleanUp(h)
  <2>0. PICK q : q = [req[h] EXCEPT !.pc = "answered", !.now = 0,
                                     !.kind = "error", !.keys = {}]
    OBVIOUS
  <2>1. req[h].pc \in Creating /\ req[h].pc # "created"
    BY <1>3 DEF PutFails, CleanUp, At, Creating
  <2>2. Mine /\ Key(h) \notin rows /\ Key(h) \notin acked /\ req[h].before \subseteq acked
    BY <2>1, CreatingKey
  <2>3. q \in Request
    BY <2>0, <2>2, RequestUpdates DEF Places, Kinds
  <2>4. q.pc = "answered" /\ q.kind = "error" /\ q.before = req[h].before
    BY <2>0, <2>2 DEF Request
  <2>5. PICK c \in Contents : objects' = [objects EXCEPT ![Key(h)] = c]
    BY <1>3 DEF PutFails, CleanUp, Contents
  <2>6. /\ req' = [req EXCEPT ![h] = q]
        /\ UNCHANGED <<rows, clock, window, admitted, acked>>
        /\ issued' = issued \cup {Key(h)}
    BY <1>3, <2>0, <2>2 DEF PutFails, CleanUp, limiter, Reply
  <2>7. ThreadOK(q)' /\ q.pc \notin Creating
    BY <2>2, <2>4, <2>6 DEF ThreadOK, Creating
  <2>8. Key(h) \notin rows' /\ Key(h) \notin acked'
    BY <2>2, <2>6
  <2> QED BY <2>2, <2>3, <2>5, <2>6, <2>7, <2>8, CreateStep
<1>4. CASE InsertRow(h)
  <2>0. PICK q : q = [req[h] EXCEPT !.pc = "created"]
    OBVIOUS
  <2>1. req[h].pc = "insert" /\ req[h].pc \in Creating
    BY <1>4 DEF InsertRow, At, Creating
  <2>2. Mine /\ objects[Key(h)] = "whole" /\ req[h].before \subseteq acked
    BY <2>1, CreatingKey
  <2>3. q \in Request /\ q.pc = "created" /\ q.before = req[h].before /\ KeyOf(q) = Key(h)
    BY <2>0, <2>2, PlaceStep DEF Places
  <2>4. /\ req' = [req EXCEPT ![h] = q]
        /\ UNCHANGED <<clock, window, admitted, acked>>
        /\ rows' = rows \cup {Key(h)} /\ issued' = issued \cup {Key(h)}
        /\ objects' = [objects EXCEPT ![Key(h)] = "whole"]
    BY <1>4, <2>0, <2>2 DEF InsertRow, limiter, Goto, IInv, TypeOK
  <2>5. ThreadOK(q)'
    BY <2>2, <2>3, <2>4 DEF ThreadOK, Creating
  <2> QED BY <2>2, <2>3, <2>4, <2>5, CreateStep DEF Contents
<1>5. CASE InsertFails(h)
  <2>0. PICK q : q = [req[h] EXCEPT !.pc = "cleanup"]
    OBVIOUS
  <2>1. req[h].pc = "insert" /\ req[h].pc \in Creating
    BY <1>5 DEF InsertFails, At, Creating
  <2>2. Mine /\ Key(h) \notin rows /\ req[h].before \subseteq acked
    BY <2>1, CreatingKey
  <2>3. q \in Request /\ q.pc = "cleanup" /\ q.before = req[h].before /\ KeyOf(q) = KeyOf(req[h])
    BY <2>0, <2>2, PlaceStep DEF Places
  <2>4. req' = [req EXCEPT ![h] = q] /\ UNCHANGED <<tables, limiter>>
    BY <1>5, <2>0 DEF InsertFails, tables, Goto
  <2>5. ThreadOK(q)
    BY <2>2, <2>3 DEF ThreadOK, Creating
  <2> QED BY <2>1, <2>3, <2>4, <2>5, RequestStep DEF IInv, TypeOK, limiter
<1>6. CASE AnswerCreated(h)
  <2>1. req[h].pc = "created" /\ req[h].pc \in Creating
    BY <1>6 DEF AnswerCreated, At, Creating
  <2>2. /\ req' = [req EXCEPT ![h] = Idle] /\ UNCHANGED <<rows, clock, window, admitted>>
        /\ acked' = acked \cup {Key(h)} /\ issued' = issued \cup {Key(h)}
        /\ objects' = [objects EXCEPT ![Key(h)] = "whole"]
    BY <1>6, <2>1, CreatingKey DEF AnswerCreated, limiter, IInv, TypeOK, Restorable
  <2>3. ThreadOK(Idle)' /\ Idle.pc \notin Creating
    BY IdlePlace DEF ThreadOK, Creating, Idle
  <2> QED BY <2>1, <2>2, <2>3, CreatingKey, CreateStep DEF Contents
<1> QED BY <1>1, <1>2, <1>3, <1>4, <1>5, <1>6 DEF Create

\* The steps of listing and downloading keep the invariant.
LEMMA ReadSteps ==
  ASSUME IInv, NEW h \in Handlers,
         ListRows(h) \/ FindRow(h) \/ GetObject(h) \/ GetFails(h) \/ Finish(h)
  PROVE  IInv'
<1> USE DEF limiter, tables
<1>1. /\ req[h] \in Request /\ req[h] # Idle /\ req[h].pc # "idle"
      /\ ThreadOK(req[h]) /\ Key(h) = KeyOf(req[h])
  BY RequestFields DEF ListRows, FindRow, GetObject, GetFails, Finish, At, IInv, Key, KeyOf
<1>2. rows \subseteq Keys /\ acked \subseteq rows /\ req[h].before \subseteq acked
  BY <1>1 DEF IInv, TypeOK, Restorable, ThreadOK
<1>3. CASE ListRows(h)
  <2> DEFINE own == Owned(req[h].user)
  <2>1. own \in SUBSET Keys /\ \A k \in own : k[1] = req[h].user
    BY <1>2 DEF Owned
  <2>2. \A k \in req[h].before : k[1] = req[h].user => k \in own
    BY <1>2 DEF Owned
  <2>3. Reply(h, "list", own) /\ UNCHANGED <<tables, clock, window, admitted>>
    BY <1>3 DEF ListRows
  <2> HIDE DEF own
  <2> QED BY <1>1, <2>1, <2>2, <2>3, AnswerStep DEF IInv, TypeOK, Kinds
<1>4. CASE FindRow(h)
  <2>1. PICK i \in Ids :
          req' = [req EXCEPT ![h].id = i,
            ![h].pc = IF \E k \in Owned(req[h].user) : k[2] = i THEN "get" ELSE "answered",
            ![h].kind = "missing"]
    BY <1>4 DEF FindRow
  <2> DEFINE found == \E k \in Owned(req[h].user) : k[2] = i
             p     == IF found THEN "get" ELSE "answered"
             q     == [req[h] EXCEPT !.id = i, !.pc = p, !.kind = "missing"]
  <2>2. /\ q \in Request /\ q.pc = p /\ q.kind = "missing"
        /\ q.before = req[h].before /\ KeyOf(q) = <<req[h].user, i>>
    BY <1>1 DEF Request, Places, Kinds, KeyOf
  <2>3. \A k \in Keys : k = <<k[1], k[2]>>
    BY DEF Keys
  <2>4. found <=> <<req[h].user, i>> \in rows
    BY <1>2, <2>3 DEF Owned
  <2>5. req' = [req EXCEPT ![h] = q] /\ UNCHANGED <<tables, clock, window, admitted>>
    BY <1>4, <2>1 DEF FindRow
  <2> HIDE DEF q, found
  <2>6. ThreadOK(q) /\ q.pc \notin Creating
    BY <1>2, <2>2, <2>4 DEF ThreadOK, Creating
  <2> QED BY <2>2, <2>5, <2>6, RequestStep DEF IInv, TypeOK
<1>5. CASE GetObject(h)
  <2>1. req[h].pc = "get" /\ Key(h) \in rows /\ objects[Key(h)] = "whole"
    BY <1>1, <1>5 DEF GetObject, At, ThreadOK, IInv, Restorable
  <2>2. Reply(h, "backup", {Key(h)}) /\ UNCHANGED <<tables, clock, window, admitted>>
    BY <1>5, <2>1 DEF GetObject
  <2>3. {Key(h)} \in SUBSET Keys
    BY <1>2, <2>1
  <2> QED BY <1>1, <2>2, <2>3, AnswerStep DEF IInv, TypeOK, Kinds
<1>6. CASE GetFails(h)
  <2>1. Reply(h, "error", {}) /\ UNCHANGED <<tables, clock, window, admitted>>
    BY <1>6 DEF GetFails
  <2> QED BY <1>1, <2>1, AnswerStep DEF IInv, TypeOK, Kinds
<1>7. CASE Finish(h)
  <2>1. req' = [req EXCEPT ![h] = Idle] /\ UNCHANGED <<tables, clock, window, admitted>>
    BY <1>7 DEF Finish
  <2>2. ThreadOK(Idle) /\ Idle.pc \notin Creating
    BY IdlePlace DEF ThreadOK, Creating
  <2> QED BY <2>1, <2>2, RequestStep DEF IInv, TypeOK
<1> QED BY <1>3, <1>4, <1>5, <1>6, <1>7

\* The death of the process keeps the invariant: what is in the stores is sound
\* at every moment.
LEMMA CrashStep ==
  ASSUME IInv, Crash
  PROVE  IInv'
<1>1. NoStamps \in [Times -> Nat]
  BY DEF NoStamps
<1>2. TypeOK'
  BY <1>1 DEF IInv, TypeOK, Crash
<1>3. Restorable'
  BY DEF IInv, Restorable, Crash
<1>4. \A h \in Handlers : req'[h] = Idle
  BY DEF Crash
<1>5. (\A h \in Handlers : ThreadOK(req[h]))'
  BY <1>4 DEF ThreadOK
<1>6. Apart'
  BY <1>4, IdlePlace DEF Apart, Creating
<1> QED BY <1>2, <1>3, <1>5, <1>6 DEF IInv

\* What the requests and the stores are decides the invariant: the clock may
\* move, and a step may change nothing.
LEMMA OtherSteps ==
  ASSUME IInv, UNCHANGED <<objects, rows, issued, req, window, acked, admitted>>,
         clock' \in Times
  PROVE  IInv'
BY DEF IInv, TypeOK, Restorable, ThreadOK, Apart, KeyOf

\* The inductive invariant holds in every state of the backend.
THEOREM Invariance == Spec => []IInv
<1>1. Init => IInv
  <2> SUFFICES ASSUME Init PROVE IInv
    OBVIOUS
  <2>1. 0 \in Times /\ NoStamps \in [Times -> Nat]
    BY LimitAssumption DEF Times, NoStamps
  <2>2. TypeOK
    BY <2>1 DEF Init, TypeOK, Contents
  <2>3. \A h \in Handlers : req[h] = Idle
    BY DEF Init
  <2>4. Restorable
    BY DEF Init, Restorable
  <2> QED BY <2>2, <2>3, <2>4, IdlePlace DEF IInv, ThreadOK, Apart, Creating
<1>2. IInv /\ [Next]_vars => IInv'
  <2> SUFFICES ASSUME IInv, [Next]_vars PROVE IInv'
    OBVIOUS
  <2>1. ASSUME NEW h \in Handlers, Step(h) PROVE IInv'
    BY <2>1, ArrivalSteps, CreateSteps, ReadSteps DEF Step
  <2>2. ASSUME NEW h \in Handlers, NEW op \in Ops, NEW u \in Users, Receive(h, op, u)
        PROVE  IInv'
    BY <2>2, ArrivalSteps
  <2>3. CASE Crash
    BY <2>3, CrashStep
  <2>4. CASE Tick
    <3>1. clock' \in Times
      BY <2>4, LimitAssumption DEF Tick, Times, IInv, TypeOK
    <3> QED BY <2>4, <3>1, OtherSteps DEF Tick
  <2>5. CASE UNCHANGED vars
    BY <2>5, OtherSteps DEF vars, IInv, TypeOK
  <2> QED BY <2>1, <2>2, <2>3, <2>4, <2>5 DEF Next
<1> QED BY <1>1, <1>2, PTL DEF Spec

\* The type invariant of the backend holds in every state.
THEOREM TypeCorrect == Spec => []TypeOK
BY Invariance, PTL DEF IInv

\* Whatever fails or dies between the two stores, a row of the metadata table has
\* its complete object, and an acknowledged backup its row.
THEOREM RestorableCorrect == Spec => []Restorable
BY Invariance, PTL DEF IInv

\* A list holds every backup of the account acknowledged before it was asked for,
\* and none of another account.
THEOREM ListCorrect == Spec => []ListComplete
<1>1. IInv => ListComplete
  <2> SUFFICES ASSUME IInv, NEW h \in Handlers, req[h] # Idle,
                      At(h, "answered"), req[h].kind = "list"
               PROVE  /\ {k \in req[h].before : k[1] = req[h].user} \subseteq req[h].keys
                      /\ \A k \in req[h].keys : k[1] = req[h].user
    BY DEF ListComplete, Busy
  <2> QED BY DEF IInv, ThreadOK, At
<1> QED BY <1>1, Invariance, PTL

\* A download of a backup acknowledged before it was asked for is never answered
\* with "missing".
THEOREM DownloadCorrect == Spec => []DownloadServed
<1>1. IInv => DownloadServed
  <2> SUFFICES ASSUME IInv, NEW h \in Handlers, req[h] # Idle,
                      At(h, "answered"), req[h].op = "download", Key(h) \in req[h].before
               PROVE  req[h].kind # "missing"
    BY DEF DownloadServed, Busy
  <2> QED BY DEF IInv, ThreadOK, At, Key, KeyOf
<1> QED BY <1>1, Invariance, PTL
-----------------------------------------------------------------------------
(* The limiter.  What it forgets of the requests of a window is one request *)
(* of each thread that read the clock before the window began and took the  *)
(* lock in it.                                                              *)

Counts == [Times -> Nat]

\* A set of times that has the first, and with one the next, has them all.
LEMMA TimesInduction ==
  ASSUME NEW G \in SUBSET Times, 0 \in G, \A t \in Times \ {0} : t - 1 \in G => t \in G
  PROVE  G = Times
<1> DEFINE Bad == Times \ G
<1>1. Bad \subseteq Nat
  BY DEF Times
<1> SUFFICES ASSUME Bad # {} PROVE FALSE
  OBVIOUS
<1>2. PICK m \in Bad : \A k \in Bad : ~(<<k, m>> \in OpToRel(<, Nat))
  BY <1>1, NatLessThanWellFounded, WFMin
<1>3. m \in Nat /\ \A k \in Bad : ~(k < m)
  BY <1>1, <1>2 DEF OpToRel
<1>4. m \in Times \ {0} /\ m - 1 \in Times /\ m - 1 < m
  BY <1>3, LimitAssumption DEF Times
<1>5. m - 1 \in G
  BY <1>3, <1>4
<1> QED BY <1>4, <1>5

\* What the recursion over the times computes.
LEMMA UpToIs ==
  ASSUME NEW f
  PROVE  /\ UpTo(f)[0] = f[0]
         /\ \A t \in Times \ {0} : UpTo(f)[t] = UpTo(f)[t - 1] + f[t]
<1> DEFINE After(g, t) == IF t = 0 THEN f[0] ELSE g[t - 1] + f[t]
           Solves(g, m) == g = [t \in 0..m |-> After(g, t)]
           G == {m \in Times : \E g : Solves(g, m)}
<1>0. MaxClock \in Nat /\ Times = 0..MaxClock
  BY LimitAssumption DEF Times
<1>1. 0 \in G
  <2>1. Solves([t \in 0..0 |-> f[0]], 0)
    OBVIOUS
  <2>2. 0 \in Times
    BY <1>0
  <2> HIDE DEF Solves
  <2> QED BY <2>1, <2>2
<1>2. ASSUME NEW m \in Times \ {0}, m - 1 \in G PROVE m \in G
  <2>1. m \in Nat /\ m # 0
    BY <1>0
  <2>2. PICK g : Solves(g, m - 1)
    <3> HIDE DEF Solves
    <3> QED BY <1>2
  <2> DEFINE h == [t \in 0..m |-> IF t = m THEN After(g, m) ELSE g[t]]
  <2>3. ASSUME NEW t \in 0..m PROVE h[t] = After(h, t)
    <3>1. CASE t = m
      <4>1. m - 1 \in 0..m /\ m - 1 # m /\ m \in 0..m
        BY <2>1
      <4>2. h[m - 1] = g[m - 1] /\ h[m] = After(g, m)
        <5> HIDE DEF After
        <5> QED BY <4>1
      <4> HIDE DEF h
      <4> QED BY <2>1, <3>1, <4>2
    <3>2. CASE t # m
      <4>1. t \in 0..(m - 1) /\ (t # 0 => t - 1 \in 0..m /\ t - 1 # m)
        BY <2>1, <3>2
      <4>2. h[t] = g[t] /\ (t # 0 => h[t - 1] = g[t - 1])
        BY <3>2, <4>1
      <4>3. g[t] = After(g, t)
        <5> HIDE DEF After
        <5> QED BY <2>2, <4>1
      <4> HIDE DEF h
      <4> QED BY <4>2, <4>3
    <3> QED BY <3>1, <3>2
  <2>4. Solves(h, m)
    <3>1. h = [t \in 0..m |-> h[t]]
      OBVIOUS
    <3> HIDE DEF h
    <3> QED BY <2>3, <3>1
  <2> HIDE DEF Solves, h
  <2> QED BY <2>4
<1>3. G = Times
  <2>1. G \in SUBSET Times
    OBVIOUS
  <2> HIDE DEF G
  <2> QED BY <1>1, <1>2, <2>1, TimesInduction
<1>4. PICK g : Solves(g, MaxClock)
  <2>1. MaxClock \in G
    BY <1>0, <1>3
  <2> HIDE DEF Solves
  <2> QED BY <2>1
<1>5. Solves(UpTo(f), MaxClock)
  BY <1>0, <1>4 DEF UpTo
<1> HIDE DEF G
<1> DEFINE u == UpTo(f)
<1> HIDE DEF u
<1>6. \A t \in 0..MaxClock : u[t] = After(u, t)
  BY <1>5 DEF u
<1>7. u[0] = f[0]
  <2>1. 0 \in 0..MaxClock
    BY <1>0
  <2>2. u[0] = After(u, 0)
    BY <1>6, <2>1
  <2> QED BY <2>2
<1>8. \A t \in Times \ {0} : u[t] = u[t - 1] + f[t]
  BY <1>0, <1>6
<1> QED BY <1>7, <1>8 DEF u

\* Totals of what is counted: they are numbers, grow with what is counted, by
\* one with one request more, and are nothing for nothing.
LEMMA TotalType ==
  ASSUME NEW f \in Counts
  PROVE  /\ \A t \in Times : UpTo(f)[t] \in Nat
         /\ Total(f) \in Nat
<1> DEFINE G == {t \in Times : UpTo(f)[t] \in Nat}
<1>1. 0 \in Times /\ MaxClock \in Times /\ \A t \in Times \ {0} : t - 1 \in Times
  BY LimitAssumption DEF Times
<1>2. \A t \in Times : f[t] \in Nat
  BY DEF Counts
<1>3. 0 \in G
  BY <1>1, <1>2, UpToIs
<1>4. ASSUME NEW t \in Times \ {0}, t - 1 \in G PROVE t \in G
  <2>1. UpTo(f)[t] = UpTo(f)[t - 1] + f[t]
    BY UpToIs
  <2> QED BY <1>2, <1>4, <2>1
<1>5. G = Times
  <2>1. G \in SUBSET Times
    OBVIOUS
  <2> HIDE DEF G
  <2> QED BY <1>3, <1>4, <2>1, TimesInduction
<1> QED BY <1>1, <1>5 DEF Total

LEMMA TotalMonotone ==
  ASSUME NEW f \in Counts, NEW g \in Counts, \A t \in Times : f[t] <= g[t]
  PROVE  Total(f) <= Total(g)
<1> DEFINE G == {t \in Times : UpTo(f)[t] <= UpTo(g)[t]}
<1>1. 0 \in Times /\ MaxClock \in Times /\ \A t \in Times \ {0} : t - 1 \in Times
  BY LimitAssumption DEF Times
<1>2. \A t \in Times : /\ f[t] \in Nat /\ g[t] \in Nat
                       /\ UpTo(f)[t] \in Nat /\ UpTo(g)[t] \in Nat
  BY TotalType DEF Counts
<1>3. 0 \in G
  <2>1. UpTo(f)[0] = f[0] /\ UpTo(g)[0] = g[0]
    BY UpToIs
  <2> QED BY <1>1, <2>1
<1>4. ASSUME NEW t \in Times \ {0}, t - 1 \in G PROVE t \in G
  <2>1. UpTo(f)[t] = UpTo(f)[t - 1] + f[t] /\ UpTo(g)[t] = UpTo(g)[t - 1] + g[t]
    BY UpToIs
  <2> QED BY <1>2, <1>4, <2>1
<1>5. G = Times
  <2>1. G \in SUBSET Times
    OBVIOUS
  <2> HIDE DEF G
  <2> QED BY <1>3, <1>4, <2>1, TimesInduction
<1> QED BY <1>1, <1>5 DEF Total

LEMMA TotalAdded ==
  ASSUME NEW f \in Counts, NEW k \in Times
  PROVE  /\ [f EXCEPT ![k] = @ + 1] \in Counts
         /\ Total([f EXCEPT ![k] = @ + 1]) = Total(f) + 1
<1> DEFINE g == [f EXCEPT ![k] = @ + 1]
           G == {t \in Times : UpTo(g)[t] = UpTo(f)[t] + IF k <= t THEN 1 ELSE 0}
<1>1. 0 \in Times /\ MaxClock \in Times /\ \A t \in Times : t \in Nat /\ t <= MaxClock
  BY LimitAssumption DEF Times
<1>2. \A t \in Times : f[t] \in Nat /\ UpTo(f)[t] \in Nat
  BY TotalType DEF Counts
<1>3. g \in Counts /\ \A t \in Times : g[t] = f[t] + IF t = k THEN 1 ELSE 0
  BY DEF Counts
<1> HIDE DEF g
<1>4. 0 \in G
  <2>1. UpTo(f)[0] = f[0] /\ UpTo(g)[0] = g[0]
    BY UpToIs
  <2> QED BY <1>1, <1>2, <1>3, <2>1
<1>5. ASSUME NEW t \in Times \ {0}, t - 1 \in G PROVE t \in G
  <2>1. UpTo(f)[t] = UpTo(f)[t - 1] + f[t] /\ UpTo(g)[t] = UpTo(g)[t - 1] + g[t]
    BY UpToIs
  <2>2. UpTo(g)[t - 1] = UpTo(f)[t - 1] + IF k <= t - 1 THEN 1 ELSE 0
    BY <1>5
  <2>3. t - 1 \in Times /\ UpTo(f)[t - 1] \in Nat
    BY <1>2, <1>5
  <2>4. (k <= t - 1 /\ k <= t /\ k # t) \/ (~(k <= t - 1) /\ k = t) \/ (~(k <= t) /\ ~(k <= t - 1) /\ k # t)
    BY <1>1
  <2>5. UpTo(g)[t] = UpTo(f)[t] + IF k <= t THEN 1 ELSE 0
    <3>1. CASE k <= t - 1 /\ k <= t /\ k # t
      BY <1>2, <1>3, <2>1, <2>2, <2>3, <3>1
    <3>2. CASE ~(k <= t - 1) /\ k = t
      BY <1>1, <1>2, <1>3, <2>1, <2>2, <2>3, <3>2
    <3>3. CASE ~(k <= t) /\ ~(k <= t - 1) /\ k # t
      BY <1>2, <1>3, <2>1, <2>2, <2>3, <3>3
    <3> QED BY <2>4, <3>1, <3>2, <3>3
  <2> QED BY <2>5
<1>6. G = Times
  <2>1. G \in SUBSET Times
    OBVIOUS
  <2> HIDE DEF G
  <2> QED BY <1>4, <1>5, <2>1, TimesInduction
<1> QED BY <1>1, <1>3, <1>6 DEF Total, g

LEMMA TotalNothing ==
  ASSUME NEW f \in Counts, \A t \in Times : f[t] = 0
  PROVE  Total(f) = 0
<1> DEFINE G == {t \in Times : UpTo(f)[t] = 0}
<1>1. 0 \in Times /\ MaxClock \in Times
  BY LimitAssumption DEF Times
<1>2. 0 \in G
  BY <1>1, UpToIs
<1>3. ASSUME NEW t \in Times \ {0}, t - 1 \in G PROVE t \in G
  <2>1. UpTo(f)[t] = UpTo(f)[t - 1] + f[t]
    BY UpToIs
  <2> QED BY <1>3, <2>1
<1>4. G = Times
  <2>1. G \in SUBSET Times
    OBVIOUS
  <2> HIDE DEF G
  <2> QED BY <1>2, <1>3, <2>1, TimesInduction
<1> QED BY <1>1, <1>4 DEF Total

\* What is counted from t on, and in the window that begins at t.
From(f, t)   == [s \in Times |-> IF s >= t THEN f[s] ELSE 0]
Within(f, t) == [s \in Times |-> IF s \in t..(t + Window) THEN f[s] ELSE 0]

\* The threads that read the clock before t and are still to take the lock.
Late(t) == {h \in Handlers : At(h, "check") /\ req[h].now < t}

\* While the window that begins at t lasts, the limiter has forgotten no more
\* of its requests than there are threads that are late no longer.
Remembered(u, t) ==
  clock <= t + Window =>
    /\ Total(From(admitted[u], t)) + Cardinality(Late(t))
         <= Total(From(window[u], t)) + Cardinality(Handlers)
    /\ Total(From(window[u], t)) <= MaxRequests

\* Nothing is counted after the clock, which no thread is ahead of.
ClockOK ==
  /\ \A u \in Users, s \in Times : s > clock => admitted[u][s] = 0 /\ window[u][s] = 0
  /\ \A h \in Handlers : At(h, "check") => req[h].now <= clock

LimitInv == ClockOK /\ (\A u \in Users, t \in Times : Remembered(u, t)) /\ LimitHeld

LEMMA CountTypes ==
  ASSUME NEW f \in Counts, NEW t \in Times
  PROVE  /\ From(f, t) \in Counts /\ Within(f, t) \in Counts
         /\ Total(From(f, t)) \in Nat /\ Total(Within(f, t)) \in Nat
         /\ Total(Within(f, t)) <= Total(From(f, t))
<1>1. From(f, t) \in Counts /\ Within(f, t) \in Counts
  BY DEF From, Within, Counts
<1>2. \A s \in Times : Within(f, t)[s] <= From(f, t)[s]
  <2> SUFFICES ASSUME NEW s \in Times PROVE Within(f, t)[s] <= From(f, t)[s]
    OBVIOUS
  <2>1. f[s] \in Nat /\ s \in Nat /\ t \in Nat
    BY DEF Counts, Times
  <2>2. Within(f, t)[s] = IF s \in t..(t + Window) THEN f[s] ELSE 0
    BY DEF Within
  <2>3. From(f, t)[s] = IF s >= t THEN f[s] ELSE 0
    BY DEF From
  <2>4. s \in t..(t + Window) => s >= t
    BY <2>1, LimitAssumption
  <2> QED BY <2>1, <2>2, <2>3, <2>4
<1> QED BY <1>1, <1>2, TotalType, TotalMonotone

LEMMA LateCounts ==
  ASSUME NEW t
  PROVE  /\ IsFiniteSet(Late(t)) /\ Cardinality(Late(t)) \in Nat /\ Cardinality(Handlers) \in Nat
         /\ Cardinality(Late(t)) <= Cardinality(Handlers)
<1>1. Late(t) \in SUBSET Handlers
  BY DEF Late
<1> QED BY <1>1, HandlersAssumption, FS_Subset, FS_CardinalityType

\* Before its window begins nothing is counted of it.
LEMMA BeforeItBegins ==
  TypeOK /\ ClockOK => \A u \in Users, t \in Times : clock < t => Remembered(u, t)
<1> SUFFICES ASSUME TypeOK, ClockOK, NEW u \in Users, NEW t \in Times, clock < t
             PROVE  Remembered(u, t)
  OBVIOUS
<1>1. admitted[u] \in Counts /\ window[u] \in Counts
  BY DEF TypeOK, Counts
<1>2. ASSUME NEW s \in Times PROVE From(admitted[u], t)[s] = 0 /\ From(window[u], t)[s] = 0
  <2>1. CASE s >= t
    <3>1. s > clock
      BY <2>1, LimitAssumption DEF TypeOK, Times
    <3> QED BY <3>1 DEF From, ClockOK
  <2>2. CASE ~(s >= t)
    BY <2>2 DEF From
  <2> QED BY <2>1, <2>2
<1>3. Total(From(admitted[u], t)) = 0 /\ Total(From(window[u], t)) = 0
  BY <1>1, <1>2, CountTypes, TotalNothing
<1> QED BY <1>3, LateCounts, LimitAssumption DEF Remembered

\* A thread that is late no longer.
LEMMA LateLess ==
  ASSUME NEW h \in Handlers, NEW t, \A g \in Handlers \ {h} : req'[g] = req[g], ~At(h, "check")'
  PROVE  /\ Late(t)' = Late(t) \ {h}
         /\ Cardinality(Late(t)') = Cardinality(Late(t)) - IF h \in Late(t) THEN 1 ELSE 0
<1>1. Late(t)' = Late(t) \ {h}
  BY DEF Late, At
<1>2. /\ IsFiniteSet(Late(t)) /\ Cardinality(Late(t)) \in Nat
  BY LateCounts
<1>3. Cardinality(Late(t) \ {h}) =
        IF h \in Late(t) THEN Cardinality(Late(t)) - 1 ELSE Cardinality(Late(t))
  BY <1>2, FS_RemoveElement
<1> QED BY <1>1, <1>2, <1>3

\* Where no thread takes the lock, only the one that reads the clock comes to
\* the check, and nothing is counted.
LEMMA OtherPlaces ==
  ASSUME TypeOK, NEW h \in Handlers,
         \/ Reject(h) \/ Create(h) \/ ListRows(h) \/ FindRow(h) \/ GetObject(h)
         \/ GetFails(h) \/ Finish(h) \/ \E op \in Ops, u \in Users : Receive(h, op, u)
  PROVE  /\ UNCHANGED limiter /\ ~At(h, "check") /\ ~At(h, "check")'
         /\ \A g \in Handlers \ {h} : req'[g] = req[g]
<1> USE DEF TypeOK
<1>1. CASE Finish(h) \/ AnswerCreated(h)
  BY <1>1 DEF Finish, AnswerCreated, At, Idle
<1>2. CASE \E op \in Ops, u \in Users : Receive(h, op, u)
  BY <1>2 DEF Receive, At, Idle
<1>3. CASE Reject(h) \/ PutFails(h) \/ CleanUp(h) \/ ListRows(h) \/ GetObject(h) \/ GetFails(h)
  <2>1. \E kind, keys : Reply(h, kind, keys)
    BY <1>3 DEF Reject, PutFails, CleanUp, ListRows, GetObject, GetFails
  <2>2. req[h].pc \notin {"idle", "check"} /\ UNCHANGED limiter
    BY <1>3 DEF Reject, PutFails, CleanUp, ListRows, GetObject, GetFails, At
  <2>3. req[h] \in Request
    BY <2>2, RequestFields
  <2>4. req'[h].pc = "answered" /\ \A g \in Handlers \ {h} : req'[g] = req[g]
    BY <2>1, <2>3 DEF Reply, Request
  <2> QED BY <2>2, <2>4 DEF At
<1>4. CASE PutEnds(h) \/ InsertRow(h) \/ InsertFails(h)
  <2>1. \E p \in {"insert", "created", "cleanup"} : Goto(h, p)
    BY <1>4 DEF PutEnds, InsertRow, InsertFails
  <2>2. req[h].pc \notin {"idle", "check"} /\ UNCHANGED limiter
    BY <1>4 DEF PutEnds, InsertRow, InsertFails, At
  <2>3. req[h] \in Request
    BY <2>2, RequestFields
  <2>4. req'[h].pc # "check" /\ \A g \in Handlers \ {h} : req'[g] = req[g]
    BY <2>1, <2>3 DEF Goto, Request
  <2> QED BY <2>2, <2>4 DEF At
<1>5. CASE PutBegins(h)
  <2>1. req[h].pc = "create" /\ UNCHANGED limiter
    BY <1>5 DEF PutBegins, At
  <2>2. req[h] \in Request
    BY <2>1, RequestFields
  <2>3. PICK i : req' = [req EXCEPT ![h].pc = "put", ![h].id = i]
    BY <1>5 DEF PutBegins
  <2>4. PICK q : q = [req[h] EXCEPT !.pc = "put", !.id = i]
    OBVIOUS
  <2>5. q.pc = "put" /\ req' = [req EXCEPT ![h] = q]
    BY <2>2, <2>3, <2>4 DEF Request
  <2> QED BY <2>1, <2>5 DEF At
<1>6. CASE FindRow(h)
  <2>1. req[h].pc = "download" /\ UNCHANGED limiter
    BY <1>6 DEF FindRow, At
  <2>2. req[h] \in Request
    BY <2>1, RequestFields
  <2>3. PICK i \in Ids :
          req' = [req EXCEPT ![h].id = i,
            ![h].pc = IF \E k \in Owned(req[h].user) : k[2] = i THEN "get" ELSE "answered",
            ![h].kind = "missing"]
    BY <1>6 DEF FindRow
  <2> DEFINE found == \E k \in Owned(req[h].user) : k[2] = i
             p     == IF found THEN "get" ELSE "answered"
             q     == [req[h] EXCEPT !.id = i, !.pc = p, !.kind = "missing"]
  <2>4. q.pc = p /\ p # "check"
    BY <2>2 DEF Request
  <2>5. req' = [req EXCEPT ![h] = q]
    BY <2>3
  <2> HIDE DEF q, p
  <2> QED BY <2>1, <2>4, <2>5 DEF At
<1> QED BY <1>1, <1>2, <1>3, <1>4, <1>5, <1>6 DEF Create

\* What a thread at the check knows, and what is recent for it.
LEMMA AtTheCheck ==
  ASSUME TypeOK, ClockOK, NEW h \in Handlers, At(h, "check")
  PROVE  LET u == req[h].user  now == req[h].now IN
         /\ req[h] \in Request /\ u \in Users /\ now \in Times /\ now <= clock
         /\ Recent(u, now) \in Counts
         /\ \A s \in Times : Recent(u, now)[s] \in {window[u][s], 0}
         /\ \A t \in Times : clock <= t + Window =>
              /\ \A s \in Times : s >= t => Recent(u, now)[s] = window[u][s]
              /\ Total(From(window[u], t)) <= Total(Recent(u, now))
<1> DEFINE u == req[h].user
           now == req[h].now
           recent == Recent(u, now)
<1>1. req[h] \in Request /\ u \in Users /\ now \in Times /\ now <= clock
  BY RequestFields DEF At, Request, ClockOK
<1>2. window[u] \in Counts /\ \A s \in Times : window[u][s] \in Nat
  BY <1>1 DEF TypeOK, Counts
<1> HIDE DEF u, now
<1>3. recent \in Counts /\ \A s \in Times : recent[s] = IF s >= now - Window THEN window[u][s] ELSE 0
  BY <1>2 DEF Recent, Counts
<1> HIDE DEF recent
<1>4. ASSUME NEW t \in Times, clock <= t + Window
      PROVE  /\ \A s \in Times : s >= t => recent[s] = window[u][s]
             /\ Total(From(window[u], t)) <= Total(recent)
  <2>1. now \in Nat /\ clock \in Nat /\ t \in Nat /\ Window \in Nat
    BY <1>1, LimitAssumption DEF TypeOK, Times
  <2>2. now - Window <= t
    BY <1>1, <1>4, <2>1
  <2>3. \A s \in Times : s \in Nat
    BY DEF Times
  <2>4. \A s \in Times : s >= t => recent[s] = window[u][s]
    BY <1>3, <2>1, <2>2, <2>3
  <2>5. \A s \in Times : From(window[u], t)[s] <= recent[s]
    BY <1>2, <1>3, <2>4 DEF From, Counts
  <2> QED BY <1>2, <1>3, <2>4, <2>5, CountTypes, TotalMonotone
<1> QED BY <1>1, <1>2, <1>3, <1>4 DEF u, now, recent

\* A request that is refused only makes the limiter forget what is old.
LEMMA LimitStep ==
  ASSUME TypeOK, LimitInv, NEW h \in Handlers, Limit(h)
  PROVE  ClockOK' /\ \A u \in Users, t \in Times : Remembered(u, t)'
<1> DEFINE u == req[h].user
           now == req[h].now
           recent == Recent(u, now)
<1>0. TypeOK /\ ClockOK /\ At(h, "check")
  BY DEF LimitInv, Limit
<1>1. /\ req[h] \in Request /\ u \in Users
      /\ \A s \in Times : recent[s] \in {window[u][s], 0}
      /\ \A t \in Times : clock <= t + Window =>
           \A s \in Times : s >= t => recent[s] = window[u][s]
  BY <1>0, AtTheCheck
<1>2. /\ window' = [window EXCEPT ![u] = recent] /\ admitted' = admitted /\ clock' = clock
      /\ req'[h].pc = "answered" /\ \A g \in Handlers \ {h} : req'[g] = req[g]
  BY <1>1 DEF Limit, Reply, Request, TypeOK
<1> HIDE DEF u, now, recent
<1>3. ClockOK'
  BY <1>0, <1>1, <1>2 DEF ClockOK, TypeOK, At
<1>4. ASSUME NEW v \in Users, NEW t \in Times, clock <= t + Window
      PROVE  From(window'[v], t) = From(window[v], t)
  <2>1. \A s \in Times : s >= t => window'[v][s] = window[v][s]
    BY <1>1, <1>2, <1>4 DEF TypeOK
  <2> QED BY <2>1 DEF From
<1>5. ASSUME NEW v \in Users, NEW t \in Times
      PROVE  Remembered(v, t)'
  <2> SUFFICES ASSUME clock <= t + Window
               PROVE  /\ Total(From(admitted[v], t)) + Cardinality(Late(t)')
                           <= Total(From(window[v], t)) + Cardinality(Handlers)
                      /\ Total(From(window[v], t)) <= MaxRequests
    BY <1>2, <1>4 DEF Remembered
  <2>1. /\ Total(From(admitted[v], t)) + Cardinality(Late(t))
             <= Total(From(window[v], t)) + Cardinality(Handlers)
        /\ Total(From(window[v], t)) <= MaxRequests
    BY DEF LimitInv, Remembered
  <2>2. ~At(h, "check")'
    BY <1>2 DEF At
  <2>3. Cardinality(Late(t)') = Cardinality(Late(t)) - IF h \in Late(t) THEN 1 ELSE 0
    BY <1>2, <2>2, LateLess
  <2>4. /\ Total(From(admitted[v], t)) \in Nat /\ Total(From(window[v], t)) \in Nat
        /\ Cardinality(Late(t)) \in Nat /\ Cardinality(Handlers) \in Nat
    BY CountTypes, LateCounts DEF TypeOK, Counts
  <2> QED BY <2>1, <2>3, <2>4
<1> QED BY <1>3, <1>5

\* A request that is let through is remembered in its window, or is the one
\* its thread was late with.
LEMMA AdmitStep ==
  ASSUME TypeOK, LimitInv, NEW h \in Handlers, Admit(h)
  PROVE  ClockOK' /\ \A u \in Users, t \in Times : t <= clock => Remembered(u, t)'
<1> DEFINE u == req[h].user
           now == req[h].now
           recent == Recent(u, now)
<1>0. TypeOK /\ ClockOK /\ At(h, "check")
  BY DEF LimitInv, Admit
<1>1. /\ req[h] \in Request /\ u \in Users /\ now \in Times /\ now <= clock /\ recent \in Counts
      /\ \A s \in Times : recent[s] \in {window[u][s], 0}
      /\ \A t \in Times : clock <= t + Window =>
           /\ \A s \in Times : s >= t => recent[s] = window[u][s]
           /\ Total(From(window[u], t)) <= Total(recent)
  BY <1>0, AtTheCheck
<1>2. /\ window' = [window EXCEPT ![u] = [recent EXCEPT ![now] = @ + 1]]
      /\ admitted' = [admitted EXCEPT ![u][clock] = @ + 1]
      /\ Total(recent) < MaxRequests
      /\ clock' = clock /\ req'[h].pc \in Ops /\ \A g \in Handlers \ {h} : req'[g] = req[g]
  BY <1>1 DEF Admit, Request, TypeOK
<1>3. /\ clock \in Times /\ admitted[u] \in Counts /\ window[u] \in Counts
      /\ admitted \in [Users -> Counts] /\ window \in [Users -> Counts]
      /\ \A s \in Times : s \in Nat
  BY <1>1 DEF TypeOK, Counts, Times
<1>4. \A t : h \in Late(t) <=> now < t
  BY <1>0 DEF Late
<1>5. ~At(h, "check")'
  BY <1>2 DEF At, Ops
<1> HIDE DEF u, now, recent
<1>6. ClockOK'
  <2>1. \A s \in Times : s > clock => admitted'[u][s] = admitted[u][s] /\ window'[u][s] = recent[s]
    BY <1>1, <1>2, <1>3 DEF Counts
  <2>2. \A v \in Users \ {u} : admitted'[v] = admitted[v] /\ window'[v] = window[v]
    BY <1>2, <1>3
  <2>3. \A v \in Users, s \in Times : s > clock => admitted'[v][s] = 0 /\ window'[v][s] = 0
    BY <1>0, <1>1, <2>1, <2>2 DEF ClockOK
  <2>4. \A g \in Handlers : At(g, "check")' => req'[g].now <= clock
    BY <1>0, <1>2, <1>5 DEF ClockOK, At
  <2> QED BY <1>2, <2>3, <2>4 DEF ClockOK
<1>7. ASSUME NEW v \in Users, NEW t \in Times, t <= clock, clock <= t + Window
      PROVE  /\ Total(From(admitted'[v], t)) + Cardinality(Late(t)')
                  <= Total(From(window'[v], t)) + Cardinality(Handlers)
             /\ Total(From(window'[v], t)) <= MaxRequests
  <2>1. /\ Total(From(admitted[v], t)) + Cardinality(Late(t))
             <= Total(From(window[v], t)) + Cardinality(Handlers)
        /\ Total(From(window[v], t)) <= MaxRequests
    BY <1>7 DEF LimitInv, Remembered
  <2>2. Cardinality(Late(t)') = Cardinality(Late(t)) - IF now < t THEN 1 ELSE 0
    BY <1>2, <1>4, <1>5, LateLess
  <2>3. /\ Total(From(admitted[v], t)) \in Nat /\ Total(From(window[v], t)) \in Nat
        /\ Cardinality(Late(t)) \in Nat /\ Cardinality(Handlers) \in Nat /\ Total(recent) \in Nat
    BY <1>1, <1>3, CountTypes, LateCounts, TotalType
  <2>4. CASE v # u
    <3>1. admitted'[v] = admitted[v] /\ window'[v] = window[v]
      BY <1>2, <1>3, <2>4
    <3> QED BY <2>1, <2>2, <2>3, <3>1
  <2>5. CASE v = u
    <3>1. From(admitted'[u], t) = [From(admitted[u], t) EXCEPT ![clock] = @ + 1]
      <4>1. admitted'[u] = [admitted[u] EXCEPT ![clock] = @ + 1]
        BY <1>1, <1>2, <1>3
      <4> QED BY <1>3, <1>7, <4>1 DEF From, Counts
    <3>2. Total(From(admitted'[u], t)) = Total(From(admitted[u], t)) + 1
      BY <1>3, <3>1, CountTypes, TotalAdded
    <3>3. window'[u] = [recent EXCEPT ![now] = @ + 1]
      BY <1>1, <1>2, <1>3
    <3>4. \A s \in Times : s >= t => recent[s] = window[u][s]
      BY <1>1, <1>7
    <3>5. CASE now < t
      <4>1. \A s \in Times : s >= t => window'[u][s] = window[u][s]
        BY <1>1, <1>3, <3>3, <3>4, <3>5 DEF Counts
      <4>2. From(window'[u], t) = From(window[u], t)
        BY <4>1 DEF From
      <4> QED BY <2>1, <2>2, <2>3, <2>5, <3>2, <3>5, <4>2
    <3>6. CASE ~(now < t)
      <4>1. now >= t
        BY <1>1, <1>3, <3>6
      <4>2. From(window'[u], t) = [From(window[u], t) EXCEPT ![now] = @ + 1]
        BY <1>1, <1>3, <3>3, <3>4, <4>1 DEF From, Counts
      <4>3. Total(From(window'[u], t)) = Total(From(window[u], t)) + 1
        BY <1>1, <1>3, <4>2, CountTypes, TotalAdded
      <4>4. Total(From(window[u], t)) <= Total(recent)
        BY <1>1, <1>7
      <4> QED BY <1>2, <2>1, <2>2, <2>3, <2>5, <3>2, <3>6, <4>3, <4>4, LimitAssumption
    <3> QED BY <3>5, <3>6
  <2> QED BY <2>4, <2>5
<1> QED BY <1>2, <1>6, <1>7 DEF Remembered

\* A step that only moves a thread, and makes none late.
LEMMA MoveStep ==
  ASSUME TypeOK, LimitInv, NEW h \in Handlers, UNCHANGED limiter,
         \A g \in Handlers \ {h} : req'[g] = req[g],
         ~At(h, "check"), At(h, "check")' => req'[h].now = clock
  PROVE  ClockOK' /\ \A u \in Users, t \in Times : t <= clock => Remembered(u, t)'
<1>1. clock' = clock /\ window' = window /\ admitted' = admitted /\ clock \in Nat
  BY DEF limiter, TypeOK, Times
<1>2. ClockOK'
  BY <1>1 DEF LimitInv, ClockOK, At
<1>3. ASSUME NEW u \in Users, NEW t \in Times, t <= clock
      PROVE  Remembered(u, t)'
  <2>1. t \in Nat
    BY DEF Times
  <2>2. h \notin Late(t) /\ ~(At(h, "check")' /\ req'[h].now < t)
    BY <1>1, <1>3, <2>1 DEF Late
  <2>3. Late(t)' = Late(t)
    BY <2>2 DEF Late, At
  <2> QED BY <1>1, <2>3 DEF LimitInv, Remembered
<1> QED BY <1>2, <1>3

\* A restart forgets everything, the requests that were late included.
LEMMA ForgottenStep ==
  ASSUME TypeOK, Crash
  PROVE  ClockOK' /\ \A u \in Users, t \in Times : Remembered(u, t)'
<1>1. /\ \A u \in Users : admitted'[u] = NoStamps /\ window'[u] = NoStamps
      /\ \A h \in Handlers : ~At(h, "check")'
  BY DEF Crash, At, Idle
<1>2. NoStamps \in Counts /\ \A s \in Times : NoStamps[s] = 0
  BY DEF NoStamps, Counts
<1>3. ASSUME NEW u \in Users, NEW t \in Times
      PROVE  Remembered(u, t)'
  <2>1. Late(t)' = {}
    BY <1>1 DEF Late
  <2>2. \A s \in Times : From(NoStamps, t)[s] = 0
    BY <1>2 DEF From
  <2>3. Total(From(NoStamps, t)) = 0
    BY <1>2, <2>2, CountTypes, TotalNothing
  <2>4. Cardinality({}) = 0 /\ Cardinality(Handlers) \in Nat
    BY FS_EmptySet, LateCounts
  <2>5. Cardinality(Late(t)') = 0
    BY <2>1, <2>4
  <2> QED BY <1>1, <2>3, <2>4, <2>5, LimitAssumption DEF Remembered
<1> QED BY <1>1, <1>2, <1>3 DEF ClockOK

\* Where a request is let through, it is at the time of the clock.
LEMMA HeldStep ==
  ASSUME TypeOK, LimitHeld, TypeOK', \A u \in Users, t \in Times : Remembered(u, t)',
         \/ admitted' = admitted \/ Crash \/ \E h \in Handlers : Admit(h)
  PROVE  LimitHeld'
<1> SUFFICES ASSUME NEW u \in Users, NEW t \in Times
             PROVE  Total(Within(admitted'[u], t)) <= MaxRequests + Cardinality(Handlers)
  BY DEF LimitHeld, Within
<1>1. /\ admitted[u] \in Counts /\ admitted'[u] \in Counts /\ window'[u] \in Counts
      /\ clock' \in Nat /\ t \in Nat
  BY DEF TypeOK, Counts, Times
<1>2. CASE clock' <= t + Window
  <2>1. /\ Total(From(admitted'[u], t)) + Cardinality(Late(t)')
             <= Total(From(window'[u], t)) + Cardinality(Handlers)
        /\ Total(From(window'[u], t)) <= MaxRequests
    BY <1>2 DEF Remembered
  <2>2. Cardinality(Late(t)') \in Nat
    <3>1. Late(t)' \in SUBSET Handlers
      BY DEF Late
    <3> QED BY <3>1, HandlersAssumption, FS_Subset, FS_CardinalityType
  <2>3. /\ Total(From(admitted'[u], t)) \in Nat /\ Total(From(window'[u], t)) \in Nat
        /\ Total(Within(admitted'[u], t)) \in Nat /\ Cardinality(Handlers) \in Nat
        /\ Total(Within(admitted'[u], t)) <= Total(From(admitted'[u], t))
    BY <1>1, CountTypes, LateCounts
  <2> QED BY <2>1, <2>2, <2>3, LimitAssumption
<1>3. CASE ~(clock' <= t + Window)
  <2>1. Total(Within(admitted[u], t)) <= MaxRequests + Cardinality(Handlers)
    BY DEF LimitHeld, Within
  <2>2. CASE admitted' = admitted
    BY <2>1, <2>2
  <2>3. CASE Crash
    <3>1. \A s \in Times : Within(admitted'[u], t)[s] = 0
      BY <2>3 DEF Crash, NoStamps, Within
    <3>2. Total(Within(admitted'[u], t)) = 0
      BY <1>1, <3>1, CountTypes, TotalNothing
    <3> QED BY <3>2, LateCounts, LimitAssumption
  <2>4. ASSUME NEW h \in Handlers, Admit(h)
        PROVE  Total(Within(admitted'[u], t)) <= MaxRequests + Cardinality(Handlers)
    <3>1. clock' = clock /\ admitted' = [admitted EXCEPT ![req[h].user][clock] = @ + 1]
      BY <2>4 DEF Admit
    <3>2. \A s \in Times : s # clock => admitted'[u][s] = admitted[u][s]
      BY <3>1 DEF TypeOK
    <3>3. \A s \in Times : s \in t..(t + Window) => s # clock
      BY <1>1, <1>3, <3>1, LimitAssumption
    <3>4. Within(admitted'[u], t) = Within(admitted[u], t)
      BY <3>2, <3>3 DEF Within
    <3> QED BY <2>1, <3>4
  <2> QED BY <2>2, <2>3, <2>4
<1> QED BY <1>2, <1>3

LEMMA LimitInvStep == TypeOK /\ TypeOK' /\ LimitInv /\ [Next]_vars => LimitInv'
<1> SUFFICES ASSUME TypeOK, TypeOK', LimitInv, [Next]_vars PROVE LimitInv'
  OBVIOUS
<1> DEFINE Kept == ClockOK' /\ \A u \in Users, t \in Times : t <= clock' => Remembered(u, t)'
           Counted == \/ admitted' = admitted \/ Crash \/ \E h \in Handlers : Admit(h)
<1>1. ASSUME NEW h \in Handlers, Step(h) \/ \E op \in Ops, u \in Users : Receive(h, op, u)
      PROVE  Kept /\ Counted
  <2>1. CASE ReadClock(h)
    <3>1. req[h] \in Request
      BY <2>1, RequestFields DEF ReadClock, At
    <3>2. /\ UNCHANGED limiter /\ ~At(h, "check") /\ req'[h].now = clock
          /\ \A g \in Handlers \ {h} : req'[g] = req[g]
      BY <2>1, <3>1 DEF ReadClock, At, Request, TypeOK
    <3> QED BY <3>2, MoveStep DEF limiter
  <2>2. CASE Limit(h)
    BY <2>2, LimitStep DEF Limit
  <2>3. CASE Admit(h)
    <3>1. clock' = clock
      BY <2>3 DEF Admit
    <3> QED BY <2>3, <3>1, AdmitStep
  <2>4. CASE ~(ReadClock(h) \/ Limit(h) \/ Admit(h))
    <3>1. /\ UNCHANGED limiter /\ ~At(h, "check") /\ ~At(h, "check")'
          /\ \A g \in Handlers \ {h} : req'[g] = req[g]
      BY <1>1, <2>4, OtherPlaces DEF Step
    <3> QED BY <3>1, MoveStep DEF limiter
  <2> QED BY <2>1, <2>2, <2>3, <2>4
<1>2. ASSUME Crash PROVE Kept /\ Counted
  BY <1>2, ForgottenStep
<1>3. ASSUME Tick PROVE Kept /\ Counted
  <2>1. /\ clock' = clock + 1 /\ clock \in Nat /\ clock' \in Nat
        /\ UNCHANGED <<req, window, admitted>>
    BY <1>3 DEF Tick, TypeOK, Times
  <2>2. \A s \in Times : s \in Nat
    BY DEF Times
  <2>3. ClockOK'
    <3>1. \A u \in Users, s \in Times : s > clock' => admitted'[u][s] = 0 /\ window'[u][s] = 0
      BY <2>1, <2>2 DEF LimitInv, ClockOK
    <3>2. ASSUME NEW h \in Handlers, At(h, "check") PROVE req[h].now <= clock'
      <4>1. req[h].now \in Nat
        BY <3>2, RequestFields DEF At, Request, Times
      <4> QED BY <2>1, <3>2, <4>1 DEF LimitInv, ClockOK
    <3> QED BY <2>1, <3>1, <3>2 DEF ClockOK, At
  <2>4. \A u \in Users, t \in Times : Remembered(u, t)'
    <3> SUFFICES ASSUME NEW u \in Users, NEW t \in Times PROVE Remembered(u, t)'
      OBVIOUS
    <3>1. Late(t)' = Late(t)
      BY <2>1 DEF Late, At
    <3>2. clock' <= t + Window => clock <= t + Window
      BY <2>1, <2>2, LimitAssumption
    <3> QED BY <2>1, <3>1, <3>2 DEF LimitInv, Remembered
  <2> QED BY <2>1, <2>3, <2>4
<1>4. ASSUME UNCHANGED vars PROVE Kept /\ Counted
  <2>1. clock' = clock /\ window' = window /\ admitted' = admitted /\ req' = req
    BY <1>4 DEF vars
  <2>2. ClockOK'
    BY <2>1 DEF LimitInv, ClockOK, At
  <2>3. \A t \in Times : Late(t)' = Late(t)
    BY <2>1 DEF Late, At
  <2>4. \A u \in Users, t \in Times : Remembered(u, t)'
    BY <2>1, <2>3 DEF LimitInv, Remembered
  <2> QED BY <2>1, <2>2, <2>4
<1>5. Kept /\ Counted
  <2> HIDE DEF Kept, Counted
  <2> QED BY <1>1, <1>2, <1>3, <1>4 DEF Next
<1>6. ClockOK' /\ \A u \in Users, t \in Times : t <= clock' => Remembered(u, t)'
  BY <1>5
<1>7. admitted' = admitted \/ Crash \/ \E h \in Handlers : Admit(h)
  BY <1>5
<1> HIDE DEF Kept, Counted
<1>8. (TypeOK /\ ClockOK => \A u \in Users, t \in Times : clock < t => Remembered(u, t))'
  BY BeforeItBegins, PTL
<1>9. ASSUME NEW u \in Users, NEW t \in Times PROVE Remembered(u, t)'
  <2>1. clock' \in Nat /\ t \in Nat
    BY DEF TypeOK, Times
  <2>2. CASE t <= clock'
    BY <1>6, <2>2
  <2>3. CASE clock' < t
    BY <1>6, <1>8, <2>3
  <2> QED BY <2>1, <2>2, <2>3
<1>10. LimitHeld'
  BY <1>7, <1>9, HeldStep DEF LimitInv
<1> QED BY <1>6, <1>9, <1>10 DEF LimitInv

\* However late threads are between reading the clock and taking the lock, no
\* window of time lets through more requests of an account than the limit and
\* one more for every thread.
THEOREM LimitCorrect == Spec => []LimitHeld
<1>1. Init => LimitInv
  <2> SUFFICES ASSUME Init PROVE LimitInv
    OBVIOUS
  <2>1. NoStamps \in Counts /\ \A s \in Times : NoStamps[s] = 0
    BY DEF NoStamps, Counts
  <2>2. \A u \in Users : admitted[u] = NoStamps /\ window[u] = NoStamps
    BY DEF Init
  <2>3. \A h \in Handlers : ~At(h, "check")
    BY DEF Init, At, Idle
  <2>4. ClockOK
    BY <2>1, <2>2, <2>3 DEF ClockOK
  <2>5. ASSUME NEW t \in Times
        PROVE  Total(From(NoStamps, t)) = 0 /\ Total(Within(NoStamps, t)) = 0
    <3>1. \A s \in Times : From(NoStamps, t)[s] = 0 /\ Within(NoStamps, t)[s] = 0
      BY <2>1 DEF From, Within
    <3> QED BY <2>1, <3>1, CountTypes, TotalNothing
  <2>6. \A u \in Users, t \in Times : Remembered(u, t)
    BY <2>2, <2>5, LateCounts, LimitAssumption DEF Remembered
  <2>7. LimitHeld
    <3> SUFFICES ASSUME NEW u \in Users, NEW t \in Times
                 PROVE  Total(Within(admitted[u], t)) <= MaxRequests + Cardinality(Handlers)
      BY DEF LimitHeld, Within
    <3> QED BY <2>2, <2>5, LateCounts, LimitAssumption
  <2> QED BY <2>4, <2>6, <2>7 DEF LimitInv
<1>2. LimitInv => LimitHeld
  BY DEF LimitInv
<1> QED BY <1>1, <1>2, LimitInvStep, TypeCorrect, PTL DEF Spec
=============================================================================
