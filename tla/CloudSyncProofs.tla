-------------------------- MODULE CloudSyncProofs --------------------------
(***************************************************************************)
(* Proofs about CloudSync, for any devices, records and bodies, any limits *)
(* and any number of edits, under any interleaving, loss and kill.         *)
(*                                                                         *)
(* The log only grows, so what a device once read of it stays true: the    *)
(* page in hand, the parked conflicts and the row a change was             *)
(* acknowledged with are rows of the log (Informed, Aware).  Every version *)
(* a device stores is one of theirs, which bounds it by the head.          *)
(*                                                                         *)
(* A reader has no rows to push, so that its cursor moves by merging only, *)
(* and knows nothing beyond it (Follows): a merge is a step of LogReplica, *)
(* and what a reader holds is the log up to its cursor (Mirrors).          *)
(*                                                                         *)
(* A record is what the hash beside it says.  That hash is of a logged     *)
(* row, of the row queued last or of a pending delete (Settled), and the   *)
(* rows a run has in hand are those of the outbox (InStep): one is taken   *)
(* from it once its content is in the log, or a later one remains.         *)
(* That is also why no change is lost from the outbox (LeavesOutbox).      *)
(*                                                                         *)
(* CloudBackup adds what envelopes and uploads know of the log (BackupInv); *)
(* a restored device knows nothing but a cursor the log has reached.  What *)
(* is parked after an upload read the cursor lies beyond it, unless the    *)
(* device is restored itself: the page in hand goes on from the cursor,    *)
(* and the cursor only climbs (PInv).                                      *)
(***************************************************************************)
EXTENDS CloudBackup, CloudSyncReplica, FiniteSetTheorems, WellFoundedInduction, TLAPS

\* The log's rows of an entity up to a number, and the version they make.
Upto(e, n)  == {i \in RowsOf(e) : i <= n}
VerAt(e, n) == Cardinality(Upto(e, n))

LogOK ==
  \A i \in DOMAIN log : log[i].seq = i /\ log[i].ver = VerAt(log[i].ent, i)

InLog(c) == \E i \in DOMAIN log : c = log[i]

\* Rows are told apart by their ids, which are given out in order.
OneId(S) == /\ \A r \in S : r.at = r.id
            /\ \A r, q \in S : r.id = q.id => r = q

\* What a database knows of the log.
Informed(s) ==
  /\ s.cursor <= Len(log)
  /\ \A e \in Ids : s.meta[e].ver <= HeadVer(e)
  /\ \A x \in s.conflicts : InLog(x.c)
  /\ OneId(s.outbox) /\ \A r \in s.outbox : r.id < s.clock

FirstIn(S) == CHOOSE r \in S : \A q \in S \ {r} : Before(r, q)

\* What a run knows of it.
Aware(u) ==
  /\ \A k \in DOMAIN u.page : InLog(u.page[k])
  /\ u.at = "merge" => u.page # <<>>
  /\ OneId(u.todo)
  /\ u.at \in {"send", "wait", "fail", "delete", "meta", "cursor", "write"} => u.todo # {}
  /\ u.at \in {"delete", "meta", "cursor", "write"} =>
       u.ack \in DOMAIN log /\ log[u.ack].ent = FirstIn(u.todo).ent

IInv ==
  /\ TypeOK /\ LogOK
  /\ \A d \in Devices : Informed(db[d]) /\ Aware(run[d])
-----------------------------------------------------------------------------
LEMMA NoMetaType == NoMeta \in Meta
BY DEF NoMeta, Meta, Statuses

\* A set of rows has a first one, which goes before the others.
LEMMA FirstRow ==
  ASSUME NEW S, S \subseteq Row, S # {}, OneId(S)
  PROVE  FirstIn(S) \in S /\ FirstIn(S) \in Row
<1> DEFINE I == {r.id : r \in S}
<1>1. I \subseteq Nat /\ I # {}
  BY DEF Row
<1>2. PICK m \in I : \A k \in I : ~(<<k, m>> \in OpToRel(<, Nat))
  BY <1>1, NatLessThanWellFounded, WFMin
<1>3. \A k \in I : m <= k
  <2>1. \A k \in I : k \in Nat /\ ~(k < m)
    BY <1>1, <1>2 DEF OpToRel
  <2>2. m \in Nat
    BY <1>1
  <2> QED BY <2>1, <2>2
<1>4. PICK r \in S : r.id = m
  OBVIOUS
<1>5. \A q \in S \ {r} : Before(r, q)
  <2> SUFFICES ASSUME NEW q \in S \ {r} PROVE Before(r, q)
    OBVIOUS
  <2>1. q.id \in Nat /\ r.id \in Nat /\ r.at = r.id /\ q.at = q.id /\ r.id # q.id
    BY DEF Row, OneId
  <2>2. r.id <= q.id
    BY <1>3, <1>4
  <2> QED BY <2>1, <2>2 DEF Before
<1> QED BY <1>5 DEF FirstIn

LEMMA RowsFinite ==
  ASSUME TypeOK
  PROVE  /\ Len(log) \in Nat /\ DOMAIN log = 1..Len(log)
         /\ \A e : RowsOf(e) \subseteq 1..Len(log) /\ IsFiniteSet(RowsOf(e)) /\ HeadVer(e) \in Nat
         /\ \A e, n : IsFiniteSet(Upto(e, n)) /\ VerAt(e, n) \in Nat /\ VerAt(e, n) <= HeadVer(e)
<1>1. Len(log) \in Nat /\ DOMAIN log = 1..Len(log)
  BY DEF TypeOK
<1>2. IsFiniteSet(1..Len(log))
  <2>1. 1 \in Int /\ Len(log) \in Int
    BY <1>1
  <2> QED BY <2>1, FS_Interval
<1>3. ASSUME NEW e
      PROVE  RowsOf(e) \subseteq 1..Len(log) /\ IsFiniteSet(RowsOf(e)) /\ HeadVer(e) \in Nat
  <2>1. RowsOf(e) \in SUBSET (1..Len(log))
    BY <1>1 DEF RowsOf
  <2> QED BY <1>2, <2>1, FS_Subset, FS_CardinalityType DEF HeadVer
<1>4. ASSUME NEW e, NEW n
      PROVE  IsFiniteSet(Upto(e, n)) /\ VerAt(e, n) \in Nat /\ VerAt(e, n) <= HeadVer(e)
  <2>1. Upto(e, n) \in SUBSET RowsOf(e)
    BY DEF Upto
  <2>2. IsFiniteSet(RowsOf(e))
    BY <1>3
  <2> QED BY <2>1, <2>2, FS_Subset, FS_CardinalityType DEF HeadVer, VerAt
<1> QED BY <1>1, <1>3, <1>4

\* A row of the log carries no version ahead of the head, and its own number.
LEMMA RowVersion ==
  ASSUME TypeOK, LogOK, NEW c, InLog(c)
  PROVE  /\ c \in Change /\ c.ver <= HeadVer(c.ent)
         /\ c.seq \in DOMAIN log /\ c = log[c.seq] /\ c.seq <= Len(log)
<1>1. PICK i \in DOMAIN log : c = log[i]
  BY DEF InLog
<1>2. c \in Change /\ c.seq = i /\ c.ver = VerAt(c.ent, i)
  BY <1>1 DEF TypeOK, LogOK
<1>3. i \in 1..Len(log) /\ Len(log) \in Nat
  BY RowsFinite
<1> QED BY <1>1, <1>2, <1>3, RowsFinite
-----------------------------------------------------------------------------
\* The log grows by at most one row, which is as numbered as the others.
Grows ==
  /\ log' \in Seq(Change)
  /\ Len(log) <= Len(log')
  /\ \A i \in DOMAIN log : i \in DOMAIN log' /\ log'[i] = log[i]
  /\ \A e : HeadVer(e)' \in Nat /\ HeadVer(e) <= HeadVer(e)'
  /\ \A e : \A n \in 0..Len(log) : Upto(e, n)' = Upto(e, n)
  /\ LogOK'

LEMMA LoggedGrows ==
  ASSUME TypeOK, LogOK, NEW q \in [dev : Devices, row : Row, base : Nat],
         log' = Logged(q)
  PROVE  /\ Grows
         /\ \A n \in Acks(q) : n \in DOMAIN log' /\ log'[n].ent = q.row.ent
<1> DEFINE e == q.row.ent
           c == [seq |-> Len(log) + 1, ent |-> q.row.ent, op |-> q.row.op,
                 body |-> q.row.body, base |-> q.base, ver |-> q.base + 1,
                 by |-> q.dev, at |-> q.row.at]
<1>0. Len(log) \in Nat /\ DOMAIN log = 1..Len(log)
  BY RowsFinite
<1>n. PICK n \in Nat : n = Len(log) + 1
  BY <1>0
<1>1. CASE Same(q) # {} \/ q.base # HeadVer(e)
  <2>1. log' = log
    BY <1>1 DEF Logged
  <2>2. \A f : HeadVer(f)' = HeadVer(f) /\ \A m : Upto(f, m)' = Upto(f, m)
    BY <2>1 DEF HeadVer, RowsOf, Upto
  <2>3. LogOK'
    BY <2>1 DEF LogOK, RowsOf, Upto, VerAt
  <2>4. Grows
    <3>1. \A f : HeadVer(f) \in Nat
      BY RowsFinite
    <3> QED BY <1>0, <2>1, <2>2, <2>3, <3>1 DEF Grows, TypeOK
  <2>5. \A m \in Acks(q) : m \in DOMAIN log' /\ log'[m].ent = q.row.ent
    BY <1>1, <2>1 DEF Acks, Same, RowsOf
  <2> QED BY <2>4, <2>5
<1>2. CASE ~(Same(q) # {} \/ q.base # HeadVer(e))
  <2>1. log' = Append(log, c) /\ q.base = HeadVer(e)
    BY <1>2 DEF Logged
  <2>2. c \in Change
    BY <1>0 DEF Change, Row
  <2>3. /\ log' \in Seq(Change) /\ Len(log') = n /\ DOMAIN log' = 1..n
        /\ log'[n] = c /\ \A i \in DOMAIN log : i \in 1..n /\ log'[i] = log[i]
    <3> HIDE DEF c
    <3> QED BY <1>0, <1>n, <2>1, <2>2 DEF TypeOK
  <2>4. ASSUME NEW f
        PROVE  RowsOf(f)' = IF f = e THEN RowsOf(f) \cup {n} ELSE RowsOf(f)
    <3>1. RowsOf(f)' = {i \in 1..n : log'[i].ent = f}
      BY <2>3 DEF RowsOf
    <3>2. log'[n].ent = e
      BY <2>3
    <3>3. 1..n = DOMAIN log \cup {n}
      BY <1>0, <1>n
    <3> QED BY <2>3, <3>1, <3>2, <3>3 DEF RowsOf
  <2>5. ASSUME NEW f, NEW m \in 0..Len(log)
        PROVE  Upto(f, m)' = Upto(f, m)
    <3>1. ~(n <= m)
      BY <1>0, <1>n
    <3> QED BY <2>4, <3>1 DEF Upto
  <2>6. \A f : HeadVer(f)' \in Nat /\ HeadVer(f) <= HeadVer(f)'
    <3> SUFFICES ASSUME NEW f PROVE HeadVer(f)' \in Nat /\ HeadVer(f) <= HeadVer(f)'
      OBVIOUS
    <3>1. n \notin RowsOf(f) /\ IsFiniteSet(RowsOf(f)) /\ HeadVer(f) \in Nat
      BY <1>0, <1>n, RowsFinite
    <3>2. CASE f = e
      <4>1. HeadVer(f)' = HeadVer(f) + 1
        BY <2>4, <3>1, <3>2, FS_AddElement DEF HeadVer
      <4> QED BY <3>1, <4>1
    <3>3. CASE f # e
      BY <2>4, <3>1, <3>3 DEF HeadVer
    <3> QED BY <3>2, <3>3
  <2>7. LogOK'
    <3>1. ASSUME NEW i \in DOMAIN log
          PROVE  (log[i].seq = i /\ log[i].ver = VerAt(log[i].ent, i))'
      <4>1. i \in 0..Len(log)
        BY <1>0
      <4>2. Upto(log[i].ent, i)' = {j \in RowsOf(log[i].ent)' : j <= i}
        BY DEF Upto
      <4>3. log'[i] = log[i] /\ RowsOf(log[i].ent)' = {j \in DOMAIN log' : log'[j].ent = log[i].ent}
        BY <2>3 DEF RowsOf
      <4>4. \A f : Upto(f, i)' = {j \in DOMAIN log' : log'[j].ent = f /\ j <= i}
        BY DEF Upto, RowsOf
      <4>5. {j \in DOMAIN log' : log'[j].ent = log[i].ent /\ j <= i} = Upto(log[i].ent, i)
        BY <2>5, <4>1, <4>4
      <4>6. (VerAt(log[i].ent, i))' = VerAt(log[i].ent, i)
        BY <4>2, <4>3, <4>5 DEF VerAt
      <4> QED BY <2>3, <4>6 DEF LogOK
    <3>2. (log[n].seq = n /\ log[n].ver = VerAt(log[n].ent, n))'
      <4>1. log'[n] = c /\ c.ver = HeadVer(e) + 1 /\ c.seq = n /\ c.ent = e
        BY <1>n, <2>1, <2>3
      <4>2. n \notin RowsOf(e) /\ IsFiniteSet(RowsOf(e))
        BY <1>0, <1>n, RowsFinite
      <4>3. {j \in DOMAIN log' : log'[j].ent = e /\ j <= n} = RowsOf(e) \cup {n}
        <5>1. \A j \in RowsOf(e) \cup {n} : j <= n
          BY <1>0, <1>n, RowsFinite
        <5>2. RowsOf(e)' = {j \in DOMAIN log' : log'[j].ent = e}
          BY DEF RowsOf
        <5>3. RowsOf(e)' = RowsOf(e) \cup {n}
          BY <2>4
        <5> QED BY <5>1, <5>2, <5>3
      <4>4. Cardinality(RowsOf(e) \cup {n}) = HeadVer(e) + 1
        BY <4>2, FS_AddElement DEF HeadVer
      <4>5. (VerAt(log[n].ent, n))' = Cardinality({j \in DOMAIN log' : log'[j].ent = log'[n].ent /\ j <= n})
        BY DEF VerAt, Upto, RowsOf
      <4>6. log'[n].ent = e /\ log'[n].seq = n /\ log'[n].ver = HeadVer(e) + 1
        <5> HIDE DEF c
        <5> QED BY <4>1
      <4>7. {j \in DOMAIN log' : log'[j].ent = log'[n].ent /\ j <= n} = RowsOf(e) \cup {n}
        BY <4>3, <4>6
      <4>8. (VerAt(log[n].ent, n))' = HeadVer(e) + 1
        BY <4>4, <4>5, <4>7
      <4> QED BY <4>6, <4>8
    <3>3. DOMAIN log' = DOMAIN log \cup {n}
      BY <1>0, <1>n, <2>3
    <3> QED BY <3>1, <3>2, <3>3 DEF LogOK
  <2>8. Grows
    BY <1>0, <1>n, <2>3, <2>5, <2>6, <2>7 DEF Grows
  <2>9. Acks(q) = {n}
    BY <1>2, <1>n DEF Acks
  <2> QED BY <1>0, <1>n, <2>3, <2>8, <2>9
<1> QED BY <1>1, <1>2

LEMMA SameGrows == ASSUME TypeOK, LogOK, log' = log PROVE Grows
<1>1. \A f : HeadVer(f)' = HeadVer(f) /\ \A m : Upto(f, m)' = Upto(f, m)
  BY DEF HeadVer, RowsOf, Upto
<1>2. LogOK'
  BY DEF LogOK, RowsOf, Upto, VerAt
<1>3. Len(log) \in Nat /\ \A f : HeadVer(f) \in Nat
  BY RowsFinite
<1> QED BY <1>1, <1>2, <1>3 DEF Grows, TypeOK

\* What was known of the log stays true.
LEMMA InformedKept ==
  ASSUME TypeOK, Grows, NEW s \in Stores, Informed(s)
  PROVE  Informed(s)'
<1>1. s.cursor <= Len(log')
  BY RowsFinite DEF Grows, Informed, Stores
<1>2. \A e \in Ids : s.meta[e].ver <= HeadVer(e)'
  <2> SUFFICES ASSUME NEW e \in Ids PROVE s.meta[e].ver <= HeadVer(e)'
    OBVIOUS
  <2>1. s.meta[e].ver \in Nat
    BY DEF Stores, Meta
  <2>2. s.meta[e].ver <= HeadVer(e) /\ HeadVer(e) \in Nat
    BY RowsFinite DEF Informed
  <2> QED BY <2>1, <2>2 DEF Grows
<1>3. \A x \in s.conflicts : InLog(x.c)'
  BY DEF Grows, Informed, InLog
<1> QED BY <1>1, <1>2, <1>3 DEF Informed

LEMMA AwareKept ==
  ASSUME TypeOK, Grows, NEW u \in Runs, Aware(u)
  PROVE  Aware(u)'
BY DEF Aware, Grows, InLog

\* A step changes one device and lets the log grow.
LEMMA Step ==
  ASSUME IInv, Grows, NEW d \in Devices,
         NEW s \in Stores, NEW u \in Runs, Informed(s), Aware(u)',
         db' = [db EXCEPT ![d] = s], run' = [run EXCEPT ![d] = u],
         late' \subseteq [dev : Devices, row : Row, base : Nat], edits' \in 0..MaxEdits
  PROVE  IInv'
<1>0. TypeOK /\ \A c \in Devices : db[c] \in Stores /\ run[c] \in Runs
  BY DEF IInv, TypeOK
<1>1. TypeOK'
  BY <1>0 DEF TypeOK, Grows
<1>2. \A c \in Devices : db'[c] = (IF c = d THEN s ELSE db[c])
                        /\ run'[c] = (IF c = d THEN u ELSE run[c])
  BY <1>0 DEF TypeOK
<1>3. Informed(s)'
  BY <1>0, InformedKept
<1>4. ASSUME NEW c \in Devices PROVE Informed(db[c])' /\ Aware(run[c])'
  <2>1. CASE c = d
    <3>1. db'[c] = s /\ run'[c] = u
      BY <1>2, <2>1
    <3> QED BY <1>3, <3>1 DEF Informed, Aware, InLog, HeadVer, RowsOf
  <2>2. CASE c # d
    <3>1. PICK t \in Stores, v \in Runs : t = db[c] /\ v = run[c]
      BY <1>0
    <3>2. Informed(t) /\ Aware(v)
      BY <3>1 DEF IInv
    <3>3. Informed(t)' /\ Aware(v)'
      BY <1>0, <3>2, InformedKept, AwareKept
    <3>4. db'[c] = t /\ run'[c] = v
      BY <1>2, <2>2, <3>1
    <3> QED BY <3>3, <3>4 DEF Informed, Aware, InLog, HeadVer, RowsOf
  <2> QED BY <2>1, <2>2
<1> QED BY <1>1, <1>4 DEF IInv, Grows
-----------------------------------------------------------------------------
(* What the transactions of a device leave behind. *)

LEMMA UpsertType ==
  ASSUME NEW m \in Meta, NEW st \in Statuses, NEW v \in Nat,
         NEW h \in (Operations \X Bodies) \cup {None}
  PROVE  /\ Upsert(m, st, v, h) \in Meta
         /\ Upsert(m, st, v, h).ver \in {m.ver, v}
BY DEF Upsert, Meta

LEMMA EnqueueOK ==
  ASSUME TypeOK, NEW s \in Stores, Informed(s),
         NEW e \in Ids, NEW op \in Operations, NEW b \in Bodies
  PROVE  EnqueueChange(s, e, op, b) \in Stores /\ Informed(EnqueueChange(s, e, op, b))
<1> DEFINE r == [id |-> s.clock, at |-> s.clock, ent |-> e, op |-> op, body |-> b,
                 gid |-> NoGroup, lseq |-> 0, late |-> FALSE]
           m == Upsert(s.meta[e], StatusFor(op), 0, <<op, b>>)
           t == EnqueueChange(s, e, op, b)
<1>1. s.clock \in Nat /\ s.meta \in [Ids -> Meta] /\ s.outbox \subseteq Row
  BY DEF Stores
<1>2. r \in Row
  BY <1>1 DEF Row
<1>3. m \in Meta /\ m.ver \in {s.meta[e].ver, 0}
  <2>1. StatusFor(op) \in Statuses
    BY DEF StatusFor, Statuses, Operations
  <2>2. <<op, b>> \in (Operations \X Bodies) \cup {None}
    OBVIOUS
  <2> QED BY <1>1, <2>1, <2>2, UpsertType
<1>4. /\ t = [s EXCEPT !.clock = s.clock + 1, !.outbox = s.outbox \cup {r},
                       !.meta = [s.meta EXCEPT ![e] = m]]
  BY DEF EnqueueChange, Stores
<1> HIDE DEF r, m, t
<1>5. t \in Stores
  <2>1. s.clock + 1 \in Nat /\ s.outbox \cup {r} \in SUBSET Row
        /\ [s.meta EXCEPT ![e] = m] \in [Ids -> Meta]
    BY <1>1, <1>2, <1>3
  <2> QED BY <1>4, <2>1 DEF Stores
<1>6. Informed(t)
  <2>1. /\ t.clock = s.clock + 1 /\ t.outbox = s.outbox \cup {r}
        /\ t.meta = [s.meta EXCEPT ![e] = m] /\ t.cursor = s.cursor
        /\ t.conflicts = s.conflicts
    BY <1>4 DEF Stores
  <2>2. r.id = s.clock /\ r.at = s.clock
    BY DEF r
  <2>3. \A f \in Ids : t.meta[f].ver <= HeadVer(f)
    <3> SUFFICES ASSUME NEW f \in Ids PROVE t.meta[f].ver <= HeadVer(f)
      OBVIOUS
    <3>1. t.meta[f].ver \in {s.meta[f].ver, 0}
      BY <1>1, <1>3, <2>1
    <3>2. s.meta[f].ver <= HeadVer(f) /\ HeadVer(f) \in Nat
      BY RowsFinite DEF Informed
    <3> QED BY <3>1, <3>2
  <2>4. \A q \in s.outbox : q.id \in Nat /\ q.id < s.clock /\ q.at = q.id
    BY <1>1 DEF Row, Informed, OneId
  <2>5. OneId(t.outbox)
    BY <2>1, <2>2, <2>4, <1>1 DEF OneId, Informed
  <2>6. \A q \in t.outbox : q.id < t.clock
    BY <1>1, <2>1, <2>2, <2>4
  <2> QED BY <2>1, <2>3, <2>5, <2>6 DEF Informed
<1> QED BY <1>5, <1>6 DEF t

LEMMA RecordKept ==
  ASSUME NEW s \in Stores, Informed(s), NEW e \in Ids, NEW b \in Bodies \cup {None},
         NEW u \in SUBSET Ids
  PROVE  LET t == [s EXCEPT !.rec[e] = b, !.used = u] IN t \in Stores /\ Informed(t)
BY DEF Stores, Informed

LEMMA WriteCursorOK ==
  ASSUME NEW s \in Stores, Informed(s), NEW n \in Nat, n <= Len(log)
  PROVE  WriteCursor(s, n) \in Stores /\ Informed(WriteCursor(s, n))
BY DEF Stores, Informed, WriteCursor

LEMMA ParkOK ==
  ASSUME TypeOK, LogOK, NEW s \in Stores, Informed(s), NEW c, InLog(c)
  PROVE  Park(s, c) \in Stores /\ Informed(Park(s, c))
<1>1. c \in Change
  BY RowVersion
<1> DEFINE x == [c |-> c, st |-> "pending"]
           t == [s EXCEPT !.conflicts = s.conflicts \cup {x}]
<1>2. t \in Stores /\ t.conflicts = s.conflicts \cup {x} /\ t.cursor = s.cursor
      /\ t.meta = s.meta /\ t.outbox = s.outbox /\ t.clock = s.clock
  BY <1>1 DEF Stores
<1>3. Informed(t)
  BY <1>2 DEF Informed
<1>4. Park(s, c) \in {s, t}
  BY DEF Park
<1> QED BY <1>2, <1>3, <1>4

LEMMA ApplyRemoteOK ==
  ASSUME TypeOK, LogOK, NEW s \in Stores, Informed(s), NEW c, InLog(c)
  PROVE  ApplyRemote(s, c) \in Stores /\ Informed(ApplyRemote(s, c))
<1>1. c \in Change /\ c.ver <= HeadVer(c.ent)
  BY RowVersion
<1> DEFINE b == IF c.op = "delete" THEN None ELSE c.body
           u == IF c.op = "delete" THEN s.used ELSE s.used \cup {c.ent}
           m == [st |-> "synced", ver |-> c.ver, hash |-> Hash(c), del |-> c.op = "delete"]
           t == ApplyRemote(s, c)
<1>2. c.ent \in Ids /\ c.ver \in Nat /\ Hash(c) \in Operations \X Bodies
  BY <1>1 DEF Change, Hash
<1>3. b \in Bodies \cup {None} /\ u \subseteq Ids
  BY <1>1, <1>2 DEF Change, Stores
<1>4. m \in Meta /\ m.ver = c.ver
  <2>1. (c.op = "delete") \in BOOLEAN
    OBVIOUS
  <2> QED BY <1>2, <2>1 DEF Meta, Statuses
<1>5. t = [s EXCEPT !.rec = [s.rec EXCEPT ![c.ent] = b], !.used = u,
                    !.meta = [s.meta EXCEPT ![c.ent] = m]]
  BY DEF ApplyRemote, Stores
<1> HIDE DEF b, u, m, t
<1>6. t \in Stores
  BY <1>2, <1>3, <1>4, <1>5 DEF Stores
<1>7. /\ t.meta = [s.meta EXCEPT ![c.ent] = m] /\ t.cursor = s.cursor
      /\ t.conflicts = s.conflicts /\ t.outbox = s.outbox /\ t.clock = s.clock
  BY <1>5 DEF Stores
<1>8. \A f \in Ids : t.meta[f].ver <= HeadVer(f)
  BY <1>1, <1>2, <1>4, <1>7 DEF Informed, Stores
<1> QED BY <1>6, <1>7, <1>8 DEF t, Informed

LEMMA MergeOK ==
  ASSUME TypeOK, LogOK, NEW s \in Stores, Informed(s), NEW m, NEW c, InLog(c)
  PROVE  MergeChange(s, m, c) \in Stores /\ Informed(MergeChange(s, m, c))
<1>1. c.seq \in Nat /\ c.seq <= Len(log)
  BY RowVersion DEF Change
<1>2. PICK t : t \in Stores /\ Informed(t) /\ MergeChange(s, m, c) = WriteCursor(t, c.seq)
  <2>1. CASE Agrees(m, c) /\ AlreadyApplied(m, c)
    BY <2>1 DEF MergeChange
  <2>2. CASE Agrees(m, c) /\ ~AlreadyApplied(m, c)
    <3>1. MergeChange(s, m, c) = WriteCursor(ApplyRemote(s, c), c.seq)
      BY <2>2 DEF MergeChange
    <3> QED BY <3>1, ApplyRemoteOK
  <2>3. CASE ~Agrees(m, c)
    <3>1. MergeChange(s, m, c) = WriteCursor(Park(s, c), c.seq)
      BY <2>3 DEF MergeChange
    <3> QED BY <3>1, ParkOK
  <2> QED BY <2>1, <2>2, <2>3
<1> QED BY <1>1, <1>2, WriteCursorOK

LEMMA DeleteRowOK ==
  ASSUME NEW s \in Stores, Informed(s), NEW r
  PROVE  DeleteRow(s, r) \in Stores /\ Informed(DeleteRow(s, r))
<1> DEFINE o == {x \in s.outbox : x.id # r.id}
           t == DeleteRow(s, r)
<1>1. t = [s EXCEPT !.outbox = o] /\ o \subseteq s.outbox
  BY DEF DeleteRow, Stores
<1> HIDE DEF o, t
<1>2. t \in Stores /\ t.outbox = o /\ t.cursor = s.cursor /\ t.meta = s.meta
      /\ t.conflicts = s.conflicts /\ t.clock = s.clock
  BY <1>1 DEF Stores
<1>3. Informed(t)
  BY <1>1, <1>2 DEF Informed, OneId
<1> QED BY <1>2, <1>3 DEF t

LEMMA MarkFailedOK ==
  ASSUME NEW s \in Stores, Informed(s), NEW r
  PROVE  MarkFailed(s, r) \in Stores /\ Informed(MarkFailed(s, r))
<1> DEFINE o == {IF x.id = r.id THEN [x EXCEPT !.late = TRUE] ELSE x : x \in s.outbox}
           t == MarkFailed(s, r)
<1>1. t = [s EXCEPT !.outbox = o]
  BY DEF MarkFailed, Stores
<1>2. ASSUME NEW y \in o
      PROVE  \E x \in s.outbox : /\ y = (IF x.id = r.id THEN [x EXCEPT !.late = TRUE] ELSE x)
                                 /\ y \in Row /\ y.id = x.id /\ y.at = x.at
  <2>1. PICK x \in s.outbox : y = (IF x.id = r.id THEN [x EXCEPT !.late = TRUE] ELSE x)
    OBVIOUS
  <2>2. x \in Row
    BY DEF Stores
  <2>3. y \in Row /\ y.id = x.id /\ y.at = x.at
    BY <2>1, <2>2 DEF Row
  <2> QED BY <2>1, <2>3
<1> HIDE DEF o, t
<1>3. t \in Stores /\ t.outbox = o /\ t.cursor = s.cursor /\ t.meta = s.meta
      /\ t.conflicts = s.conflicts /\ t.clock = s.clock
  <2>1. o \subseteq Row
    BY <1>2
  <2> QED BY <1>1, <2>1 DEF Stores
<1>4. OneId(o) /\ \A y \in o : y.id < s.clock
  <2>1. \A y \in o : y.at = y.id /\ y.id < s.clock
    BY <1>2 DEF Informed, OneId
  <2>2. ASSUME NEW y \in o, NEW z \in o, y.id = z.id PROVE y = z
    <3>1. PICK x \in s.outbox : /\ y = (IF x.id = r.id THEN [x EXCEPT !.late = TRUE] ELSE x)
                               /\ y.id = x.id
      BY <1>2
    <3>2. PICK w \in s.outbox : /\ z = (IF w.id = r.id THEN [w EXCEPT !.late = TRUE] ELSE w)
                               /\ z.id = w.id
      BY <1>2
    <3>3. x = w
      BY <2>2, <3>1, <3>2 DEF Informed, OneId
    <3> QED BY <3>1, <3>2, <3>3
  <2> QED BY <2>1, <2>2 DEF OneId
<1>5. Informed(t)
  BY <1>3, <1>4 DEF Informed
<1> QED BY <1>3, <1>5 DEF t

LEMMA AcknowledgeOK ==
  ASSUME TypeOK, LogOK, NEW s \in Stores, Informed(s), NEW r \in Row,
         NEW c, InLog(c), c.ent = r.ent
  PROVE  LET t == MarkPushAcknowledged(s, r, c.ver) IN t \in Stores /\ Informed(t)
<1>1. c.ver \in Nat /\ c.ver <= HeadVer(r.ent) /\ r.ent \in Ids
  BY RowVersion DEF Change, Row
<1> DEFINE m == [s.meta[r.ent] EXCEPT !.st = "synced", !.ver = c.ver]
           t == [s EXCEPT !.meta = [s.meta EXCEPT ![r.ent] = m]]
<1>2. m \in Meta /\ m.ver = c.ver
  <2>1. s.meta[r.ent] \in Meta
    BY <1>1 DEF Stores
  <2> QED BY <1>1, <2>1 DEF Meta, Statuses
<1> HIDE DEF m
<1>3. t \in Stores /\ t.meta = [s.meta EXCEPT ![r.ent] = m] /\ t.cursor = s.cursor
      /\ t.outbox = s.outbox /\ t.conflicts = s.conflicts /\ t.clock = s.clock
  BY <1>1, <1>2 DEF Stores
<1>4. \A f \in Ids : t.meta[f].ver <= HeadVer(f)
  BY <1>1, <1>2, <1>3 DEF Informed, Stores
<1>5. Informed(t)
  BY <1>3, <1>4 DEF Informed
<1>6. MarkPushAcknowledged(s, r, c.ver) \in {s, t}
  BY DEF MarkPushAcknowledged, Stores, m
<1> QED BY <1>3, <1>5, <1>6

LEMMA ResolveOK ==
  ASSUME NEW s \in Stores, Informed(s), NEW x \in s.conflicts
  PROVE  Resolve(s, x) \in Stores /\ Informed(Resolve(s, x))
<1> DEFINE y == [x EXCEPT !.st = "resolved"]
           o == (s.conflicts \ {x}) \cup {y}
           t == Resolve(s, x)
<1>1. x \in [c : Change, st : {"pending", "resolved"}]
  BY DEF Stores
<1>2. y \in [c : Change, st : {"pending", "resolved"}] /\ y.c = x.c
  BY <1>1
<1>3. t = [s EXCEPT !.conflicts = o]
  BY DEF Resolve, Stores
<1> HIDE DEF t, y
<1>4. t \in Stores /\ t.conflicts = o /\ t.cursor = s.cursor /\ t.meta = s.meta
      /\ t.outbox = s.outbox /\ t.clock = s.clock
  BY <1>2, <1>3 DEF Stores
<1>5. \A z \in o : InLog(z.c)
  BY <1>2 DEF Informed, InLog
<1>6. Informed(t)
  BY <1>4, <1>5 DEF Informed
<1> QED BY <1>4, <1>6 DEF t
-----------------------------------------------------------------------------
(* What a run reads. *)

LEMMA MinOfTwo == ASSUME NEW a \in Int, NEW b \in Int PROVE Min({a, b}) = IF a <= b THEN a ELSE b
<1> DEFINE m == IF a <= b THEN a ELSE b
<1>1. m \in {a, b} /\ \A y \in {a, b} : m <= y
  OBVIOUS
<1>2. \A x \in {a, b} : (\A y \in {a, b} : x <= y) => x = m
  OBVIOUS
<1> QED BY <1>1, <1>2 DEF Min

LEMMA PageOK ==
  ASSUME TypeOK, LogOK, NEW n \in Nat, n <= Len(log)
  PROVE  Page(n) \in Seq(Change) /\ \A k \in DOMAIN Page(n) : InLog(Page(n)[k])
<1> DEFINE m == Min({Len(log), n + PageLimit})
<1>1. Len(log) \in Nat /\ log \in Seq(Change) /\ DOMAIN log = 1..Len(log)
  BY RowsFinite DEF TypeOK
<1>2. PageLimit \in Nat
  BY CloudSyncAssumption
<1>3. m \in Nat /\ m <= Len(log) /\ n <= m
  <2>1. m = IF Len(log) <= n + PageLimit THEN Len(log) ELSE n + PageLimit
    BY <1>1, <1>2, MinOfTwo
  <2> QED BY <1>1, <1>2, <2>1
<1>4. Page(n) = SubSeq(log, n + 1, m)
  BY DEF Page
<1> HIDE DEF m
<1>5. SubSeq(log, n + 1, m) \in Seq(Change) /\ Len(SubSeq(log, n + 1, m)) = m - n
  BY <1>1, <1>3
<1>6. \A k \in 1..(m - n) : SubSeq(log, n + 1, m)[k] = log[n + k] /\ n + k \in DOMAIN log
  BY <1>1, <1>3
<1>7. DOMAIN SubSeq(log, n + 1, m) = 1..(m - n)
  BY <1>3, <1>5
<1> QED BY <1>4, <1>5, <1>6, <1>7 DEF InLog

LEMMA IdleOK ==
  /\ Idle \in Runs /\ Aware(Idle)
  /\ \A p \in Places : [Idle EXCEPT !.at = p] \in Runs
<1>1. Idle \in Runs
  BY NoMetaType DEF Idle, Runs, Places
<1>2. Aware(Idle)
  BY DEF Aware, Idle, OneId
<1> QED BY <1>1, <1>2 DEF Runs

LEMMA PushingOK ==
  ASSUME NEW F, F \subseteq Row, NEW S, S \subseteq Row, OneId(S)
  PROVE  Pushing(F, S) \in Runs /\ Aware(Pushing(F, S))
<1> DEFINE p == IF F # {} THEN "fold" ELSE IF S # {} THEN "send" ELSE "idle"
           u == [Idle EXCEPT !.at = p, !.fold = F, !.todo = S]
<1>0. u = Pushing(F, S) /\ p \in Places /\ (p = "send" => S # {})
      /\ p \in {"fold", "send", "idle"}
  BY DEF Pushing, Places
<1> HIDE DEF p
<1>1. u.at = p /\ u.fold = F /\ u.todo = S /\ u.page = <<>>
  BY DEF Idle
<1>2. u \in Runs
  BY <1>0, IdleOK DEF Runs
<1>3. Aware(u)
  BY <1>0, <1>1 DEF Aware
<1> QED BY <1>0, <1>2, <1>3

LEMMA Initially == Init => IInv
<1> SUFFICES ASSUME Init PROVE IInv
  OBVIOUS
<1>1. log = <<>> /\ db = First /\ run = [d \in Devices |-> Idle] /\ late = {} /\ edits = 0
  BY DEF Init
<1>2. ASSUME NEW d \in Devices PROVE First[d] \in Stores /\ Informed(First[d])
  <2>1. PICK r \in [Ids -> Bodies \cup {None}], u \in SUBSET Ids :
               First[d] = [NewStore EXCEPT !.rec = r, !.used = u]
    <3>1. Unsynced(First[d])
      BY CloudSyncAssumption
    <3> QED BY <3>1, Zenon DEF Unsynced
  <2> DEFINE s == First[d]
  <2>2. s \in Stores
    <3>1. s = [rec |-> r, used |-> u, meta |-> [i \in Ids |-> NoMeta], outbox |-> {},
               clock |-> 0, cursor |-> 0, gated |-> FALSE, conflicts |-> {}]
      BY <2>1 DEF NewStore
    <3>2. [i \in Ids |-> NoMeta] \in [Ids -> Meta]
      BY NoMetaType
    <3> QED BY <3>1, <3>2 DEF Stores
  <2>3. s.cursor = 0 /\ s.conflicts = {} /\ s.outbox = {} /\ \A e \in Ids : s.meta[e].ver = 0
    BY <2>1 DEF NewStore, NoMeta
  <2>4. Len(log) = 0 /\ \A e : RowsOf(e) = {}
    BY <1>1 DEF RowsOf
  <2>5. \A e : HeadVer(e) = 0
    BY <2>4, FS_EmptySet DEF HeadVer
  <2> HIDE DEF s
  <2>6. Informed(s)
    BY <2>3, <2>4, <2>5 DEF Informed, OneId
  <2> QED BY <2>2, <2>6 DEF s
<1>3. TypeOK
  <2>1. db \in [Devices -> Stores]
    BY <1>1, <1>2, CloudSyncAssumption
  <2>2. run \in [Devices -> Runs]
    BY <1>1, IdleOK
  <2> QED BY <1>1, <2>1, <2>2, CloudSyncAssumption DEF TypeOK
<1>4. LogOK
  BY <1>1 DEF LogOK
<1> QED BY <1>1, <1>2, <1>3, <1>4, IdleOK DEF IInv
-----------------------------------------------------------------------------
(* The steps *)

Sent == {"send", "wait", "fail", "delete", "meta", "cursor", "write"}

\* A step in which the backend takes no part.
LEMMA LocalStep ==
  ASSUME IInv, NEW d \in Devices,
         NEW s \in Stores, Informed(s), NEW u \in Runs, Aware(u), log' = log,
         db' = [db EXCEPT ![d] = s], run' = [run EXCEPT ![d] = u],
         late' \subseteq [dev : Devices, row : Row, base : Nat], edits' \in 0..MaxEdits
  PROVE  IInv'
<1>1. Grows
  BY SameGrows DEF IInv
<1>2. Aware(u)'
  BY <1>1, AwareKept DEF IInv
<1> QED BY <1>1, <1>2, Step

LEMMA Typed ==
  ASSUME IInv, NEW d \in Devices
  PROVE  /\ db[d] \in Stores /\ Informed(db[d]) /\ run[d] \in Runs /\ Aware(run[d])
         /\ db = [db EXCEPT ![d] = db[d]] /\ run = [run EXCEPT ![d] = run[d]]
         /\ late \subseteq [dev : Devices, row : Row, base : Nat] /\ edits \in 0..MaxEdits
         /\ TypeOK /\ LogOK
BY DEF IInv, TypeOK

\* A run that goes from one place to another.
LEMMA GotoOK ==
  ASSUME NEW u \in Runs, Aware(u), NEW p \in Places,
         p = "merge" => u.page # <<>>,
         p \in Sent => u.todo # {},
         p \in {"delete", "meta", "cursor", "write"} =>
           u.ack \in DOMAIN log /\ log[u.ack].ent = FirstIn(u.todo).ent
  PROVE  [u EXCEPT !.at = p] \in Runs /\ Aware([u EXCEPT !.at = p])
<1> DEFINE v == [u EXCEPT !.at = p]
<1>1. v \in Runs /\ v.at = p /\ v.page = u.page /\ v.todo = u.todo /\ v.ack = u.ack
  BY DEF Runs
<1> HIDE DEF v
<1>2. Aware(v)
  BY <1>1 DEF Aware, Sent
<1> QED BY <1>1, <1>2 DEF v

LEMMA GotoStep ==
  ASSUME IInv, NEW d \in Devices, NEW p \in Places, NEW s \in Stores, Informed(s),
         p = "merge" => run[d].page # <<>>,
         p \in Sent => run[d].todo # {},
         p \in {"delete", "meta", "cursor", "write"} =>
           run[d].ack \in DOMAIN log /\ log[run[d].ack].ent = FirstIn(run[d].todo).ent,
         log' = log, db' = [db EXCEPT ![d] = s], Goto(d, p),
         late' \subseteq [dev : Devices, row : Row, base : Nat], edits' \in 0..MaxEdits
  PROVE  IInv'
<1>1. [run[d] EXCEPT !.at = p] \in Runs /\ Aware([run[d] EXCEPT !.at = p])
  BY Typed, GotoOK
<1>2. run' = [run EXCEPT ![d] = [run[d] EXCEPT !.at = p]]
  BY DEF Goto
<1> QED BY <1>1, <1>2, LocalStep

LEMMA FetchPageStep == ASSUME IInv, NEW d \in Devices, FetchPage(d) PROVE IInv'
<1> DEFINE g == Page(db[d].cursor)
           u == [Idle EXCEPT !.at = "pull", !.page = g]
<1>1. g \in Seq(Change) /\ \A k \in DOMAIN g : InLog(g[k])
  BY Typed, PageOK DEF Informed, Stores
<1> HIDE DEF g
<1>2. u \in Runs
  <2>1. "pull" \in Places
    BY DEF Places
  <2> QED BY <1>1, <2>1, IdleOK DEF Runs
<1>3. u.at = "pull" /\ u.page = g /\ u.todo = {}
  BY DEF Idle
<1>4. Aware(u)
  BY <1>1, <1>3 DEF Aware, OneId
<1>5. run' = [run EXCEPT ![d] = u]
  BY DEF FetchPage, g
<1> QED BY <1>2, <1>4, <1>5, Typed, LocalStep DEF FetchPage

LEMMA FetchFailsStep == ASSUME IInv, NEW d \in Devices, FetchFails(d) PROVE IInv'
BY Typed, GotoStep DEF FetchFails, Places, Sent

LEMMA ReadMetaStep == ASSUME IInv, NEW d \in Devices, ReadMeta(d) PROVE IInv'
<1> DEFINE m == db[d].meta[Head(run[d].page).ent]
           u == [run[d] EXCEPT !.at = "merge", !.seen = m]
<1>1. run[d].page \in Seq(Change) /\ run[d].page # <<>>
  BY Typed DEF ReadMeta, Runs
<1>2. Head(run[d].page) \in Change
  BY <1>1
<1>3. m \in Meta
  BY <1>2, Typed DEF Change, Stores
<1>4. run' = [run EXCEPT ![d] = u]
  BY Typed DEF ReadMeta
<1> HIDE DEF m
<1>5. u \in Runs /\ u.at = "merge" /\ u.page = run[d].page /\ u.todo = run[d].todo
  BY <1>3, Typed DEF Runs, Places
<1> HIDE DEF u
<1>6. Aware(u)
  BY <1>1, <1>5, Typed DEF Aware
<1> QED BY <1>4, <1>5, <1>6, Typed, LocalStep DEF ReadMeta

LEMMA MergeStep == ASSUME IInv, NEW d \in Devices, Merge(d) PROVE IInv'
<1> DEFINE g == run[d].page
           s == MergeChange(db[d], run[d].seen, Head(g))
           u == [run[d] EXCEPT !.at = "pull", !.page = Tail(g), !.seen = NoMeta]
<1>1. g \in Seq(Change) /\ g # <<>> /\ \A k \in DOMAIN g : InLog(g[k])
  BY Typed DEF Merge, Runs, Aware, At
<1>2. 1 \in DOMAIN g /\ Head(g) = g[1]
  BY <1>1
<1>3. s \in Stores /\ Informed(s)
  BY <1>1, <1>2, Typed, MergeOK
<1>4. db' = [db EXCEPT ![d] = s] /\ run' = [run EXCEPT ![d] = u]
  BY Typed DEF Merge, Store
<1>5. Tail(g) \in Seq(Change) /\ \A k \in DOMAIN Tail(g) : k + 1 \in DOMAIN g /\ Tail(g)[k] = g[k + 1]
  BY <1>1
<1> HIDE DEF g, s
<1>6. u \in Runs /\ u.at = "pull" /\ u.page = Tail(g) /\ u.todo = run[d].todo
  BY <1>5, Typed, NoMetaType DEF Runs, Places
<1> HIDE DEF u
<1>7. Aware(u)
  BY <1>1, <1>5, <1>6, Typed DEF Aware
<1> QED BY <1>3, <1>4, <1>6, <1>7, Typed, LocalStep DEF Merge

LEMMA PullDoneStep == ASSUME IInv, NEW d \in Devices, PullDone(d) PROVE IInv'
<1>1. PICK p \in {"idle", "list"} : Goto(d, p)
  BY DEF PullDone
<1>2. p \in Places /\ p \notin Sent /\ p # "merge"
  BY DEF Places, Sent
<1> QED BY <1>1, <1>2, Typed, GotoStep DEF PullDone, Sent

LEMMA ListStep == ASSUME IInv, NEW d \in Devices, ListPending(d) PROVE IInv'
<1>1. PICK waiting : List(d, waiting)
  BY DEF ListPending
<1> DEFINE due == db[d].outbox \ waiting
           listed == {q \in due : Cardinality({p \in due : Before(p, q)}) < PushLimit}
           F == Folded(listed)
           S == listed \ F
<1>2. listed \subseteq Row /\ OneId(listed)
  BY Typed DEF Stores, Informed, OneId
<1>3. F \subseteq listed
  BY DEF Folded
<1>4. run' = [run EXCEPT ![d] = Pushing(F, S)]
  BY <1>1 DEF List
<1> HIDE DEF listed, F
<1>5. OneId(S) /\ S \subseteq Row /\ F \subseteq Row
  BY <1>2, <1>3 DEF OneId
<1> HIDE DEF S
<1>6. Pushing(F, S) \in Runs /\ Aware(Pushing(F, S))
  BY <1>5, PushingOK
<1> QED BY <1>1, <1>4, <1>6, Typed, LocalStep DEF List

LEMMA DropFoldedStep == ASSUME IInv, NEW d \in Devices, DropFolded(d) PROVE IInv'
<1>1. PICK r \in run[d].fold :
             /\ Store(d, DeleteRow(db[d], r))
             /\ run' = [run EXCEPT ![d] = Pushing(@.fold \ {r}, @.todo)]
  BY DEF DropFolded
<1> DEFINE u == Pushing(run[d].fold \ {r}, run[d].todo)
<1>2. run' = [run EXCEPT ![d] = u]
  BY <1>1, Typed
<1>3. u \in Runs /\ Aware(u)
  <2>1. run[d].fold \ {r} \subseteq Row /\ run[d].todo \subseteq Row /\ OneId(run[d].todo)
    BY Typed DEF Runs, Aware
  <2> QED BY <2>1, PushingOK
<1>4. DeleteRow(db[d], r) \in Stores /\ Informed(DeleteRow(db[d], r))
  BY Typed, DeleteRowOK
<1> QED BY <1>1, <1>2, <1>3, <1>4, Typed, LocalStep DEF DropFolded, Store

\* The row in hand, which is there as long as there is something to send.
LEMMA InHand ==
  ASSUME IInv, NEW d \in Devices, run[d].at \in Sent
  PROVE  /\ run[d].todo # {} /\ Current(d) = FirstIn(run[d].todo)
         /\ Current(d) \in run[d].todo /\ Current(d) \in Row
         /\ Request(d).row = Current(d)
         /\ Request(d) \in [dev : Devices, row : Row, base : Nat]
<1>1. run[d].todo # {} /\ OneId(run[d].todo) /\ run[d].todo \subseteq Row /\ run[d].base \in Nat
  BY Typed DEF Aware, Runs, Sent
<1>2. Current(d) = FirstIn(run[d].todo)
  BY DEF Current, FirstIn
<1>3. Current(d) \in run[d].todo /\ Current(d) \in Row
  BY <1>1, <1>2, FirstRow
<1> QED BY <1>1, <1>2, <1>3 DEF Request

LEMMA SendStep == ASSUME IInv, NEW d \in Devices, Send(d) PROVE IInv'
<1> DEFINE v == db[d].meta[Current(d).ent].ver
           u == [run[d] EXCEPT !.at = "wait", !.base = v]
<1>1. run[d].at \in Sent
  BY DEF Send, At, Sent
<1>2. v \in Nat
  <2>1. Current(d).ent \in Ids
    BY <1>1, InHand DEF Row
  <2> QED BY <2>1, Typed DEF Stores, Meta
<1>3. run' = [run EXCEPT ![d] = u]
  BY Typed DEF Send
<1> HIDE DEF v
<1>4. u \in Runs /\ u.at = "wait" /\ u.page = run[d].page /\ u.todo = run[d].todo
  BY <1>2, Typed DEF Runs, Places
<1> HIDE DEF u
<1>5. Aware(u)
  BY <1>1, <1>4, Typed, InHand DEF Aware
<1> QED BY <1>3, <1>4, <1>5, Typed, LocalStep DEF Send

LEMMA AnsweredStep == ASSUME IInv, NEW d \in Devices, Answered(d) PROVE IInv'
<1>1. run[d].at \in Sent
  BY DEF Answered, At, Sent
<1>2. PICK q \in [dev : Devices, row : Row, base : Nat] :
             q = Request(d) /\ q.row = FirstIn(run[d].todo)
  BY <1>1, InHand
<1>3. log' = Logged(q)
  BY <1>2 DEF Answered
<1>4. Grows /\ \A n \in Acks(q) : n \in DOMAIN log' /\ log'[n].ent = q.row.ent
  BY <1>3, Typed, LoggedGrows
<1>5. PICK s \in Stores, w \in Runs : s = db[d] /\ w = run[d]
  BY Typed
<1>6. Informed(s) /\ Aware(w) /\ w.todo # {} /\ db' = [db EXCEPT ![d] = s]
  BY <1>1, <1>5, Typed, InHand DEF Answered
<1>7. Aware(w)'
  BY <1>4, <1>6, Typed, AwareKept
<1>8. CASE \E seq \in Acks(Request(d)) :
             run' = [run EXCEPT ![d].at = "delete", ![d].ack = seq]
  <2>1. PICK n \in Acks(q) : run' = [run EXCEPT ![d].at = "delete", ![d].ack = n]
    BY <1>2, <1>8
  <2> DEFINE u == [w EXCEPT !.at = "delete", !.ack = n]
  <2>2. n \in DOMAIN log' /\ log'[n].ent = FirstIn(w.todo).ent /\ n \in Nat
    <3>1. log' \in Seq(Change)
      BY <1>4 DEF Grows
    <3>2. n \in DOMAIN log' /\ log'[n].ent = FirstIn(w.todo).ent
      BY <1>2, <1>4, <1>5
    <3> QED BY <3>1, <3>2
  <2>3. run' = [run EXCEPT ![d] = u]
    BY <1>5, <2>1, Typed
  <2>4. u \in Runs /\ u.at = "delete" /\ u.page = w.page /\ u.todo = w.todo /\ u.ack = n
    BY <2>2 DEF Runs, Places
  <2> HIDE DEF u
  <2>5. PICK v \in Runs : v = u
    BY <2>4
  <2>6. Aware(v)'
    BY <1>6, <1>7, <2>2, <2>4, <2>5 DEF Aware, InLog
  <2> QED BY <1>4, <1>6, <2>3, <2>5, <2>6, Typed, Step DEF Answered
<1>9. CASE Acks(Request(d)) = {} /\ Goto(d, "fail")
  <2> DEFINE u == [w EXCEPT !.at = "fail"]
  <2>1. run' = [run EXCEPT ![d] = u]
    BY <1>5, <1>9 DEF Goto
  <2>2. u \in Runs /\ u.at = "fail" /\ u.page = w.page /\ u.todo = w.todo
    BY DEF Runs, Places
  <2> HIDE DEF u
  <2>3. PICK v \in Runs : v = u
    BY <2>2
  <2>4. Aware(v)'
    BY <1>6, <1>7, <2>2, <2>3 DEF Aware, InLog
  <2> QED BY <1>4, <1>6, <2>1, <2>3, <2>4, Typed, Step DEF Answered
<1> QED BY <1>8, <1>9 DEF Answered

LEMMA NoAnswerStep == ASSUME IInv, NEW d \in Devices, NoAnswer(d) PROVE IInv'
<1>1. run[d].at \in Sent
  BY DEF NoAnswer, At, Sent
<1>2. late' \subseteq [dev : Devices, row : Row, base : Nat]
  BY <1>1, Typed, InHand DEF NoAnswer, GiveUp
<1>3. "fail" \in Places /\ "fail" # "merge" /\ "fail" \notin {"delete", "meta", "cursor", "write"}
  BY DEF Places
<1> QED BY <1>1, <1>2, <1>3, Typed, InHand, GotoStep DEF NoAnswer

LEMMA NextRowStep ==
  ASSUME IInv, NEW d \in Devices, run[d].at \in Sent,
         NEW s \in Stores, Informed(s), NextRow(d, s), UNCHANGED <<log, late, edits>>
  PROVE  IInv'
<1> DEFINE S == run[d].todo \ {Current(d)}
<1>1. S \subseteq Row /\ OneId(S)
  BY Typed DEF Aware, Runs, OneId
<1>2. Pushing({}, S) \in Runs /\ Aware(Pushing({}, S))
  BY <1>1, PushingOK
<1>3. run' = [run EXCEPT ![d] = Pushing({}, S)] /\ db' = [db EXCEPT ![d] = s]
  BY Typed DEF NextRow, Store
<1> QED BY <1>2, <1>3, Typed, LocalStep

LEMMA RecordFailureStep == ASSUME IInv, NEW d \in Devices, RecordFailure(d) PROVE IInv'
<1>1. run[d].at \in Sent
  BY DEF RecordFailure, At, Sent
<1>2. MarkFailed(db[d], Current(d)) \in Stores /\ Informed(MarkFailed(db[d], Current(d)))
  BY Typed, MarkFailedOK
<1> QED BY <1>1, <1>2, NextRowStep DEF RecordFailure

\* The change an acknowledged row has become.
LEMMA Acknowledged ==
  ASSUME IInv, NEW d \in Devices, run[d].at \in {"delete", "meta", "cursor", "write"}
  PROVE  /\ run[d].at \in Sent /\ run[d].ack \in DOMAIN log
         /\ log[run[d].ack].ent = Current(d).ent
         /\ log[run[d].ack].ent = FirstIn(run[d].todo).ent
BY Typed, InHand DEF Aware, Sent

LEMMA AckDeleteStep == ASSUME IInv, NEW d \in Devices, AckDelete(d) PROVE IInv'
<1>1. run[d].at \in {"delete", "meta", "cursor", "write"}
  BY DEF AckDelete, At
<1>2. DeleteRow(db[d], Current(d)) \in Stores /\ Informed(DeleteRow(db[d], Current(d)))
  BY Typed, DeleteRowOK
<1>3. "meta" \in Places
  BY DEF Places
<1> QED BY <1>1, <1>2, <1>3, Typed, Acknowledged, InHand, GotoStep DEF AckDelete, Store

LEMMA AckMetaStep == ASSUME IInv, NEW d \in Devices, AckMeta(d) PROVE IInv'
<1>1. run[d].at \in {"delete", "meta", "cursor", "write"}
  BY DEF AckMeta, At
<1> DEFINE s == MarkPushAcknowledged(db[d], Current(d), log[run[d].ack].ver)
<1>2. s \in Stores /\ Informed(s)
  <2>1. InLog(log[run[d].ack]) /\ log[run[d].ack].ent = Current(d).ent
    BY <1>1, Acknowledged DEF InLog
  <2>2. Current(d) \in Row
    BY <1>1, Acknowledged, InHand
  <2> QED BY <2>1, <2>2, Typed, AcknowledgeOK
<1>3. "cursor" \in Places
  BY DEF Places
<1> HIDE DEF s
<1>4. db' = [db EXCEPT ![d] = s]
  BY DEF AckMeta, Store, s
<1> QED BY <1>1, <1>2, <1>3, <1>4, Typed, Acknowledged, InHand, GotoStep DEF AckMeta

LEMMA AckReadCursorStep == ASSUME IInv, NEW d \in Devices, AckReadCursor(d) PROVE IInv'
<1>1. run[d].at \in {"delete", "meta", "cursor", "write"}
  BY DEF AckReadCursor, At
<1>2. CASE run[d].ack > db[d].cursor
  <2>1. "write" \in Places
    BY DEF Places
  <2> QED BY <1>1, <1>2, <2>1, Typed, Acknowledged, InHand, GotoStep DEF AckReadCursor
<1>3. CASE ~(run[d].ack > db[d].cursor)
  BY <1>1, <1>3, Typed, Acknowledged, NextRowStep DEF AckReadCursor
<1> QED BY <1>2, <1>3

LEMMA AckWriteCursorStep == ASSUME IInv, NEW d \in Devices, AckWriteCursor(d) PROVE IInv'
<1>1. run[d].at \in {"delete", "meta", "cursor", "write"}
  BY DEF AckWriteCursor, At
<1>2. run[d].ack \in Nat /\ run[d].ack <= Len(log)
  BY <1>1, Acknowledged, RowsFinite, Typed
<1>3. WriteCursor(db[d], run[d].ack) \in Stores /\ Informed(WriteCursor(db[d], run[d].ack))
  BY <1>2, Typed, WriteCursorOK
<1> QED BY <1>1, <1>3, Acknowledged, NextRowStep DEF AckWriteCursor

LEMMA KillStep == ASSUME IInv, NEW d \in Devices, Kill(d) PROVE IInv'
<1> DEFINE u == [Idle EXCEPT !.at = "dead"]
<1>1. u \in Runs /\ Aware(u)
  <2>1. "dead" \in Places
    BY DEF Places
  <2>2. u.at = "dead" /\ u.todo = {} /\ u.page = <<>>
    BY DEF Idle
  <2>3. Aware(u)
    BY <2>2 DEF Aware, OneId
  <2> QED BY <2>1, <2>3, IdleOK
<1>2. late' \subseteq [dev : Devices, row : Row, base : Nat]
  <2>1. CASE At(d, "wait")
    <3>1. Request(d) \in [dev : Devices, row : Row, base : Nat]
      BY <2>1, InHand DEF At, Sent
    <3> QED BY <2>1, <3>1, Typed DEF Kill, GiveUp
  <2>2. CASE ~At(d, "wait")
    BY <2>2, Typed DEF Kill
  <2> QED BY <2>1, <2>2
<1>3. run' = [run EXCEPT ![d] = u]
  BY DEF Kill
<1> HIDE DEF u
<1> QED BY <1>1, <1>2, <1>3, Typed, LocalStep DEF Kill

LEMMA StartStep == ASSUME IInv, NEW d \in Devices, Start(d) PROVE IInv'
BY Typed, GotoStep DEF Start, Places, Sent

LEMMA LateStep == ASSUME IInv, NEW q \in late, ServeLate(q) \/ LoseLate(q) PROVE IInv'
<1>1. PICK c \in [dev : Devices, row : Row, base : Nat], d \in Devices : c = q /\ d = q.dev
  BY DEF IInv, TypeOK
<1>2. late' \subseteq [dev : Devices, row : Row, base : Nat] /\ edits' \in 0..MaxEdits
  BY Typed, <1>1 DEF ServeLate, LoseLate
<1>3. CASE ServeLate(q)
  <2>1. Grows
    BY <1>1, <1>3, Typed, LoggedGrows DEF ServeLate
  <2>2. PICK s \in Stores, w \in Runs : s = db[d] /\ w = run[d]
    BY Typed
  <2>3. Informed(s) /\ Aware(w) /\ db' = [db EXCEPT ![d] = s] /\ run' = [run EXCEPT ![d] = w]
    BY <1>3, <2>2, Typed DEF ServeLate
  <2>4. Aware(w)'
    BY <2>1, <2>3, Typed, AwareKept
  <2> QED BY <1>2, <2>1, <2>3, <2>4, Step
<1>4. CASE LoseLate(q)
  BY <1>2, <1>4, Typed, LocalStep DEF LoseLate
<1> QED BY <1>3, <1>4

LEMMA EditStep ==
  ASSUME IInv, NEW d \in Devices, NEW s \in Stores, Informed(s), Edit(d, s)
  PROVE  IInv'
<1>1. edits' \in 0..MaxEdits
  BY Typed, CloudSyncAssumption DEF Edit
<1> QED BY <1>1, Typed, LocalStep DEF Edit, Store

LEMMA CreateStep == ASSUME IInv, NEW d \in Devices, Create(d) PROVE IInv'
<1>1. PICK b \in Bodies, i \in Ids : Edit(d, CreateRecord(db[d], i, b))
  BY DEF Create
<1> DEFINE s == [db[d] EXCEPT !.rec[i] = b, !.used = @ \cup {i}]
<1>2. s = [db[d] EXCEPT !.rec[i] = b, !.used = db[d].used \cup {i}]
  BY Typed DEF Stores
<1>3. db[d].used \cup {i} \subseteq Ids
  BY Typed DEF Stores
<1>4. s \in Stores /\ Informed(s)
  BY <1>2, <1>3, Typed, RecordKept
<1>5. CreateRecord(db[d], i, b) = EnqueueChange(s, i, "create", b)
  BY DEF CreateRecord
<1> HIDE DEF s
<1>6. "create" \in Operations
  BY DEF Operations
<1> QED BY <1>1, <1>4, <1>5, <1>6, Typed, EnqueueOK, EditStep

LEMMA SaveStep == ASSUME IInv, NEW d \in Devices, Save(d) PROVE IInv'
<1>1. PICK i \in Ids, b \in Bodies : Edit(d, UpdateRecord(db[d], i, b))
  BY DEF Save
<1> DEFINE s == [db[d] EXCEPT !.rec[i] = b]
<1>2. s = [db[d] EXCEPT !.rec[i] = b, !.used = db[d].used] /\ db[d].used \subseteq Ids
  BY Typed DEF Stores
<1>3. s \in Stores /\ Informed(s)
  <2> DEFINE t == [db[d] EXCEPT !.rec[i] = b, !.used = db[d].used]
  <2>1. t \in Stores /\ Informed(t)
    BY <1>2, Typed, RecordKept
  <2> HIDE DEF s, t
  <2>2. s = t
    BY <1>2 DEF t
  <2> QED BY <2>1, <2>2
<1>4. UpdateRecord(db[d], i, b) = EnqueueChange(s, i, "update", b)
  BY DEF UpdateRecord
<1> HIDE DEF s
<1>5. "update" \in Operations
  BY DEF Operations
<1> QED BY <1>1, <1>3, <1>4, <1>5, Typed, EnqueueOK, EditStep

LEMMA DiscardStep == ASSUME IInv, NEW d \in Devices, Discard(d) PROVE IInv'
<1>1. PICK i \in Ids : db[d].rec[i] # None /\ Edit(d, DeleteRecord(db[d], i))
  BY DEF Discard
<1> DEFINE s == [db[d] EXCEPT !.rec[i] = None]
<1>2. /\ s = [db[d] EXCEPT !.rec[i] = None, !.used = db[d].used] /\ db[d].used \subseteq Ids
      /\ db[d].rec[i] \in Bodies
  BY <1>1, Typed DEF Stores
<1>3. s \in Stores /\ Informed(s)
  <2> DEFINE t == [db[d] EXCEPT !.rec[i] = None, !.used = db[d].used]
  <2>1. t \in Stores /\ Informed(t)
    BY <1>2, Typed, RecordKept
  <2> HIDE DEF s, t
  <2>2. s = t
    BY <1>2 DEF t
  <2> QED BY <2>1, <2>2
<1>4. DeleteRecord(db[d], i) = EnqueueChange(s, i, "delete", db[d].rec[i])
  BY DEF DeleteRecord
<1> HIDE DEF s
<1>5. "delete" \in Operations
  BY DEF Operations
<1> QED BY <1>1, <1>2, <1>3, <1>4, <1>5, Typed, EnqueueOK, EditStep

\* A parked change is one of the log's.
LEMMA Parked ==
  ASSUME IInv, NEW d \in Devices, NEW x \in Pending(db[d])
  PROVE  x \in db[d].conflicts /\ InLog(x.c) /\ x.c.ent \in Ids /\ x.c.ver \in Nat
         /\ x.c.ver <= HeadVer(x.c.ent)
<1>1. x \in db[d].conflicts /\ InLog(x.c)
  BY Typed DEF Pending, Informed
<1> QED BY <1>1, Typed, RowVersion DEF Change

LEMMA TakeRemoteStep == ASSUME IInv, NEW d \in Devices, TakeRemote(d) PROVE IInv'
<1>1. PICK x \in Pending(db[d]) : Edit(d, UseRemote(db[d], x))
  BY DEF TakeRemote
<1> DEFINE t == ApplyRemote(db[d], x.c)
           o == t.outbox \ OfEntity(t.outbox, x.c.ent)
           s == [t EXCEPT !.outbox = o]
<1>2. t \in Stores /\ Informed(t) /\ t.conflicts = db[d].conflicts
  <2>1. t \in Stores /\ Informed(t)
    BY Typed, Parked, ApplyRemoteOK
  <2>2. t.conflicts = db[d].conflicts
    BY Typed DEF ApplyRemote, Stores
  <2> QED BY <2>1, <2>2
<1>3. UseRemote(db[d], x) = Resolve(s, x)
  BY <1>2 DEF UseRemote, Stores
<1> HIDE DEF t
<1>4. s \in Stores /\ s.outbox = o /\ s.conflicts = t.conflicts /\ s.cursor = t.cursor
      /\ s.meta = t.meta /\ s.clock = t.clock /\ o \subseteq t.outbox
  BY <1>2 DEF Stores
<1> HIDE DEF s, o
<1>5. Informed(s)
  BY <1>2, <1>4 DEF Informed, OneId
<1>6. x \in s.conflicts
  BY <1>2, <1>4, Parked
<1> QED BY <1>1, <1>3, <1>4, <1>5, <1>6, ResolveOK, EditStep

LEMMA TakeLocalStep == ASSUME IInv, NEW d \in Devices, TakeLocal(d) PROVE IInv'
<1>1. PICK x \in Pending(db[d]) :
             db[d].rec[x.c.ent] # None /\ Edit(d, UseLocal(db[d], x))
  BY DEF TakeLocal
<1> DEFINE e == x.c.ent
           m == Upsert(db[d].meta[e], "synced", x.c.ver, None)
           t == [db[d] EXCEPT !.meta = [db[d].meta EXCEPT ![e] = m]]
           s == EnqueueChange(t, e, "update", db[d].rec[e])
<1>2. e \in Ids /\ x.c.ver \in Nat /\ x.c.ver <= HeadVer(e)
  BY Parked
<1>3. db[d].meta[e] \in Meta /\ db[d].rec[e] \in Bodies
  BY <1>1, <1>2, Typed DEF Stores
<1>4. m \in Meta /\ m.ver \in {db[d].meta[e].ver, x.c.ver}
  <2>1. "synced" \in Statuses
    BY DEF Statuses
  <2> QED BY <1>2, <1>3, <2>1, UpsertType
<1>5. UseLocal(db[d], x) = Resolve(s, x)
  BY Typed DEF UseLocal, Stores
<1> HIDE DEF m, e
<1>6. /\ t \in Stores /\ t.meta = [db[d].meta EXCEPT ![e] = m] /\ t.cursor = db[d].cursor
      /\ t.outbox = db[d].outbox /\ t.conflicts = db[d].conflicts /\ t.clock = db[d].clock
  <2>1. [db[d].meta EXCEPT ![e] = m] \in [Ids -> Meta]
    BY <1>2, <1>4, Typed DEF Stores
  <2> QED BY <2>1, Typed DEF Stores
<1> HIDE DEF t
<1>7. \A f \in Ids : t.meta[f].ver <= HeadVer(f)
  BY <1>2, <1>4, <1>6, Typed DEF Informed, Stores
<1>8. Informed(t)
  BY <1>6, <1>7, Typed DEF Informed
<1>9. s \in Stores /\ Informed(s)
  <2>1. "update" \in Operations
    BY DEF Operations
  <2> QED BY <1>2, <1>3, <1>6, <1>8, <2>1, Typed, EnqueueOK
<1>10. x \in s.conflicts
  BY <1>6, Parked DEF EnqueueChange, Stores
<1> HIDE DEF s
<1> QED BY <1>1, <1>5, <1>9, <1>10, ResolveOK, EditStep
-----------------------------------------------------------------------------
LEMMA NextStep == IInv /\ [Next]_vars => IInv'
<1> SUFFICES ASSUME IInv, [Next]_vars PROVE IInv'
  OBVIOUS
<1>1. ASSUME NEW d \in Devices, FetchPage(d) \/ FetchFails(d) PROVE IInv'
  BY <1>1, FetchPageStep, FetchFailsStep
<1>2. ASSUME NEW d \in Devices, Work(d) PROVE IInv'
  <2>1. CASE ReadMeta(d) \/ Merge(d) \/ PullDone(d)
    BY <2>1, ReadMetaStep, MergeStep, PullDoneStep
  <2>2. CASE ListPending(d) \/ DropFolded(d) \/ Send(d) \/ RecordFailure(d)
    BY <2>2, ListStep, DropFoldedStep, SendStep, RecordFailureStep
  <2>3. CASE AckDelete(d) \/ AckMeta(d) \/ AckReadCursor(d) \/ AckWriteCursor(d)
    BY <2>3, AckDeleteStep, AckMetaStep, AckReadCursorStep, AckWriteCursorStep
  <2>4. CASE Start(d)
    BY <2>4, StartStep
  <2> QED BY <1>2, <2>1, <2>2, <2>3, <2>4 DEF Work
<1>3. ASSUME NEW d \in Devices, Answered(d) \/ NoAnswer(d) \/ Kill(d) PROVE IInv'
  BY <1>3, AnsweredStep, NoAnswerStep, KillStep
<1>4. ASSUME NEW d \in Writers,
             Create(d) \/ Save(d) \/ Discard(d) \/ TakeRemote(d) \/ TakeLocal(d)
      PROVE  IInv'
  <2>1. d \in Devices
    BY CloudSyncAssumption
  <2> QED BY <1>4, <2>1, CreateStep, SaveStep, DiscardStep, TakeRemoteStep, TakeLocalStep
<1>5. ASSUME NEW q \in late, ServeLate(q) \/ LoseLate(q) PROVE IInv'
  BY <1>5, LateStep
<1>6. CASE UNCHANGED vars
  <2>1. log' = log /\ db' = db /\ run' = run /\ late' = late /\ edits' = edits
    BY <1>6 DEF vars
  <2> QED BY <2>1 DEF IInv, TypeOK, LogOK, Informed, Aware, InLog, HeadVer, RowsOf, Upto, VerAt
<1> QED BY <1>1, <1>2, <1>3, <1>4, <1>5, <1>6 DEF Next

\* What a device stores and holds of the log is true of it, throughout.
THEOREM Invariance == Spec => []IInv
<1>1. Init => IInv
  BY Initially
<1>2. IInv /\ [Next]_vars => IInv'
  BY NextStep
<1> QED BY <1>1, <1>2, PTL DEF Spec

\* Every variable keeps its shape.
THEOREM TypeCorrect == Spec => []TypeOK
<1>1. IInv => TypeOK
  BY DEF IInv
<1> QED BY <1>1, Invariance, PTL

\* No cursor and no stored version is ahead of the backend, whatever was
\* lost, answered late or cut short, so the base of a push never is.
THEOREM NeverAheadCorrect == Spec => []NeverAhead
<1>1. IInv => NeverAhead
  BY DEF IInv, Informed, NeverAhead
<1> QED BY <1>1, Invariance, PTL
-----------------------------------------------------------------------------
(* A reader: a device nothing is edited on.                                 *)

\* Nothing goes out; the page in hand is what comes next; the meta row read
\* is still the stored one; no stored version is ahead of the cursor; and what
\* is stored as deleted was deleted before it.
Follows(s, u) ==
  /\ s.outbox = {} /\ u.at \in {"idle", "pull", "merge", "list", "dead"}
  /\ \A k \in DOMAIN u.page : u.page[k].seq = s.cursor + k
  /\ u.at = "merge" => u.seen = s.meta[Head(u.page).ent]
  /\ \A x \in s.conflicts : x.c.seq <= s.cursor
  /\ \A e \in Ids :
       /\ s.meta[e].st = "synced" /\ s.meta[e].ver <= VerAt(e, s.cursor)
       /\ s.meta[e].del => \E i \in Upto(e, s.cursor) : log[i].op = "delete"

RInv == IInv /\ \A d \in Readers : Follows(db[d], run[d])

\* The next row of the log becomes the record, or it is parked because it
\* brings back what was deleted.
Applies(s, t) ==
  LET c == log[s.cursor + 1]
  IN t.rec = [s.rec EXCEPT ![c.ent] = Makes(c)] /\ t.conflicts = s.conflicts

Parks(s, t) ==
  LET c == log[s.cursor + 1]
  IN /\ t.rec = s.rec
     /\ t.conflicts = s.conflicts \cup {[c |-> c, st |-> "pending"]}
     /\ c.op # "delete" /\ \E i \in Upto(c.ent, s.cursor) : log[i].op = "delete"

Advances(s, t) ==
  /\ s.cursor + 1 \in DOMAIN log /\ t.cursor = s.cursor + 1
  /\ Applies(s, t) \/ Parks(s, t)

LEMMA MaxOf ==
  ASSUME NEW S, S \subseteq Int, NEW m \in S, \A y \in S : y <= m
  PROVE  Max(S) = m
<1>1. \A x \in S : (\A y \in S : y <= x) => x = m
  OBVIOUS
<1> QED BY <1>1 DEF Max

LEMMA MaxIn ==
  ASSUME NEW n \in Nat, NEW S, S \subseteq 1..n, S # {}
  PROVE  Max(S) \in S
<1> DEFINE T == {n - i : i \in S}
<1>1. T \subseteq Nat /\ T # {}
  <2>1. \A i \in S : i \in 1..n /\ n - i \in Nat
    OBVIOUS
  <2> QED BY <2>1
<1>2. PICK t \in T : \A k \in T : ~(<<k, t>> \in OpToRel(<, Nat))
  BY <1>1, NatLessThanWellFounded, WFMin
<1>3. PICK m \in S : t = n - m
  OBVIOUS
<1>4. ASSUME NEW y \in S PROVE y <= m
  <2>1. n - y \in Nat /\ t \in Nat /\ n - y \in T
    BY <1>1
  <2>2. ~(n - y < t)
    BY <1>2, <2>1 DEF OpToRel
  <2> QED BY <1>3, <2>1, <2>2
<1>5. Max(S) = m
  <2>1. S \subseteq Int
    OBVIOUS
  <2> QED BY <1>4, <2>1, MaxOf
<1> QED BY <1>5

\* What the log makes of an entity is settled once it has the rows.
LEMMA ContentKept ==
  ASSUME TypeOK, Grows, NEW e, NEW n \in 0..Len(log)
  PROVE  Content(e, n)' = Content(e, n)
<1>1. Upto(e, n)' = Upto(e, n)
  BY DEF Grows
<1>2. PICK U : U = Upto(e, n) /\ U \subseteq 1..Len(log)
  BY RowsFinite DEF Upto
<1>3. Content(e, n) = IF U = {} \/ log[Max(U)].op = "delete" THEN None ELSE log[Max(U)].body
  BY <1>2 DEF Content, Upto
<1>4. Content(e, n)' = IF U = {} \/ log'[Max(U)].op = "delete" THEN None ELSE log'[Max(U)].body
  BY <1>1, <1>2 DEF Content, Upto
<1>5. U # {} => log'[Max(U)] = log[Max(U)]
  BY <1>2, MaxIn, RowsFinite DEF Grows
<1> QED BY <1>3, <1>4, <1>5

LEMMA FollowsKept ==
  ASSUME TypeOK, Grows, NEW s \in Stores, NEW u \in Runs, Informed(s), Follows(s, u)
  PROVE  Follows(s, u)'
<1>1. s.cursor \in 0..Len(log)
  BY RowsFinite DEF Stores, Informed
<1>2. \A e : Upto(e, s.cursor)' = Upto(e, s.cursor)
  BY <1>1 DEF Grows
<1>3. \A e : VerAt(e, s.cursor)' = VerAt(e, s.cursor)
  BY <1>2 DEF VerAt
<1>4. \A e : \A i \in Upto(e, s.cursor) : log'[i] = log[i]
  BY DEF Upto, RowsOf, Grows
<1> QED BY <1>2, <1>3, <1>4 DEF Follows

\* One more row changes the entity it is of and no other.
LEMMA NextContent ==
  ASSUME TypeOK, LogOK, NEW n \in Nat, n + 1 \in DOMAIN log
  PROVE  /\ Content(log[n + 1].ent, n + 1) =
              IF log[n + 1].op = "delete" THEN None ELSE log[n + 1].body
         /\ log[n + 1].ver = VerAt(log[n + 1].ent, n + 1)
         /\ log[n + 1].ver = VerAt(log[n + 1].ent, n) + 1
         /\ \A e : e # log[n + 1].ent =>
              Content(e, n + 1) = Content(e, n) /\ VerAt(e, n + 1) = VerAt(e, n)
<1>0. DOMAIN log = 1..Len(log) /\ Len(log) \in Nat
  BY RowsFinite
<1>1. ASSUME NEW e, e # log[n + 1].ent
      PROVE  Content(e, n + 1) = Content(e, n) /\ VerAt(e, n + 1) = VerAt(e, n)
  <2>1. \A i \in RowsOf(e) : i \in Nat /\ i # n + 1
    BY <1>0, <1>1 DEF RowsOf
  <2>2. Upto(e, n + 1) = Upto(e, n)
    BY <2>1 DEF Upto
  <2> QED BY <2>2 DEF Content, VerAt, Upto
<1> DEFINE e == log[n + 1].ent
           U == Upto(e, n + 1)
<1>2. n + 1 \in U /\ U \subseteq Nat /\ (\A y \in U : y <= n + 1) /\ U = Upto(e, n) \cup {n + 1}
      /\ n + 1 \notin Upto(e, n)
  BY <1>0 DEF Upto, RowsOf
<1>3. Max(U) = n + 1
  <2> HIDE DEF U
  <2>1. U \subseteq Int
    BY <1>2
  <2> QED BY <1>2, <2>1, MaxOf
<1>4. Content(e, n + 1) = IF log[n + 1].op = "delete" THEN None ELSE log[n + 1].body
  <2>1. Content(e, n + 1) = IF U = {} \/ log[Max(U)].op = "delete" THEN None ELSE log[Max(U)].body
    BY DEF Content, Upto
  <2>2. U # {}
    BY <1>2
  <2> HIDE DEF U, e
  <2> QED BY <1>3, <2>1, <2>2
<1>5. VerAt(e, n + 1) = VerAt(e, n) + 1
  <2>1. IsFiniteSet(Upto(e, n))
    BY RowsFinite
  <2>2. Cardinality(Upto(e, n) \cup {n + 1}) = Cardinality(Upto(e, n)) + 1
    BY <1>2, <2>1, FS_AddElement
  <2> QED BY <1>2, <2>2 DEF VerAt
<1>6. log[n + 1].ver = VerAt(e, n + 1)
  BY DEF LogOK
<1> QED BY <1>1, <1>4, <1>5, <1>6

\* Merging takes a reader one row further.
LEMMA MergeFollows ==
  ASSUME TypeOK, LogOK, NEW s \in Stores, Informed(s), NEW u \in Runs, Aware(u),
         Follows(s, u), u.at = "merge"
  PROVE  LET t == MergeChange(s, u.seen, Head(u.page))
         IN /\ Follows(t, [u EXCEPT !.at = "pull", !.page = Tail(u.page), !.seen = NoMeta])
            /\ Advances(s, t)
<1> DEFINE g == u.page
           c == Head(g)
           e == c.ent
           m == s.meta[e]
           n == s.cursor
           t == MergeChange(s, u.seen, c)
           v == [u EXCEPT !.at = "pull", !.page = Tail(g), !.seen = NoMeta]
<1>1. g \in Seq(Change) /\ g # <<>> /\ n \in Nat /\ u.seen = m
  BY DEF Aware, Runs, Stores, Follows
<1>2. 1 \in DOMAIN g /\ c = g[1] /\ c.seq = n + 1
  BY <1>1 DEF Follows
<1>3. c \in Change /\ n + 1 \in DOMAIN log /\ c = log[n + 1]
  <2>1. InLog(c)
    BY <1>2 DEF Aware
  <2> QED BY <1>2, <2>1, RowVersion
<1>4. /\ c.ver = VerAt(e, n + 1) /\ c.ver = VerAt(e, n) + 1
      /\ \A f : f # e => VerAt(f, n + 1) = VerAt(f, n)
  BY <1>1, <1>3, NextContent
<1>5. e \in Ids /\ m \in Meta /\ m.ver \in Nat /\ \A f : VerAt(f, n) \in Nat
  BY <1>3, RowsFinite DEF Change, Stores, Meta
<1>6. /\ \A f : VerAt(f, n) <= VerAt(f, n + 1) /\ Upto(f, n) \subseteq Upto(f, n + 1)
      /\ n + 1 \in Upto(e, n + 1)
  <2>1. \A f : Upto(f, n) \subseteq Upto(f, n + 1)
    BY <1>1, RowsFinite DEF Upto, RowsOf
  <2>2. n + 1 \in Upto(e, n + 1)
    BY <1>1, <1>3 DEF Upto, RowsOf
  <2> QED BY <1>4, <1>5, <2>1, <2>2
<1>7. v.at = "pull" /\ v.page = Tail(g)
  BY DEF Runs
<1>8. \A k \in DOMAIN Tail(g) : Tail(g)[k].seq = n + 1 + k
  <2>1. \A k \in DOMAIN Tail(g) : k \in Nat /\ k + 1 \in DOMAIN g /\ Tail(g)[k] = g[k + 1]
    BY <1>1
  <2>2. \A k \in DOMAIN g : g[k].seq = n + k
    BY DEF Follows
  <2>3. \A k \in DOMAIN Tail(g) : Tail(g)[k].seq = n + (k + 1)
    BY <2>1, <2>2
  <2> QED BY <1>1, <2>1, <2>3
<1>9. /\ m.st = "synced" /\ c.ver > m.ver
      /\ m.del => \E i \in Upto(e, n) : log[i].op = "delete"
  <2>1. m.ver <= VerAt(e, n)
    BY <1>5 DEF Follows
  <2> QED BY <1>4, <1>5, <2>1 DEF Follows
<1>10. ~AlreadyApplied(m, c)
  BY <1>3, <1>5, <1>9 DEF AlreadyApplied, Change
<1>11. /\ s.outbox = {} /\ \A x \in s.conflicts : x.c.seq \in Nat /\ x.c.seq <= n
       /\ \A f \in Ids : /\ s.meta[f].st = "synced" /\ s.meta[f].ver <= VerAt(f, n)
                         /\ s.meta[f].del => \E i \in Upto(f, n) : log[i].op = "delete"
  BY DEF Follows, Stores, Change
<1>12. /\ t.cursor = n + 1 /\ t.outbox = {}
       /\ \A x \in t.conflicts : x.c.seq <= n + 1
       /\ \A f \in Ids :
            /\ t.meta[f].st = "synced" /\ t.meta[f].ver <= VerAt(f, n + 1)
            /\ t.meta[f].del => \E i \in Upto(f, n + 1) : log[i].op = "delete"
       /\ Applies(s, t) \/ Parks(s, t)
  <2>1. CASE Agrees(m, c)
    <3> DEFINE w == [st |-> "synced", ver |-> c.ver, hash |-> Hash(c), del |-> c.op = "delete"]
    <3>1. t = [ApplyRemote(s, c) EXCEPT !.cursor = n + 1]
      BY <1>1, <1>2, <1>10, <2>1 DEF MergeChange, WriteCursor
    <3>2. /\ t.cursor = n + 1 /\ t.outbox = {} /\ t.conflicts = s.conflicts
          /\ t.rec = [s.rec EXCEPT ![e] = Makes(c)] /\ t.meta = [s.meta EXCEPT ![e] = w]
      BY <1>11, <3>1 DEF ApplyRemote, Stores, Makes
    <3>3. Applies(s, t)
      BY <1>3, <3>2 DEF Applies
    <3>4. w.st = "synced" /\ w.ver = c.ver /\ (w.del <=> c.op = "delete")
      OBVIOUS
    <3>5. s.meta \in [Ids -> Meta]
      BY DEF Stores
    <3> HIDE DEF t, w
    <3>6. \A f \in Ids : t.meta[f] = IF f = e THEN w ELSE s.meta[f]
      BY <3>2, <3>5
    <3>7. ASSUME NEW f \in Ids
          PROVE  /\ t.meta[f].st = "synced" /\ t.meta[f].ver <= VerAt(f, n + 1)
                 /\ t.meta[f].del => \E i \in Upto(f, n + 1) : log[i].op = "delete"
      <4>1. CASE f = e
        <5>1. t.meta[f] = w
          BY <3>6, <4>1
        <5>2. t.meta[f].ver = VerAt(f, n + 1) /\ VerAt(f, n + 1) \in Nat
          BY <1>4, <3>4, <4>1, <5>1, RowsFinite
        <5>3. t.meta[f].del => log[n + 1].op = "delete"
          BY <1>3, <3>4, <5>1
        <5> QED BY <1>6, <3>4, <4>1, <5>1, <5>2, <5>3
      <4>2. CASE f # e
        <5>1. t.meta[f] = s.meta[f]
          BY <3>6, <4>2
        <5> QED BY <1>4, <1>6, <1>11, <4>2, <5>1
      <4> QED BY <4>1, <4>2
    <3>8. \A x \in t.conflicts : x.c.seq <= n + 1
      BY <1>1, <1>11, <3>2
    <3> QED BY <3>2, <3>3, <3>7, <3>8
  <2>2. CASE ~Agrees(m, c)
    <3> DEFINE x0 == [c |-> c, st |-> "pending"]
    <3>1. t = [Park(s, c) EXCEPT !.cursor = n + 1]
      BY <1>1, <1>2, <2>2 DEF MergeChange, WriteCursor
    <3>2. \A x \in s.conflicts : x.c.seq # c.seq
      BY <1>1, <1>2, <1>11
    <3>3. /\ t.cursor = n + 1 /\ t.outbox = {} /\ t.rec = s.rec /\ t.meta = s.meta
          /\ t.conflicts = s.conflicts \cup {x0}
      BY <1>11, <3>1, <3>2 DEF Park, Stores
    <3>4. m.del /\ c.op # "delete"
      BY <1>9, <2>2 DEF Agrees
    <3>5. Parks(s, t)
      BY <1>3, <1>9, <3>3, <3>4 DEF Parks
    <3>6. x0.c.seq = n + 1
      BY <1>2
    <3> HIDE DEF t, x0
    <3>7. \A x \in t.conflicts : x.c.seq <= n + 1
      BY <1>1, <1>11, <3>3, <3>6
    <3>8. ASSUME NEW f \in Ids
          PROVE  /\ t.meta[f].st = "synced" /\ t.meta[f].ver <= VerAt(f, n + 1)
                 /\ t.meta[f].del => \E i \in Upto(f, n + 1) : log[i].op = "delete"
      <4>1. s.meta[f].ver \in Nat /\ VerAt(f, n) \in Nat /\ VerAt(f, n + 1) \in Nat
        BY RowsFinite DEF Stores, Meta
      <4>2. s.meta[f].ver <= VerAt(f, n) /\ VerAt(f, n) <= VerAt(f, n + 1)
        BY <1>6, <1>11
      <4> QED BY <1>6, <1>11, <3>3, <4>1, <4>2
    <3> QED BY <3>3, <3>5, <3>7, <3>8
  <2> QED BY <2>1, <2>2
<1> HIDE DEF t, v, n
<1>13. Follows(t, v)
  BY <1>7, <1>8, <1>12 DEF Follows
<1>14. Advances(s, t)
  BY <1>3, <1>12 DEF Advances, n
<1> QED BY <1>13, <1>14 DEF t, v

\* The rows of a page follow the cursor it was asked with.
LEMMA PageNext ==
  ASSUME TypeOK, LogOK, NEW n \in Nat, n <= Len(log)
  PROVE  \A k \in DOMAIN Page(n) : Page(n)[k].seq = n + k
<1> DEFINE m == Min({Len(log), n + PageLimit})
<1>1. Len(log) \in Nat /\ log \in Seq(Change) /\ DOMAIN log = 1..Len(log) /\ PageLimit \in Nat
  BY RowsFinite, CloudSyncAssumption DEF TypeOK
<1>2. m \in Nat /\ m <= Len(log) /\ n <= m
  <2>1. m = IF Len(log) <= n + PageLimit THEN Len(log) ELSE n + PageLimit
    BY <1>1, MinOfTwo
  <2> QED BY <1>1, <2>1
<1>3. Page(n) = SubSeq(log, n + 1, m)
  BY DEF Page
<1> HIDE DEF m
<1>4. SubSeq(log, n + 1, m) \in Seq(Change) /\ Len(SubSeq(log, n + 1, m)) = m - n
  BY <1>1, <1>2
<1>5. DOMAIN SubSeq(log, n + 1, m) = 1..(m - n)
  BY <1>2, <1>4
<1>6. \A k \in 1..(m - n) : SubSeq(log, n + 1, m)[k] = log[n + k] /\ n + k \in DOMAIN log
  BY <1>1, <1>2
<1>7. \A i \in DOMAIN log : log[i].seq = i
  BY DEF LogOK
<1> QED BY <1>3, <1>5, <1>6, <1>7

LEMMA GotoFollows ==
  ASSUME NEW d \in Devices, db' = db, run \in [Devices -> Runs], db \in [Devices -> Stores],
         Informed(db[d]), Follows(db[d], run[d]),
         NEW p \in {"idle", "pull", "list"}, Goto(d, p)
  PROVE  /\ Follows(db'[d], run'[d])
         /\ db'[d] \in Stores /\ Informed(db'[d]) /\ run'[d] \in Runs
<1> DEFINE u == [run[d] EXCEPT !.at = p]
<1>1. run' = [run EXCEPT ![d] = u]
  BY DEF Goto
<1>2. u \in Runs /\ u.at = p /\ u.page = run[d].page
  <2>1. run[d] \in Runs /\ p \in Places
    BY DEF Places
  <2> QED BY <2>1 DEF Runs
<1> HIDE DEF u
<1>3. Follows(db[d], u)
  BY <1>2 DEF Follows
<1> QED BY <1>1, <1>2, <1>3

\* The log grows by requests that are served, one at a time.
LEMMA LogSteps ==
  ASSUME IInv, [Next]_vars
  PROVE  log' = log \/ \E q \in [dev : Devices, row : Row, base : Nat] : log' = Logged(q)
<1>1. ASSUME NEW d \in Devices, Answered(d)
      PROVE  \E q \in [dev : Devices, row : Row, base : Nat] : log' = Logged(q)
  <2>1. Request(d) \in [dev : Devices, row : Row, base : Nat]
    BY <1>1, InHand DEF Answered, At, Sent
  <2> QED BY <1>1, <2>1 DEF Answered
<1>2. ASSUME NEW q \in late, ServeLate(q)
      PROVE  \E c \in [dev : Devices, row : Row, base : Nat] : log' = Logged(c)
  <2>1. q \in [dev : Devices, row : Row, base : Nat]
    BY Typed DEF IInv, TypeOK
  <2> QED BY <1>2, <2>1 DEF ServeLate
<1>3. ASSUME NEW d, Work(d) PROVE log' = log
  BY <1>3 DEF Work, ReadMeta, Merge, PullDone, ListPending, List, DropFolded, Send,
              RecordFailure, AckDelete, AckMeta, AckReadCursor, AckWriteCursor, Start
<1>4. ASSUME NEW d, FetchPage(d) \/ FetchFails(d) \/ NoAnswer(d) \/ Kill(d) PROVE log' = log
  BY <1>4 DEF FetchPage, FetchFails, NoAnswer, Kill
<1>5. ASSUME NEW d, Create(d) \/ Save(d) \/ Discard(d) \/ TakeRemote(d) \/ TakeLocal(d)
      PROVE  log' = log
  BY <1>5 DEF Create, Save, Discard, TakeRemote, TakeLocal, Edit
<1>6. ASSUME NEW q, LoseLate(q) PROVE log' = log
  BY <1>6 DEF LoseLate
<1>7. CASE UNCHANGED vars
  BY <1>7 DEF vars
<1> QED BY <1>1, <1>2, <1>3, <1>4, <1>5, <1>6, <1>7 DEF Next

LEMMA EveryStepGrows == ASSUME IInv, [Next]_vars PROVE Grows
BY LogSteps, Typed, LoggedGrows, SameGrows DEF IInv

\* The work of one device is none of another's.
LEMMA OthersStay ==
  ASSUME db \in [Devices -> Stores], run \in [Devices -> Runs],
         NEW d \in Devices, NEW c \in Devices, c # d,
         FetchPage(c) \/ FetchFails(c) \/ Work(c) \/ Answered(c) \/ NoAnswer(c) \/ Kill(c)
  PROVE  db'[d] = db[d] /\ run'[d] = run[d]
<1>1. CASE FetchPage(c) \/ FetchFails(c) \/ NoAnswer(c) \/ Kill(c) \/ Answered(c)
  BY <1>1 DEF FetchPage, FetchFails, NoAnswer, Kill, Answered, Goto
<1>2. CASE ReadMeta(c) \/ Merge(c) \/ PullDone(c) \/ ListPending(c) \/ DropFolded(c)
  BY <1>2 DEF ReadMeta, Merge, PullDone, ListPending, List, DropFolded, Goto, Store
<1>3. CASE Send(c) \/ RecordFailure(c) \/ AckDelete(c) \/ AckMeta(c)
  BY <1>3 DEF Send, RecordFailure, AckDelete, AckMeta, NextRow, Goto, Store
<1>4. CASE AckReadCursor(c) \/ AckWriteCursor(c) \/ Start(c)
  BY <1>4 DEF AckReadCursor, AckWriteCursor, Start, NextRow, Goto, Store
<1> QED BY <1>1, <1>2, <1>3, <1>4 DEF Work

\* What a reader does: pull, merge, find nothing to push, die and start.
Reads(d) ==
  \/ FetchPage(d) \/ FetchFails(d) \/ ReadMeta(d) \/ Merge(d) \/ PullDone(d)
  \/ ListPending(d) \/ Kill(d) \/ Start(d)

LEMMA ReaderOnlyReads ==
  ASSUME RInv, [Next]_vars, NEW d \in Readers
  PROVE  Reads(d) \/ (db'[d] = db[d] /\ run'[d] = run[d])
<1>1. run[d].at \in {"idle", "pull", "merge", "list", "dead"}
  BY DEF RInv, Follows
<1>2. db \in [Devices -> Stores] /\ run \in [Devices -> Runs] /\ d \in Devices \ Writers
  BY DEF RInv, IInv, TypeOK, Readers
<1>3. ASSUME NEW c \in Devices, c # d,
             FetchPage(c) \/ FetchFails(c) \/ Work(c) \/ Answered(c) \/ NoAnswer(c) \/ Kill(c)
      PROVE  db'[d] = db[d] /\ run'[d] = run[d]
  BY <1>2, <1>3, OthersStay
<1>4. ASSUME FetchPage(d) \/ FetchFails(d) \/ Work(d) \/ Answered(d) \/ NoAnswer(d) \/ Kill(d)
      PROVE  Reads(d)
  BY <1>1, <1>4 DEF Reads, Work, DropFolded, Send, RecordFailure, AckDelete, AckMeta,
                    AckReadCursor, AckWriteCursor, Answered, NoAnswer, At
<1>5. ASSUME NEW c \in Writers,
             Create(c) \/ Save(c) \/ Discard(c) \/ TakeRemote(c) \/ TakeLocal(c)
      PROVE  db'[d] = db[d] /\ run'[d] = run[d]
  BY <1>2, <1>5 DEF Create, Save, Discard, TakeRemote, TakeLocal, Edit, Store
<1>6. ASSUME NEW q, ServeLate(q) \/ LoseLate(q) PROVE db'[d] = db[d] /\ run'[d] = run[d]
  BY <1>6 DEF ServeLate, LoseLate
<1>7. CASE UNCHANGED vars
  BY <1>7 DEF vars
<1> QED BY <1>3, <1>4, <1>5, <1>6, <1>7 DEF Next

\* Each of these makes a mirror, by what the log is before the step.
LEMMA ReaderStep ==
  ASSUME RInv, NEW d \in Readers, Reads(d)
  PROVE  /\ Follows(db'[d], run'[d])
         /\ db'[d] \in Stores /\ Informed(db'[d]) /\ run'[d] \in Runs
<1>1. /\ IInv /\ TypeOK /\ LogOK /\ Follows(db[d], run[d]) /\ Informed(db[d]) /\ Aware(run[d])
      /\ db[d] \in Stores /\ run[d] \in Runs
      /\ db \in [Devices -> Stores] /\ run \in [Devices -> Runs] /\ d \in Devices
  BY Typed DEF RInv, IInv, TypeOK, Readers
<1> DEFINE s == db[d]
           w == run[d]
<1>2. CASE FetchPage(d)
  <2> DEFINE g == Page(s.cursor)
             u == [Idle EXCEPT !.at = "pull", !.page = g]
  <2>1. s.cursor \in Nat /\ s.cursor <= Len(log)
    BY <1>1 DEF Informed, Stores
  <2>2. \A k \in DOMAIN g : g[k].seq = s.cursor + k
    BY <1>1, <2>1, PageNext
  <2>3. g \in Seq(Change)
    BY <1>1, <2>1, PageOK
  <2>4. db' = db /\ run' = [run EXCEPT ![d] = u]
    BY <1>2 DEF FetchPage
  <2> HIDE DEF g
  <2>5. u.at = "pull" /\ u.page = g /\ u \in Runs
    <3>1. "pull" \in Places
      BY DEF Places
    <3>2. [Idle EXCEPT !.at = "pull"] \in Runs
      BY <3>1, IdleOK
    <3> QED BY <2>3, <3>2 DEF Idle, Runs
  <2> HIDE DEF u
  <2>6. Follows(s, u)
    BY <1>1, <2>2, <2>5 DEF Follows
  <2> QED BY <1>1, <2>4, <2>5, <2>6
<1>3. CASE FetchFails(d)
  BY <1>1, <1>3, GotoFollows DEF FetchFails
<1>4. CASE ReadMeta(d)
  <2> DEFINE m == s.meta[Head(w.page).ent]
             u == [w EXCEPT !.at = "merge", !.seen = m]
  <2>1. db' = db /\ run' = [run EXCEPT ![d] = u]
    BY <1>1, <1>4 DEF ReadMeta
  <2>2. m \in Meta
    <3>1. w.page \in Seq(Change) /\ w.page # <<>>
      BY <1>1, <1>4 DEF ReadMeta, Runs
    <3>2. Head(w.page) \in Change
      BY <3>1
    <3> QED BY <1>1, <3>2 DEF Change, Stores
  <2> HIDE DEF m
  <2>3. u.at = "merge" /\ u.page = w.page /\ u.seen = m /\ u \in Runs
    BY <1>1, <2>2 DEF Runs, Places
  <2> HIDE DEF u
  <2>4. Follows(s, u)
    BY <1>1, <2>3 DEF Follows, m
  <2> QED BY <1>1, <2>1, <2>3, <2>4
<1>5. CASE Merge(d)
  <2> DEFINE t == MergeChange(s, w.seen, Head(w.page))
             u == [w EXCEPT !.at = "pull", !.page = Tail(w.page), !.seen = NoMeta]
  <2>1. w.at = "merge"
    BY <1>5 DEF Merge, At
  <2>2. Follows(t, u)
    BY <1>1, <2>1, MergeFollows
  <2>3. db' = [db EXCEPT ![d] = t] /\ run' = [run EXCEPT ![d] = u]
    BY <1>1, <1>5 DEF Merge, Store
  <2>4. w.page \in Seq(Change) /\ w.page # <<>> /\ \A k \in DOMAIN w.page : InLog(w.page[k])
    BY <1>1, <2>1 DEF Aware, Runs
  <2>5. 1 \in DOMAIN w.page /\ Head(w.page) = w.page[1] /\ Tail(w.page) \in Seq(Change)
    BY <2>4
  <2>6. t \in Stores /\ Informed(t)
    BY <1>1, <2>4, <2>5, MergeOK
  <2>7. u \in Runs
    BY <1>1, <2>5, NoMetaType DEF Runs, Places
  <2> HIDE DEF t, u
  <2> QED BY <1>1, <2>2, <2>3, <2>6, <2>7
<1>6. CASE PullDone(d)
  <2>1. PICK p \in {"idle", "list"} : Goto(d, p)
    BY <1>6 DEF PullDone
  <2> QED BY <1>1, <1>6, <2>1, GotoFollows DEF PullDone
<1>7. CASE ListPending(d)
  <2>1. PICK waiting : List(d, waiting)
    BY <1>7 DEF ListPending
  <2>2. s.outbox = {}
    BY <1>1 DEF Follows
  <2> DEFINE listed == {q \in s.outbox \ waiting :
               Cardinality({p \in s.outbox \ waiting : Before(p, q)}) < PushLimit}
  <2>3. listed = {}
    BY <2>2
  <2>4. run' = [run EXCEPT ![d] = Pushing(Folded(listed), listed \ Folded(listed))]
    BY <2>1 DEF List
  <2> HIDE DEF listed
  <2>5. Folded(listed) = {} /\ listed \ Folded(listed) = {}
    BY <2>3 DEF Folded
  <2> DEFINE u == Pushing({}, {})
  <2>6. db' = db /\ run' = [run EXCEPT ![d] = u]
    BY <2>1, <2>4, <2>5 DEF List
  <2>7. u \in Runs /\ u.at = "idle" /\ u.page = <<>>
    <3>1. u \in Runs
      BY PushingOK DEF OneId
    <3> QED BY <3>1 DEF Pushing, Idle
  <2> HIDE DEF u
  <2>8. Follows(s, u)
    BY <1>1, <2>7 DEF Follows
  <2> QED BY <1>1, <2>6, <2>7, <2>8
<1>8. CASE Kill(d)
  <2> DEFINE u == [Idle EXCEPT !.at = "dead"]
  <2>1. db' = db /\ run' = [run EXCEPT ![d] = u]
    BY <1>8 DEF Kill
  <2>2. u \in Runs /\ u.at = "dead" /\ u.page = <<>>
    <3>1. "dead" \in Places
      BY DEF Places
    <3> QED BY <3>1, IdleOK DEF Idle
  <2> HIDE DEF u
  <2>3. Follows(s, u)
    BY <1>1, <2>2 DEF Follows
  <2> QED BY <1>1, <2>1, <2>2, <2>3
<1>9. CASE Start(d)
  BY <1>1, <1>9, GotoFollows DEF Start
<1> QED BY <1>2, <1>3, <1>4, <1>5, <1>6, <1>7, <1>8, <1>9 DEF Reads

LEMMA ReadersNext == RInv /\ [Next]_vars => RInv'
<1> SUFFICES ASSUME RInv, [Next]_vars PROVE RInv'
  OBVIOUS
<1>1. IInv /\ IInv'
  BY NextStep DEF RInv
<1>2. Grows /\ TypeOK
  BY <1>1, EveryStepGrows DEF IInv
<1>3. ASSUME NEW d \in Readers PROVE Follows(db[d], run[d])'
  <2>1. PICK s, u : s = db'[d] /\ u = run'[d]
    OBVIOUS
  <2>2. s \in Stores /\ u \in Runs /\ Informed(s) /\ Follows(s, u)
    <3>1. CASE Reads(d)
      BY <2>1, <3>1, ReaderStep
    <3>2. CASE db'[d] = db[d] /\ run'[d] = run[d]
      BY <1>1, <2>1, <3>2, Typed DEF RInv, Readers
    <3> QED BY <3>1, <3>2, ReaderOnlyReads
  <2>3. Follows(s, u)'
    BY <1>2, <2>2, FollowsKept
  <2> QED BY <2>1, <2>3 DEF Follows, Content, VerAt, Upto, RowsOf
<1> QED BY <1>1, <1>3 DEF RInv

\* A reader's cursor stays put unless it merges.
LEMMA ReadersStay ==
  ASSUME RInv, [Next]_vars, NEW d \in Readers, ~Merge(d)
  PROVE  db'[d] = db[d]
<1>1. db' = db \/ db'[d] = db[d] \/ ~Reads(d)
  BY DEF Reads, FetchPage, FetchFails, ReadMeta, PullDone, ListPending, List, Kill, Start
<1> QED BY <1>1, ReaderOnlyReads

\* A merge is of one reader and takes it one row further.
LEMMA ReaderMerges ==
  ASSUME RInv, NEW d \in Readers, Merge(d)
  PROVE  /\ log' = log /\ \A c \in Devices \ {d} : db'[c] = db[c]
         /\ Advances(db[d], db'[d])
<1>1. /\ TypeOK /\ LogOK /\ Follows(db[d], run[d]) /\ Informed(db[d]) /\ Aware(run[d])
      /\ db[d] \in Stores /\ run[d] \in Runs /\ db \in [Devices -> Stores]
  BY Typed DEF RInv, IInv, TypeOK, Readers
<1>2. run[d].at = "merge"
  BY DEF Merge, At
<1>3. log' = log /\ db' = [db EXCEPT ![d] = MergeChange(db[d], run[d].seen, Head(run[d].page))]
  BY <1>1 DEF Merge, Store
<1>4. db'[d] = MergeChange(db[d], run[d].seen, Head(run[d].page))
  BY <1>1, <1>3 DEF Readers
<1> QED BY <1>1, <1>2, <1>3, <1>4, MergeFollows

LEMMA ReadersInit == Init => RInv
<1> SUFFICES ASSUME Init PROVE RInv
  OBVIOUS
<1>1. IInv
  BY Initially
<1>2. ASSUME NEW d \in Readers PROVE Follows(db[d], run[d])
  <2>1. db[d] = [NewStore EXCEPT !.rec = db[d].rec, !.used = db[d].used] /\ run[d] = Idle
    BY CloudSyncAssumption DEF Init, Unsynced, Readers
  <2>2. /\ db[d].outbox = {} /\ db[d].cursor = 0 /\ db[d].conflicts = {}
        /\ \A e \in Ids : db[d].meta[e] = NoMeta
    <3>1. PICK r, v : db[d] = [NewStore EXCEPT !.rec = r, !.used = v]
      BY <2>1
    <3> QED BY <3>1 DEF NewStore
  <2>3. \A e : VerAt(e, 0) \in Nat
    BY <1>1, RowsFinite DEF IInv
  <2>4. NoMeta.st = "synced" /\ NoMeta.ver = 0 /\ ~NoMeta.del
    BY DEF NoMeta
  <2>5. Idle.at = "idle" /\ Idle.page = <<>>
    BY DEF Idle
  <2> QED BY <2>1, <2>2, <2>3, <2>4, <2>5 DEF Follows
<1> QED BY <1>1, <1>2 DEF RInv

\* What readers know of the log stays true.
LEMMA ReadersFollow == Spec => []RInv
BY ReadersInit, ReadersNext, PTL DEF Spec
-----------------------------------------------------------------------------
(* CloudSync implements LogReplica.                                         *)

LogBar   == [i \in DOMAIN log |-> Brief(log[i])]
PosBar   == [d \in Readers |-> db[d].cursor]
HeldBar  == [d \in Readers |-> db[d].rec]
AsideOf(s) == {x.c.seq : x \in s.conflicts}
AsideBar == [d \in Readers |-> AsideOf(db[d])]

\* The abstract actions, of the mapped state.
LEMMA AbstractInit ==
  Replica!Init <=> /\ LogBar = <<>> /\ PosBar = [d \in Readers |-> 0]
                   /\ HeldBar \in [Readers -> [Ids -> Bodies \cup {None}]]
                   /\ AsideBar = [d \in Readers |-> {}]
BY DEF Replica!Init, LogBar, PosBar, HeldBar, AsideBar, AsideOf

LEMMA AbstractVars ==
  Replica!vars' = Replica!vars <=>
    LogBar' = LogBar /\ PosBar' = PosBar /\ HeldBar' = HeldBar /\ AsideBar' = AsideBar
BY DEF Replica!vars, LogBar, PosBar, HeldBar, AsideBar, AsideOf

LEMMA AbstractAddRow ==
  Replica!AddRow <=> /\ \E c \in Replica!Rows : LogBar' = Append(LogBar, c)
                     /\ PosBar' = PosBar /\ HeldBar' = HeldBar /\ AsideBar' = AsideBar
BY DEF Replica!AddRow, LogBar, PosBar, HeldBar, AsideBar, AsideOf

LEMMA AbstractTake ==
  ASSUME NEW d
  PROVE  LET c == LogBar[PosBar[d] + 1]
         IN Replica!Take(d) <=>
              /\ PosBar[d] < Len(LogBar) /\ PosBar' = [PosBar EXCEPT ![d] = @ + 1]
              /\ HeldBar' = [HeldBar EXCEPT ![d][c.ent] = c.body]
              /\ LogBar' = LogBar /\ AsideBar' = AsideBar
BY DEF Replica!Take, Replica!GoOn, Replica!Due, LogBar, PosBar, HeldBar, AsideBar, AsideOf

LEMMA AbstractSetAside ==
  ASSUME NEW d
  PROVE  LET c == LogBar[PosBar[d] + 1]
         IN Replica!SetAside(d) <=>
              /\ PosBar[d] < Len(LogBar) /\ PosBar' = [PosBar EXCEPT ![d] = @ + 1]
              /\ c.body # None
              /\ \E i \in 1..PosBar[d] : LogBar[i] = [ent |-> c.ent, body |-> None]
              /\ AsideBar' = [AsideBar EXCEPT ![d] = @ \cup {PosBar[d] + 1}]
              /\ LogBar' = LogBar /\ HeldBar' = HeldBar
BY DEF Replica!SetAside, Replica!GoOn, Replica!BringsBack, Replica!Due, LogBar, PosBar,
       HeldBar, AsideBar, AsideOf

\* What the changes of a log make of their entities is a log.
LEMMA BriefLog ==
  ASSUME NEW g \in Seq(Change)
  PROVE  LET b == [i \in DOMAIN g |-> Brief(g[i])]
         IN /\ b \in Seq(Replica!Rows) /\ Len(b) = Len(g)
            /\ \A i \in DOMAIN g : b[i] = Brief(g[i])
<1> DEFINE b == [i \in DOMAIN g |-> Brief(g[i])]
<1>1. Len(g) \in Nat /\ DOMAIN g = 1..Len(g) /\ \A i \in DOMAIN g : g[i] \in Change
  OBVIOUS
<1>2. \A c \in Change : Brief(c) \in Replica!Rows
  BY DEF Brief, Makes, Change, Replica!Rows
<1>3. b \in [1..Len(g) -> Replica!Rows]
  BY <1>1, <1>2
<1> QED BY <1>1, <1>3

LEMMA LogBarSeq ==
  ASSUME TypeOK
  PROVE  /\ LogBar \in Seq(Replica!Rows) /\ Len(LogBar) = Len(log)
         /\ \A i \in DOMAIN log : LogBar[i] = Brief(log[i])
BY BriefLog DEF TypeOK, LogBar

LEMMA MergeIsNext ==
  ASSUME RInv, NEW d \in Readers, Merge(d)
  PROVE  Replica!Take(d) \/ Replica!SetAside(d)
<1> DEFINE s == db[d]
           t == db'[d]
           n == s.cursor
           c == log[n + 1]
<1>1. /\ TypeOK /\ db \in [Devices -> Stores] /\ d \in Devices /\ s \in Stores /\ n \in Nat
  BY DEF RInv, IInv, TypeOK, Readers, Stores
<1>2. /\ log' = log /\ \A b \in Devices \ {d} : db'[b] = db[b]
      /\ n + 1 \in DOMAIN log /\ t.cursor = n + 1
      /\ Applies(s, t) \/ Parks(s, t)
  BY ReaderMerges DEF Advances
<1>3. c \in Change /\ LogBar[n + 1] = Brief(c) /\ Len(LogBar) = Len(log)
      /\ LogOK /\ \A i \in DOMAIN log : LogBar[i] = Brief(log[i])
  <2>1. log \in Seq(Change) /\ LogOK
    BY DEF RInv, IInv, TypeOK
  <2> QED BY <1>1, <1>2, <2>1, LogBarSeq
<1>4. PosBar[d] = n /\ n < Len(LogBar) /\ LogBar' = LogBar
  BY <1>1, <1>2, <1>3, RowsFinite DEF PosBar, LogBar
<1>5. PosBar' = [PosBar EXCEPT ![d] = @ + 1]
  <2>1. \A b \in Readers : db'[b].cursor = IF b = d THEN n + 1 ELSE db[b].cursor
    BY <1>2 DEF Readers
  <2> QED BY <2>1 DEF PosBar
<1>6. Brief(c).ent = c.ent /\ Brief(c).body = Makes(c)
  BY DEF Brief
<1>7. CASE Applies(s, t)
  <2>1. t.rec = [s.rec EXCEPT ![c.ent] = Makes(c)] /\ t.conflicts = s.conflicts
    BY <1>7 DEF Applies
  <2>2. HeldBar' = [HeldBar EXCEPT ![d][c.ent] = Makes(c)]
    <3>1. \A b \in Readers : db'[b].rec = IF b = d THEN [s.rec EXCEPT ![c.ent] = Makes(c)]
                                          ELSE db[b].rec
      BY <1>2, <2>1 DEF Readers
    <3> QED BY <3>1 DEF HeldBar
  <2>3. AsideBar' = AsideBar
    <3>1. \A b \in Readers : db'[b].conflicts = db[b].conflicts
      BY <1>2, <2>1 DEF Readers
    <3> QED BY <3>1 DEF AsideBar, AsideOf
  <2> HIDE DEF c
  <2> QED BY <1>3, <1>4, <1>5, <1>6, <2>2, <2>3, AbstractTake
<1>8. CASE Parks(s, t)
  <2>1. /\ t.rec = s.rec /\ t.conflicts = s.conflicts \cup {[c |-> c, st |-> "pending"]}
        /\ c.op # "delete" /\ \E i \in Upto(c.ent, n) : log[i].op = "delete"
    BY <1>8 DEF Parks
  <2>2. HeldBar' = HeldBar
    <3>1. \A b \in Readers : db'[b].rec = db[b].rec
      BY <1>2, <2>1 DEF Readers
    <3> QED BY <3>1 DEF HeldBar
  <2>3. c.seq = n + 1
    BY <1>2, <1>3 DEF LogOK
  <2>4. AsideOf(t) = AsideOf(s) \cup {n + 1}
    <3> DEFINE x0 == [c |-> c, st |-> "pending"]
    <3>1. x0.c.seq = n + 1 /\ t.conflicts = s.conflicts \cup {x0}
      BY <2>1, <2>3
    <3> HIDE DEF x0, c, n, t, s
    <3> QED BY <3>1 DEF AsideOf
  <2>5. AsideBar' = [AsideBar EXCEPT ![d] = @ \cup {n + 1}]
    <3>1. \A b \in Readers : AsideOf(db'[b]) = IF b = d THEN AsideOf(s) \cup {n + 1}
                                               ELSE AsideOf(db[b])
      BY <1>2, <2>4 DEF Readers
    <3> QED BY <3>1 DEF AsideBar
  <2>6. Brief(c).body # None
    BY <1>3, <1>6, <2>1, BodiesAssumption DEF Makes, Change
  <2>7. \E i \in 1..n : LogBar[i] = [ent |-> c.ent, body |-> None]
    <3>1. PICK i \in Upto(c.ent, n) : log[i].op = "delete"
      BY <2>1
    <3>2. i \in DOMAIN log /\ log[i].ent = c.ent /\ i <= n
      BY <3>1 DEF Upto, RowsOf
    <3>3. i \in 1..n
      BY <1>1, <3>2, RowsFinite
    <3>4. LogBar[i] = [ent |-> c.ent, body |-> None]
      BY <1>3, <3>1, <3>2 DEF Brief, Makes
    <3> QED BY <3>3, <3>4
  <2> HIDE DEF c
  <2> QED BY <1>3, <1>4, <1>5, <1>6, <2>2, <2>5, <2>6, <2>7, AbstractSetAside
<1> QED BY <1>2, <1>7, <1>8

\* Whatever else happens adds at most one row to the log.
LEMMA OthersAreAddRow ==
  ASSUME RInv, [Next]_vars, \A d \in Readers : ~Merge(d)
  PROVE  Replica!AddRow \/ Replica!vars' = Replica!vars
<1>1. TypeOK /\ TypeOK'
  BY NextStep DEF RInv, IInv
<1>2. \A d \in Readers : db'[d] = db[d]
  BY ReadersStay
<1>3. PosBar' = PosBar /\ HeldBar' = HeldBar /\ AsideBar' = AsideBar
  BY <1>2 DEF PosBar, HeldBar, AsideBar
<1>4. CASE log' = log
  <2>1. LogBar' = LogBar
    BY <1>4 DEF LogBar
  <2> QED BY <1>3, <2>1, AbstractVars
<1>5. ASSUME NEW c, log' = Append(log, c) PROVE Replica!AddRow
  <2>1. log \in Seq(Change) /\ log' \in Seq(Change) /\ Len(log) \in Nat
    BY <1>1 DEF TypeOK
  <2>2. c \in Change
    <3>1. Len(log') = Len(log) + 1 /\ log'[Len(log) + 1] = c
      BY <1>5, <2>1
    <3>2. Len(log) + 1 \in DOMAIN log'
      BY <2>1, <3>1
    <3> QED BY <2>1, <3>1, <3>2
  <2>3. Brief(c) \in Replica!Rows
    BY <2>2 DEF Brief, Makes, Change, Replica!Rows
  <2>4. LogBar' = Append(LogBar, Brief(c))
    <3>1. LogBar \in Seq(Replica!Rows) /\ Len(LogBar) = Len(log)
          /\ \A i \in DOMAIN log : LogBar[i] = Brief(log[i])
      BY <1>1, LogBarSeq
    <3>2. LogBar' \in Seq(Replica!Rows) /\ Len(LogBar') = Len(log')
          /\ \A i \in DOMAIN log' : LogBar'[i] = Brief(log'[i])
      BY <2>1, BriefLog DEF LogBar
    <3>3. Len(log') = Len(log) + 1 /\ DOMAIN log = 1..Len(log) /\ DOMAIN log' = 1..(Len(log) + 1)
          /\ log'[Len(log) + 1] = c /\ \A i \in DOMAIN log : log'[i] = log[i]
      BY <1>5, <2>1
    <3> DEFINE A == Append(LogBar, Brief(c))
    <3>4. A \in Seq(Replica!Rows) /\ Len(A) = Len(log) + 1 /\ A[Len(log) + 1] = Brief(c)
          /\ \A i \in DOMAIN log : A[i] = LogBar[i]
      BY <2>1, <2>3, <3>1, <3>3
    <3> HIDE DEF A
    <3>5. \A i \in 1..(Len(log) + 1) : A[i] = LogBar'[i]
      <4>1. \A i \in 1..(Len(log) + 1) : i \in DOMAIN log \/ i = Len(log) + 1
        BY <2>1, <3>3
      <4>2. \A i \in 1..(Len(log) + 1) : LogBar'[i] = Brief(log'[i])
        BY <3>2, <3>3
      <4>3. \A i \in DOMAIN log : A[i] = Brief(log'[i])
        BY <3>1, <3>3, <3>4
      <4>4. A[Len(log) + 1] = Brief(log'[Len(log) + 1])
        BY <3>3, <3>4
      <4> QED BY <4>1, <4>2, <4>3, <4>4
    <3>6. A = LogBar'
      BY <2>1, <3>2, <3>3, <3>4, <3>5
    <3> QED BY <3>6 DEF A
  <2> QED BY <1>3, <2>3, <2>4, AbstractAddRow
<1>6. log' = log \/ \E q : log' = Logged(q)
  BY LogSteps DEF RInv
<1>7. log' = log \/ \E c : log' = Append(log, c)
  BY <1>6 DEF Logged
<1> QED BY <1>4, <1>5, <1>7

LEMMA ReplicaInit == Init => Replica!Init
<1> SUFFICES ASSUME Init PROVE Replica!Init
  OBVIOUS
<1>1. LogBar = <<>>
  BY DEF Init, LogBar
<1>2. \A d \in Readers : /\ db[d].cursor = 0 /\ db[d].conflicts = {}
                         /\ db[d].rec \in [Ids -> Bodies \cup {None}]
  <2> SUFFICES ASSUME NEW d \in Readers
               PROVE  /\ db[d].cursor = 0 /\ db[d].conflicts = {}
                      /\ db[d].rec \in [Ids -> Bodies \cup {None}]
    OBVIOUS
  <2>1. PICK s : s = db[d]
    OBVIOUS
  <2>2. Unsynced(s)
    BY <2>1, CloudSyncAssumption DEF Init, Readers
  <2>3. s.cursor = 0 /\ s.conflicts = {} /\ s.rec \in [Ids -> Bodies \cup {None}]
    BY <2>2 DEF Unsynced, NewStore
  <2> QED BY <2>1, <2>3
<1> QED BY <1>1, <1>2, AbstractInit DEF PosBar, HeldBar, AsideBar, AsideOf

\* A device nothing is edited on goes through the log row by row: what pages,
\* lost answers, kills and the reads before a merge do in between is not seen
\* in its records, and it parks no row but one that brings back an entity
\* deleted before.
THEOREM ReplicaImplemented == Spec => ImplementsReplica
<1>1. RInv /\ [Next]_vars => [Replica!Next]_(Replica!vars)
  <2> SUFFICES ASSUME RInv, [Next]_vars PROVE Replica!Next \/ Replica!vars' = Replica!vars
    OBVIOUS
  <2>1. CASE \E d \in Readers : Merge(d)
    BY <2>1, MergeIsNext DEF Replica!Next
  <2>2. CASE \A d \in Readers : ~Merge(d)
    BY <2>2, OthersAreAddRow DEF Replica!Next
  <2> QED BY <2>1, <2>2
<1> QED BY <1>1, ReadersFollow, ReplicaInit, PTL DEF Spec, ImplementsReplica, Replica!Spec
-----------------------------------------------------------------------------
(* A reader that starts with nothing.                                       *)

FreshReaders == \A d \in Readers : First[d] = NewStore

\* What is not in conflict is the log's.
Mirrors(s) ==
  \A e \in Ids : (\A x \in s.conflicts : x.c.ent # e) => s.rec[e] = Content(e, s.cursor)

MInv == RInv /\ \A d \in Readers : Mirrors(db[d])

LEMMA AdvanceMirrors ==
  ASSUME TypeOK, LogOK, NEW s \in Stores, Mirrors(s), NEW t \in Stores, Advances(s, t)
  PROVE  Mirrors(t)
<1> DEFINE n == s.cursor
           c == log[n + 1]
<1>1. n \in Nat /\ n + 1 \in DOMAIN log /\ t.cursor = n + 1 /\ c \in Change
      /\ s.rec \in [Ids -> Bodies \cup {None}]
  BY DEF Stores, Advances, TypeOK
<1>2. /\ Content(c.ent, n + 1) = Makes(c)
      /\ \A e : e # c.ent => Content(e, n + 1) = Content(e, n)
  BY <1>1, NextContent DEF Makes
<1>3. CASE Applies(s, t)
  <2>1. t.rec = [s.rec EXCEPT ![c.ent] = Makes(c)] /\ t.conflicts = s.conflicts
    BY <1>3 DEF Applies
  <2> HIDE DEF c, n
  <2>2. \A e \in Ids : t.rec[e] = IF e = c.ent THEN Makes(c) ELSE s.rec[e]
    BY <1>1, <2>1
  <2> QED BY <1>1, <1>2, <2>1, <2>2 DEF Mirrors, n
<1>4. CASE Parks(s, t)
  <2>1. t.rec = s.rec /\ s.conflicts \subseteq t.conflicts /\ \E x \in t.conflicts : x.c = c
    <3>1. t.rec = s.rec /\ t.conflicts = s.conflicts \cup {[c |-> c, st |-> "pending"]}
      BY <1>4 DEF Parks
    <3>2. [c |-> c, st |-> "pending"].c = c
      OBVIOUS
    <3> HIDE DEF c
    <3> QED BY <3>1, <3>2
  <2> HIDE DEF c, n
  <2> QED BY <1>1, <1>2, <2>1 DEF Mirrors, n
<1> QED BY <1>3, <1>4 DEF Advances

LEMMA MirrorsNext == MInv /\ [Next]_vars => MInv'
<1> SUFFICES ASSUME MInv, [Next]_vars PROVE MInv'
  OBVIOUS
<1>1. RInv /\ RInv' /\ TypeOK /\ LogOK /\ Grows
  BY ReadersNext, EveryStepGrows DEF MInv, RInv, IInv
<1>2. ASSUME NEW d \in Readers PROVE Mirrors(db[d])'
  <2>1. PICK s : s = db'[d]
    OBVIOUS
  <2>2. s \in Stores /\ db[d] \in Stores /\ Mirrors(db[d]) /\ s.cursor \in 0..Len(log)
    <3>1. s \in Stores /\ db[d] \in Stores /\ Informed(db[d])
      BY <1>1, <2>1 DEF RInv, IInv, TypeOK, Readers
    <3>2. s.cursor = db[d].cursor \/ (s.cursor \in DOMAIN log)
      BY <1>1, <2>1, ReadersStay, ReaderMerges DEF Advances
    <3> QED BY <1>1, <3>1, <3>2, RowsFinite DEF MInv, Informed, Stores
  <2>3. Mirrors(s)
    <3>1. CASE Merge(d)
      BY <1>1, <2>1, <2>2, <3>1, ReaderMerges, AdvanceMirrors
    <3>2. CASE ~Merge(d)
      BY <1>1, <2>1, <2>2, <3>2, ReadersStay
    <3> QED BY <3>1, <3>2
  <2>4. \A e : Content(e, s.cursor)' = Content(e, s.cursor)
    BY <1>1, <2>2, ContentKept
  <2>5. \A e \in Ids : (\A x \in s.conflicts : x.c.ent # e) => s.rec[e] = Content(e, s.cursor)'
    BY <2>3, <2>4 DEF Mirrors
  <2> QED BY <2>1, <2>5 DEF Mirrors, Content, RowsOf
<1> QED BY <1>1, <1>2 DEF MInv

LEMMA MirrorsInit == Init /\ FreshReaders => MInv
<1> SUFFICES ASSUME Init, FreshReaders PROVE MInv
  OBVIOUS
<1>1. RInv
  BY ReadersInit
<1>2. ASSUME NEW d \in Readers PROVE Mirrors(db[d])
  <2>1. db[d] = NewStore /\ log = <<>>
    BY DEF Init, FreshReaders, Readers
  <2>2. \A e \in Ids : Content(e, 0) = None
    BY <2>1 DEF Content, RowsOf
  <2> QED BY <2>1, <2>2 DEF NewStore, Mirrors
<1> QED BY <1>1, <1>2 DEF MInv

\* Whatever is lost, answered late or cut short, and however the writers'
\* pushes interleave with its pulls, a device that nothing is edited on and
\* that starts empty holds the log up to its cursor, save what is in conflict.
THEOREM ReaderMirrorsCorrect == Spec /\ FreshReaders => []ReaderMirrors
<1>1. MInv => ReaderMirrors
  BY DEF MInv, Mirrors, ReaderMirrors, Readers
<1> QED BY <1>1, MirrorsInit, MirrorsNext, PTL DEF Spec
-----------------------------------------------------------------------------
(* What is shown as synced.  A record is always what the hash beside it     *)
(* says, and that hash is of a row the backend logged, or of the last row   *)
(* queued for the record, or of a delete that waits to be sent.             *)

Made(h) == IF h[1] = "delete" THEN None ELSE h[2]

Logs(e, h) == \E i \in RowsOf(e) : Hash(log[i]) = h

LastQueued(o, e, h) ==
  \E r \in o : /\ r.ent = e /\ r.op # "delete" /\ Hash(r) = h
               /\ \A x \in o : x.ent = e => x.id <= r.id

SettledAt(s, e) ==
  s.meta[e].hash # None =>
    /\ s.rec[e] = Made(s.meta[e].hash)
    /\ \/ Logs(e, s.meta[e].hash)
       \/ LastQueued(s.outbox, e, s.meta[e].hash)
       \/ s.meta[e].st = "pendingDelete"

Settled(s) == \A e \in Ids : SettledAt(s, e)

\* The rows a run has in hand are those of the outbox, or gone from there;
\* one it is to drop, save a delete, is not the last of its record.
InStep(s, u) ==
  /\ \A p \in u.fold \cup u.todo :
       /\ p.id < s.clock /\ p.at = p.id
       /\ \A x \in s.outbox : x.id = p.id => x.ent = p.ent /\ Hash(x) = Hash(p)
  /\ u.at # "fold" => u.fold = {}
  /\ \A r \in u.fold : r.op # "delete" =>
       \A x \in s.outbox : x.id = r.id =>
         \E d \in s.outbox : d.ent = r.ent /\ r.id < d.id
  /\ u.at = "delete" => Hash(log[u.ack]) = Hash(FirstIn(u.todo))

SInv == IInv /\ \A d \in Devices : Settled(db[d]) /\ InStep(db[d], run[d])

LEMMA SettledKept ==
  ASSUME Grows, NEW s, Settled(s) PROVE Settled(s)'
<1>1. ASSUME NEW e, NEW h, Logs(e, h) PROVE Logs(e, h)'
  BY <1>1 DEF Grows, Logs, RowsOf
<1> QED BY <1>1 DEF Settled, SettledAt

LEMMA InStepKept ==
  ASSUME Grows, NEW s, NEW u, Aware(u), InStep(s, u) PROVE InStep(s, u)'
BY DEF Grows, InStep, Aware

LEMMA EnqueueSettled ==
  ASSUME NEW s \in Stores, Informed(s), NEW e \in Ids, NEW op \in Operations, NEW b \in Bodies,
         s.rec[e] = Made(<<op, b>>), \A f \in Ids \ {e} : SettledAt(s, f)
  PROVE  Settled(EnqueueChange(s, e, op, b))
<1> DEFINE r == [id |-> s.clock, at |-> s.clock, ent |-> e, op |-> op, body |-> b,
                 gid |-> NoGroup, lseq |-> 0, late |-> FALSE]
           m == Upsert(s.meta[e], StatusFor(op), 0, <<op, b>>)
           t == EnqueueChange(s, e, op, b)
<1>1. /\ t.rec = s.rec /\ t.outbox = s.outbox \cup {r}
      /\ t.meta = [s.meta EXCEPT ![e] = m] /\ s.meta \in [Ids -> Meta]
  BY DEF EnqueueChange, Stores
<1>2. m.hash = <<op, b>> /\ m.st = StatusFor(op)
  BY CloudSyncAssumption DEF Upsert
<1>3. r.id = s.clock /\ r.ent = e /\ r.op = op /\ Hash(r) = <<op, b>>
  BY DEF Hash
<1>4. \A x \in s.outbox : x.id < s.clock /\ x.id \in Nat
  BY DEF Informed, Stores, Row
<1>5. s.clock \in Nat
  BY DEF Stores
<1> HIDE DEF r, m, t
<1>6. SettledAt(t, e)
  <2>1. t.meta[e] = m
    BY <1>1
  <2>2. CASE op = "delete"
    BY <1>1, <1>2, <2>1, <2>2 DEF SettledAt, StatusFor
  <2>3. CASE op # "delete"
    <3>1. LastQueued(t.outbox, e, <<op, b>>)
      BY <1>1, <1>3, <1>4, <1>5, <2>3 DEF LastQueued
    <3> QED BY <1>1, <1>2, <2>1, <3>1 DEF SettledAt
  <2> QED BY <2>2, <2>3
<1>7. ASSUME NEW f \in Ids \ {e} PROVE SettledAt(t, f)
  <2>1. t.meta[f] = s.meta[f] /\ t.rec[f] = s.rec[f]
    BY <1>1
  <2>2. \A h : LastQueued(s.outbox, f, h) => LastQueued(t.outbox, f, h)
    BY <1>1, <1>3 DEF LastQueued
  <2> QED BY <2>1, <2>2 DEF SettledAt
<1> QED BY <1>6, <1>7 DEF Settled, t

LEMMA SettledSame ==
  ASSUME NEW s, NEW t, Settled(s), t.rec = s.rec, t.meta = s.meta, t.outbox = s.outbox
  PROVE  Settled(t)
BY DEF Settled, SettledAt

LEMMA ApplySettled ==
  ASSUME TypeOK, LogOK, NEW s \in Stores, Settled(s), NEW c, InLog(c)
  PROVE  Settled(ApplyRemote(s, c))
<1> DEFINE t == ApplyRemote(s, c)
           b == IF c.op = "delete" THEN None ELSE c.body
           m == [st |-> "synced", ver |-> c.ver, hash |-> Hash(c), del |-> c.op = "delete"]
<1>1. t.rec = [s.rec EXCEPT ![c.ent] = b] /\ t.meta = [s.meta EXCEPT ![c.ent] = m]
      /\ t.outbox = s.outbox
  BY DEF ApplyRemote, Stores
<1>2. s.rec \in [Ids -> Bodies \cup {None}] /\ s.meta \in [Ids -> Meta]
  BY DEF Stores
<1>3. c.ent \in Ids /\ c.seq \in RowsOf(c.ent) /\ c = log[c.seq]
  BY RowVersion DEF RowsOf, Change
<1>4. m.hash = Hash(c) /\ b = Made(Hash(c))
  BY DEF Hash, Made
<1>5. Logs(c.ent, Hash(c))
  BY <1>3 DEF Logs
<1> HIDE DEF t, b, m
<1>6. ASSUME NEW f \in Ids PROVE SettledAt(t, f)
  <2>1. CASE f = c.ent
    <3>1. t.rec[f] = b /\ t.meta[f] = m
      BY <1>1, <1>2, <1>3, <2>1
    <3> QED BY <1>4, <1>5, <2>1, <3>1 DEF SettledAt
  <2>2. CASE f # c.ent
    <3>1. t.rec[f] = s.rec[f] /\ t.meta[f] = s.meta[f]
      BY <1>1, <1>2, <2>2
    <3> QED BY <1>1, <3>1 DEF SettledAt, Settled
  <2> QED BY <2>1, <2>2
<1> QED BY <1>6 DEF Settled, t

LEMMA MergeSettled ==
  ASSUME TypeOK, LogOK, NEW s \in Stores, Settled(s), NEW m, NEW c, InLog(c)
  PROVE  /\ Settled(MergeChange(s, m, c))
         /\ MergeChange(s, m, c).outbox = s.outbox /\ MergeChange(s, m, c).clock = s.clock
<1> DEFINE t == MergeChange(s, m, c)
<1>1. PICK w : /\ t = WriteCursor(w, c.seq) /\ Settled(w) /\ w.outbox = s.outbox
               /\ w.clock = s.clock
               /\ DOMAIN w = DOMAIN s
  <2>1. CASE Agrees(m, c) /\ AlreadyApplied(m, c)
    BY <2>1 DEF MergeChange
  <2>2. CASE Agrees(m, c) /\ ~AlreadyApplied(m, c)
    <3>1. t = WriteCursor(ApplyRemote(s, c), c.seq)
      BY <2>2 DEF MergeChange
    <3>2. ApplyRemote(s, c).outbox = s.outbox /\ ApplyRemote(s, c).clock = s.clock
          /\ DOMAIN ApplyRemote(s, c) = DOMAIN s
      BY DEF ApplyRemote, Stores
    <3> QED BY <3>1, <3>2, ApplySettled
  <2>3. CASE ~Agrees(m, c)
    <3>1. t = WriteCursor(Park(s, c), c.seq)
      BY <2>3 DEF MergeChange
    <3>2. Park(s, c).rec = s.rec /\ Park(s, c).meta = s.meta /\ Park(s, c).outbox = s.outbox
          /\ Park(s, c).clock = s.clock /\ DOMAIN Park(s, c) = DOMAIN s
      BY DEF Park, Stores
    <3> QED BY <3>1, <3>2, SettledSame
  <2> QED BY <2>1, <2>2, <2>3
<1>2. t.rec = w.rec /\ t.meta = w.meta /\ t.outbox = w.outbox /\ t.clock = w.clock
  BY <1>1 DEF WriteCursor, Stores
<1> QED BY <1>1, <1>2, SettledSame

\* A row may go when the backend has it, or when it is not the last one.
LEMMA DeleteSettled ==
  ASSUME NEW s \in Stores, Settled(s), NEW r,
         \A x \in s.outbox : x.id = r.id =>
           \/ Logs(x.ent, Hash(x)) \/ x.op = "delete"
           \/ \E d \in s.outbox : d.ent = x.ent /\ ~(d.id <= x.id)
  PROVE  Settled(DeleteRow(s, r))
<1> DEFINE t == DeleteRow(s, r)
<1>1. t.rec = s.rec /\ t.meta = s.meta /\ t.outbox = {x \in s.outbox : x.id # r.id}
  BY DEF DeleteRow, Stores
<1> HIDE DEF t
<1>2. ASSUME NEW e, NEW h, LastQueued(s.outbox, e, h)
      PROVE  LastQueued(t.outbox, e, h) \/ Logs(e, h)
  <2>1. PICK x \in s.outbox : /\ x.ent = e /\ x.op # "delete" /\ Hash(x) = h
                              /\ \A y \in s.outbox : y.ent = e => y.id <= x.id
    BY <1>2 DEF LastQueued
  <2>2. CASE x.id = r.id
    BY <2>1, <2>2
  <2>3. CASE x.id # r.id
    BY <1>1, <2>1, <2>3 DEF LastQueued
  <2> QED BY <2>2, <2>3
<1> QED BY <1>1, <1>2 DEF Settled, SettledAt, t

LEMMA FailedSettled ==
  ASSUME NEW s \in Stores, Settled(s), NEW r
  PROVE  Settled(MarkFailed(s, r))
<1> DEFINE late1(x) == IF x.id = r.id THEN [x EXCEPT !.late = TRUE] ELSE x
           t == MarkFailed(s, r)
<1>1. t.rec = s.rec /\ t.meta = s.meta /\ t.outbox = {late1(x) : x \in s.outbox}
  BY DEF MarkFailed, Stores
<1>2. \A x \in s.outbox : /\ late1(x).id = x.id /\ late1(x).ent = x.ent
                           /\ late1(x).op = x.op /\ Hash(late1(x)) = Hash(x)
  BY DEF Stores, Row, Hash
<1> HIDE DEF late1, t
<1>3. ASSUME NEW e, NEW h, LastQueued(s.outbox, e, h) PROVE LastQueued(t.outbox, e, h)
  <2>1. PICK x \in s.outbox : /\ x.ent = e /\ x.op # "delete" /\ Hash(x) = h
                              /\ \A y \in s.outbox : y.ent = e => y.id <= x.id
    BY <1>3 DEF LastQueued
  <2>2. late1(x) \in t.outbox
    BY <1>1
  <2>3. \A y \in t.outbox : y.ent = e => y.id <= late1(x).id
    BY <1>1, <1>2, <2>1
  <2> QED BY <1>2, <2>1, <2>2, <2>3 DEF LastQueued
<1> QED BY <1>1, <1>3 DEF Settled, SettledAt, t

LEMMA AcknowledgeSettled ==
  ASSUME NEW s \in Stores, Settled(s), NEW r \in Row, NEW v
  PROVE  Settled(MarkPushAcknowledged(s, r, v))
<1> DEFINE m == [s.meta[r.ent] EXCEPT !.st = "synced", !.ver = v]
           t == [s EXCEPT !.meta = [s.meta EXCEPT ![r.ent] = m]]
<1>1. r.ent \in Ids /\ s.meta \in [Ids -> Meta] /\ r.op \in Operations
  BY DEF Row, Stores
<1>2. m.hash = s.meta[r.ent].hash
  BY <1>1 DEF Meta
<1> HIDE DEF m
<1>3. t.rec = s.rec /\ t.meta = [s.meta EXCEPT ![r.ent] = m] /\ t.outbox = s.outbox
  BY DEF Stores
<1> HIDE DEF t
<1>4. CASE r.op # "delete" /\ s.meta[r.ent].st = StatusFor(r.op)
  <2>1. s.meta[r.ent].st # "pendingDelete"
    BY <1>1, <1>4 DEF StatusFor, Operations
  <2>2. \A f \in Ids : /\ t.meta[f].hash = s.meta[f].hash
                       /\ f # r.ent => t.meta[f] = s.meta[f]
    BY <1>1, <1>2, <1>3
  <2>3. \A f \in Ids : SettledAt(t, f)
    BY <1>3, <2>1, <2>2 DEF Settled, SettledAt
  <2>4. MarkPushAcknowledged(s, r, v) = t
    BY <1>4 DEF MarkPushAcknowledged, Stores, t, m
  <2> QED BY <2>3, <2>4 DEF Settled
<1>5. CASE ~(r.op # "delete" /\ s.meta[r.ent].st = StatusFor(r.op))
  BY <1>5 DEF MarkPushAcknowledged
<1> QED BY <1>4, <1>5

\* A run that holds on to less, and is not about to delete a row.
LEMMA InStepLess ==
  ASSUME NEW s, NEW w, NEW u, InStep(s, w),
         u.fold = {}, u.todo \subseteq w.todo, u.at # "delete"
  PROVE  InStep(s, u)
BY DEF InStep

\* New rows get new ids, and rows leave the outbox by the record.
LEMMA InStepEdit ==
  ASSUME NEW s \in Stores, Informed(s), NEW t \in Stores, NEW u \in Runs, InStep(s, u),
         s.clock <= t.clock,
         \A x \in t.outbox : x \in s.outbox \/ x.id = s.clock,
         \A x \in s.outbox, y \in t.outbox : x.ent = y.ent => x \in t.outbox
  PROVE  InStep(t, u)
<1>1. s.clock \in Nat /\ t.clock \in Nat /\ \A p \in u.fold \cup u.todo : p.id \in Nat
  BY DEF Stores, Runs, Row
<1>2. ASSUME NEW p \in u.fold \cup u.todo, NEW x \in t.outbox, x.id = p.id
      PROVE  x \in s.outbox /\ x.ent = p.ent /\ Hash(x) = Hash(p)
  <2>1. p.id < s.clock
    BY DEF InStep
  <2>2. x \in s.outbox
    BY <1>1, <1>2, <2>1
  <2> QED BY <1>2, <2>2 DEF InStep
<1>3. \A p \in u.fold \cup u.todo : p.id < t.clock /\ p.at = p.id
  <2>1. \A p \in u.fold \cup u.todo : p.id < s.clock /\ p.at = p.id
    BY DEF InStep
  <2> QED BY <1>1, <2>1
<1>4. ASSUME NEW r \in u.fold, r.op # "delete", NEW x \in t.outbox, x.id = r.id
      PROVE  \E d \in t.outbox : d.ent = r.ent /\ r.id < d.id
  <2>1. x \in s.outbox /\ x.ent = r.ent
    BY <1>2, <1>4
  <2>2. PICK d \in s.outbox : d.ent = r.ent /\ r.id < d.id
    BY <1>4, <2>1 DEF InStep
  <2> QED BY <2>1, <2>2
<1>5. (u.at # "fold" => u.fold = {}) /\ (u.at = "delete" => Hash(log[u.ack]) = Hash(FirstIn(u.todo)))
  BY DEF InStep
<1> QED BY <1>2, <1>3, <1>4, <1>5 DEF InStep

LEMMA SettledTyped ==
  ASSUME SInv, NEW d \in Devices
  PROVE  /\ IInv /\ TypeOK /\ LogOK
         /\ db[d] \in Stores /\ Informed(db[d]) /\ Settled(db[d])
         /\ run[d] \in Runs /\ Aware(run[d]) /\ InStep(db[d], run[d])
         /\ db \in [Devices -> Stores] /\ run \in [Devices -> Runs]
BY Typed DEF SInv, IInv, TypeOK

\* What a step of one device leaves in place.
Leaves(d) ==
  \E s, u : /\ db' = [db EXCEPT ![d] = s] /\ run' = [run EXCEPT ![d] = u]
            /\ Settled(s) /\ InStep(s, u) /\ log' = log

LEMMA LeavesKept ==
  ASSUME SInv, IInv', Grows, NEW d \in Devices, Leaves(d)
  PROVE  SInv'
<1>1. IInv /\ IInv' /\ Grows
  BY DEF SInv
<1>2. PICK s, u : /\ db' = [db EXCEPT ![d] = s] /\ run' = [run EXCEPT ![d] = u]
                  /\ Settled(s) /\ InStep(s, u) /\ log' = log
  BY DEF Leaves
<1>3. ASSUME NEW c \in Devices PROVE Settled(db[c])' /\ InStep(db[c], run[c])'
  <2>1. PICK t, v : t = db'[c] /\ v = run'[c]
    OBVIOUS
  <2>2. Settled(t) /\ InStep(t, v)
    BY <1>2, <2>1, SettledTyped
  <2>3. Settled(t)' /\ InStep(t, v)'
    <3>1. Settled(t)'
      BY <1>1, <2>2, SettledKept
    <3> QED BY <1>2, <2>2, <3>1 DEF InStep
  <2> QED BY <2>1, <2>3 DEF Settled, SettledAt, Logs, RowsOf, InStep
<1> QED BY <1>1, <1>3 DEF SInv

LEMMA LeaveGoto ==
  ASSUME SInv, NEW d \in Devices, NEW s, Settled(s), InStep(s, run[d]), run[d].at # "fold",
         db' = [db EXCEPT ![d] = s], NEW p \in Places \ {"delete"}, Goto(d, p), log' = log
  PROVE  Leaves(d)
<1> DEFINE u == [run[d] EXCEPT !.at = p]
<1>1. run' = [run EXCEPT ![d] = u]
  BY DEF Goto
<1>2. u.at = p /\ u.fold = {} /\ u.todo = run[d].todo
  BY SettledTyped DEF InStep, Runs
<1> HIDE DEF u
<1>3. InStep(s, u)
  BY <1>2, InStepLess
<1> QED BY <1>1, <1>3 DEF Leaves

LEMMA LeaveNextRow ==
  ASSUME SInv, NEW d \in Devices, NEW s, Settled(s), InStep(s, run[d]),
         NextRow(d, s), log' = log
  PROVE  Leaves(d)
<1> DEFINE u == Pushing({}, run[d].todo \ {Current(d)})
<1>1. run' = [run EXCEPT ![d] = u] /\ db' = [db EXCEPT ![d] = s]
  BY SettledTyped DEF NextRow, Store
<1>2. u.at \in {"send", "idle"} /\ u.fold = {} /\ u.todo \subseteq run[d].todo
  BY DEF Pushing, Idle
<1> HIDE DEF u
<1>3. InStep(s, u)
  BY <1>2, InStepLess
<1> QED BY <1>1, <1>3 DEF Leaves

LEMMA LeaveRead ==
  ASSUME SInv, NEW d \in Devices,
         FetchPage(d) \/ FetchFails(d) \/ ReadMeta(d) \/ Merge(d) \/ PullDone(d)
           \/ Kill(d) \/ Start(d)
  PROVE  Leaves(d)
<1>1. /\ IInv /\ TypeOK /\ LogOK /\ db[d] \in Stores /\ run[d] \in Runs
      /\ Informed(db[d]) /\ Aware(run[d])
      /\ Settled(db[d]) /\ InStep(db[d], run[d]) /\ db = [db EXCEPT ![d] = db[d]]
  BY SettledTyped, Typed
<1>2. CASE FetchPage(d)
  <2> DEFINE u == [Idle EXCEPT !.at = "pull", !.page = Page(db[d].cursor)]
  <2>1. u.fold = {} /\ u.todo = {} /\ u.at = "pull"
    BY DEF Idle
  <2>2. run' = [run EXCEPT ![d] = u] /\ db' = db /\ log' = log
    BY <1>2 DEF FetchPage
  <2> HIDE DEF u
  <2>3. InStep(db[d], u)
    BY <1>1, <2>1, InStepLess
  <2> QED BY <1>1, <2>2, <2>3 DEF Leaves
<1>3. CASE Kill(d)
  <2> DEFINE u == [Idle EXCEPT !.at = "dead"]
  <2>1. u.fold = {} /\ u.todo = {} /\ u.at = "dead"
    BY DEF Idle
  <2>2. run' = [run EXCEPT ![d] = u] /\ db' = db /\ log' = log
    BY <1>3 DEF Kill
  <2> HIDE DEF u
  <2>3. InStep(db[d], u)
    BY <1>1, <2>1, InStepLess
  <2> QED BY <1>1, <2>2, <2>3 DEF Leaves
<1>4. CASE FetchFails(d) \/ PullDone(d) \/ Start(d)
  <2>1. PICK p \in {"pull", "idle", "list"} : Goto(d, p) /\ db' = db /\ log' = log
    BY <1>4 DEF FetchFails, PullDone, Start
  <2>2. run[d].at # "fold" /\ p \in Places \ {"delete"}
    BY <1>4 DEF FetchFails, PullDone, Start, At, Places
  <2> QED BY <1>1, <2>1, <2>2, LeaveGoto
<1>5. CASE ReadMeta(d)
  <2> DEFINE m == db[d].meta[Head(run[d].page).ent]
             u == [run[d] EXCEPT !.at = "merge", !.seen = m]
  <2>1. run' = [run EXCEPT ![d] = u] /\ db' = db /\ log' = log
    BY <1>5, SettledTyped DEF ReadMeta
  <2>2. u.at = "merge" /\ u.fold = {} /\ u.todo = run[d].todo
    BY <1>1, <1>5 DEF ReadMeta, At, InStep, Runs
  <2> HIDE DEF u
  <2>3. InStep(db[d], u)
    BY <1>1, <2>2, InStepLess
  <2> QED BY <1>1, <2>1, <2>3 DEF Leaves
<1>6. CASE Merge(d)
  <2> DEFINE c == Head(run[d].page)
             t == MergeChange(db[d], run[d].seen, c)
             u == [run[d] EXCEPT !.at = "pull", !.page = Tail(run[d].page), !.seen = NoMeta]
  <2>1. run' = [run EXCEPT ![d] = u] /\ db' = [db EXCEPT ![d] = t] /\ log' = log
    BY <1>6, SettledTyped DEF Merge, Store
  <2>2. InLog(c)
    <3>1. run[d].page \in Seq(Change) /\ run[d].page # <<>>
      BY <1>1, <1>6 DEF Merge, At, Aware, Runs
    <3>2. 1 \in DOMAIN run[d].page /\ c = run[d].page[1]
      BY <3>1
    <3> QED BY <1>1, <3>2 DEF Aware
  <2>3. Settled(t) /\ t.outbox = db[d].outbox /\ t.clock = db[d].clock
    BY <1>1, <2>2, MergeSettled
  <2>4. u.at = "pull" /\ u.fold = {} /\ u.todo = run[d].todo
    BY <1>1, <1>6 DEF Merge, At, InStep, Runs
  <2> HIDE DEF t, u
  <2>5. InStep(db[d], u)
    BY <1>1, <2>4, InStepLess
  <2>6. InStep(t, u)
    BY <2>3, <2>5 DEF InStep
  <2> QED BY <2>1, <2>3, <2>6 DEF Leaves
<1> QED BY <1>2, <1>3, <1>4, <1>5, <1>6

LEMMA LeaveList == ASSUME SInv, NEW d \in Devices, ListPending(d) PROVE Leaves(d)
<1>1. PICK waiting : List(d, waiting)
  BY DEF ListPending
<1> DEFINE o == db[d].outbox
           due == o \ waiting
           listed == {q \in due : Cardinality({p \in due : Before(p, q)}) < PushLimit}
           F == Folded(listed)
           S == listed \ F
           u == Pushing(F, S)
<1>2. listed \subseteq o /\ F \subseteq listed /\ S \subseteq listed
  BY DEF Folded
<1>3. run' = [run EXCEPT ![d] = u] /\ db' = db /\ log' = log
  BY <1>1 DEF List
<1>4. ASSUME NEW r \in F, r.op # "delete" PROVE \E q \in o : q.ent = r.ent /\ r.id < q.id
  <2> HIDE DEF listed
  <2>1. r \in listed /\ EndsInDelete(OfEntity(listed, r.ent))
    BY DEF Folded
  <2>2. PICK q \in OfEntity(listed, r.ent) :
               IsLast(q, OfEntity(listed, r.ent)) /\ q.op = "delete"
    BY <2>1 DEF EndsInDelete
  <2>3. r \in OfEntity(listed, r.ent) /\ q.ent = r.ent /\ q \in o /\ r \in o /\ r # q
    BY <1>2, <1>4, <2>1, <2>2 DEF OfEntity
  <2>4. Before(r, q)
    BY <2>2, <2>3 DEF IsLast
  <2>5. r.at = r.id /\ q.at = q.id
    BY <2>3, SettledTyped DEF Informed, OneId
  <2>6. r.id \in Nat /\ q.id \in Nat
    BY <2>3, SettledTyped DEF Stores, Row
  <2>7. r.id < q.id
    BY <2>4, <2>5, <2>6 DEF Before
  <2> QED BY <2>3, <2>7
<1> HIDE DEF listed, F, S, u
<1>5. u.fold = F /\ u.todo = S /\ u.at # "delete" /\ (u.at # "fold" => F = {})
  BY DEF u, Pushing, Idle
<1>6. \A p \in F \cup S : p \in o /\ p.id < db[d].clock /\ p.at = p.id
                        /\ \A x \in o : x.id = p.id => x = p
  BY <1>2, SettledTyped DEF Informed, OneId
<1>7. InStep(db[d], u)
  BY <1>4, <1>5, <1>6 DEF InStep
<1> QED BY <1>3, <1>7, SettledTyped, Typed DEF Leaves

LEMMA LeaveDrop == ASSUME SInv, NEW d \in Devices, DropFolded(d) PROVE Leaves(d)
<1> DEFINE s == db[d]
           w == run[d]
<1>1. PICK r \in w.fold : /\ \A q \in OfEntity(w.fold, r.ent) \ {r} : Before(r, q)
                          /\ Store(d, DeleteRow(s, r))
                          /\ run' = [run EXCEPT ![d] = Pushing(@.fold \ {r}, @.todo)]
  BY DEF DropFolded
<1> DEFINE t == DeleteRow(s, r)
           u == Pushing(w.fold \ {r}, w.todo)
<1>2. run' = [run EXCEPT ![d] = u] /\ db' = [db EXCEPT ![d] = t] /\ log' = log
  BY <1>1, SettledTyped DEF DropFolded, Store
<1>3. /\ s \in Stores /\ w \in Runs /\ Settled(s) /\ InStep(s, w) /\ Informed(s)
  BY SettledTyped
<1>4. \A p \in w.fold : p.id \in Nat /\ p.at = p.id /\ p.id < s.clock
  BY <1>3 DEF Runs, Row, InStep
<1>5. t.outbox = {x \in s.outbox : x.id # r.id} /\ t.clock = s.clock
  BY <1>3 DEF DeleteRow, Stores
<1> HIDE DEF s, w
<1>6. Settled(t)
  <2>1. ASSUME NEW x \in s.outbox, x.id = r.id
        PROVE  x.op = "delete" \/ \E q \in s.outbox : q.ent = x.ent /\ ~(q.id <= x.id)
    <3>1. x.ent = r.ent /\ Hash(x) = Hash(r)
      BY <1>3, <2>1 DEF InStep
    <3>2. x.op = r.op
      BY <3>1 DEF Hash
    <3>3. CASE r.op # "delete"
      <4>1. PICK q \in s.outbox : q.ent = r.ent /\ r.id < q.id
        BY <1>3, <2>1, <3>3 DEF InStep
      <4>2. q.id \in Nat /\ r.id \in Nat
        BY <1>3, <1>4 DEF Stores, Row
      <4> QED BY <2>1, <3>1, <4>1, <4>2
    <3> QED BY <3>2, <3>3
  <2> QED BY <1>3, <2>1, DeleteSettled
<1> HIDE DEF t
<1>7. u.fold = w.fold \ {r} /\ u.todo = w.todo /\ u.at # "delete" /\ (u.at # "fold" => u.fold = {})
  BY DEF Pushing, Idle
<1> HIDE DEF u
<1>8. ASSUME NEW p \in u.fold, p.op # "delete", NEW x \in t.outbox, x.id = p.id
      PROVE  \E q \in t.outbox : q.ent = p.ent /\ p.id < q.id
  <2>1. PICK q \in s.outbox : q.ent = p.ent /\ p.id < q.id
    BY <1>3, <1>5, <1>7, <1>8 DEF InStep
  <2>2. q.id \in Nat /\ q.id # r.id
    <3>1. q.id \in Nat
      BY <1>3 DEF Stores, Row
    <3>2. ASSUME q.id = r.id PROVE FALSE
      <4>1. q.ent = r.ent
        BY <1>3, <3>2 DEF InStep
      <4>2. p \in OfEntity(w.fold, r.ent) \ {r}
        BY <1>5, <1>7, <1>8, <2>1, <4>1 DEF OfEntity
      <4>3. Before(r, p)
        BY <1>1, <4>2 DEF w
      <4> QED BY <1>4, <1>7, <2>1, <3>2, <4>3 DEF Before
    <3> QED BY <3>1, <3>2
  <2> QED BY <1>5, <2>1, <2>2
<1>9. InStep(t, u)
  BY <1>3, <1>5, <1>7, <1>8 DEF InStep
<1> QED BY <1>2, <1>6, <1>9 DEF Leaves

LEMMA LeavePush ==
  ASSUME SInv, NEW d \in Devices,
         Send(d) \/ NoAnswer(d) \/ RecordFailure(d) \/ AckDelete(d) \/ AckMeta(d)
           \/ AckReadCursor(d) \/ AckWriteCursor(d)
  PROVE  Leaves(d)
<1> DEFINE s == db[d]
           w == run[d]
           r == Current(d)
<1>1. /\ IInv /\ s \in Stores /\ w \in Runs /\ Informed(s) /\ Aware(w)
      /\ Settled(s) /\ InStep(s, w) /\ db = [db EXCEPT ![d] = s]
  BY SettledTyped, Typed
<1>2. w.at \in Sent /\ w.at # "fold"
  BY DEF Send, NoAnswer, RecordFailure, AckDelete, AckMeta, AckReadCursor, AckWriteCursor, At, Sent
<1>3. r \in w.todo /\ r \in Row /\ r = FirstIn(w.todo)
  BY <1>1, <1>2, InHand
<1>4. CASE Send(d)
  <2> DEFINE u == [w EXCEPT !.at = "wait", !.base = s.meta[r.ent].ver]
  <2>1. run' = [run EXCEPT ![d] = u] /\ db' = db /\ log' = log
    BY <1>4, SettledTyped DEF Send
  <2>2. u.at = "wait" /\ u.fold = {} /\ u.todo = w.todo
    BY <1>1, <1>2 DEF InStep, Runs
  <2> HIDE DEF u
  <2>3. InStep(s, u)
    BY <1>1, <2>2, InStepLess
  <2> QED BY <1>1, <2>1, <2>3 DEF Leaves
<1>5. CASE NoAnswer(d)
  <2>1. "fail" \in Places \ {"delete"}
    BY DEF Places
  <2> QED BY <1>1, <1>2, <1>5, <2>1, LeaveGoto DEF NoAnswer
<1>6. CASE RecordFailure(d)
  <2> DEFINE t == MarkFailed(s, r)
  <2>1. Settled(t)
    BY <1>1, FailedSettled
  <2>2. InStep(t, w)
    <3>1. /\ t.outbox = {IF x.id = r.id THEN [x EXCEPT !.late = TRUE] ELSE x : x \in s.outbox}
          /\ t.clock = s.clock
      BY <1>1 DEF MarkFailed, Stores
    <3>2. \A y \in t.outbox : \E x \in s.outbox : y.id = x.id /\ y.ent = x.ent /\ Hash(y) = Hash(x)
      <4>1. \A x \in s.outbox : /\ [x EXCEPT !.late = TRUE].id = x.id
                                 /\ [x EXCEPT !.late = TRUE].ent = x.ent
                                 /\ Hash([x EXCEPT !.late = TRUE]) = Hash(x)
        BY <1>1 DEF Stores, Row, Hash
      <4> QED BY <3>1, <4>1
    <3>3. w.fold = {} /\ w.at # "delete"
      BY <1>1, <1>2, <1>6 DEF InStep, RecordFailure, At
    <3> HIDE DEF t
    <3> QED BY <1>1, <3>1, <3>2, <3>3 DEF InStep
  <2> QED BY <1>6, <2>1, <2>2, LeaveNextRow DEF RecordFailure
<1>7. CASE AckDelete(d)
  <2> DEFINE t == DeleteRow(s, r)
  <2>1. w.at = "delete" /\ w.ack \in RowsOf(r.ent) /\ Hash(log[w.ack]) = Hash(r)
    <3>1. w.at = "delete"
      BY <1>7 DEF AckDelete, At
    <3>2. w.ack \in DOMAIN log /\ log[w.ack].ent = r.ent
      BY <1>1, <3>1, Acknowledged
    <3> QED BY <1>1, <1>3, <3>1, <3>2 DEF InStep, RowsOf
  <2>2. Settled(t)
    <3>1. ASSUME NEW x \in s.outbox, x.id = r.id PROVE Logs(x.ent, Hash(x))
      <4>1. x.ent = r.ent /\ Hash(x) = Hash(r)
        BY <1>1, <1>3, <3>1 DEF InStep
      <4> QED BY <2>1, <4>1 DEF Logs
    <3> QED BY <1>1, <3>1, DeleteSettled
  <2>3. t.outbox = {x \in s.outbox : x.id # r.id} /\ t.clock = s.clock
    BY <1>1 DEF DeleteRow, Stores
  <2> HIDE DEF t
  <2>4. InStep(t, w)
    <3>1. w.fold = {}
      BY <1>1, <1>2 DEF InStep
    <3> QED BY <1>1, <2>3, <3>1 DEF InStep
  <2>5. db' = [db EXCEPT ![d] = t] /\ Goto(d, "meta") /\ log' = log
    BY <1>7 DEF AckDelete, Store, t
  <2>6. "meta" \in Places \ {"delete"}
    BY DEF Places
  <2> QED BY <1>2, <2>2, <2>4, <2>5, <2>6, LeaveGoto
<1>8. CASE AckMeta(d)
  <2> DEFINE t == MarkPushAcknowledged(s, r, log[w.ack].ver)
  <2>1. Settled(t)
    BY <1>1, <1>3, AcknowledgeSettled
  <2>2. t.outbox = s.outbox /\ t.clock = s.clock
    BY <1>1 DEF MarkPushAcknowledged, Stores
  <2>3. db' = [db EXCEPT ![d] = t] /\ Goto(d, "cursor") /\ log' = log
    BY <1>8 DEF AckMeta, Store
  <2> HIDE DEF t
  <2>4. InStep(t, w)
    BY <1>1, <2>2 DEF InStep
  <2>5. "cursor" \in Places \ {"delete"}
    BY DEF Places
  <2> QED BY <1>2, <2>1, <2>3, <2>4, <2>5, LeaveGoto
<1>9. CASE AckReadCursor(d)
  <2>1. CASE w.ack > s.cursor
    <3>1. "write" \in Places \ {"delete"}
      BY DEF Places
    <3> QED BY <1>1, <1>2, <1>9, <2>1, <3>1, LeaveGoto DEF AckReadCursor
  <2>2. CASE ~(w.ack > s.cursor)
    BY <1>1, <1>9, <2>2, LeaveNextRow DEF AckReadCursor
  <2> QED BY <2>1, <2>2
<1>10. CASE AckWriteCursor(d)
  <2> DEFINE t == WriteCursor(s, w.ack)
  <2>1. t.rec = s.rec /\ t.meta = s.meta /\ t.outbox = s.outbox /\ t.clock = s.clock
    BY <1>1 DEF WriteCursor, Stores
  <2> HIDE DEF t
  <2>2. Settled(t)
    BY <1>1, <2>1, SettledSame
  <2>3. InStep(t, w)
    BY <1>1, <2>1 DEF InStep
  <2> QED BY <1>10, <2>2, <2>3, LeaveNextRow DEF AckWriteCursor, t
<1> QED BY <1>4, <1>5, <1>6, <1>7, <1>8, <1>9, <1>10

\* An edit that leaves the new row, and of the others whole records.
LEMMA LeaveEdit ==
  ASSUME SInv, NEW d \in Devices, NEW t \in Stores, Settled(t), Edit(d, t),
         db[d].clock <= t.clock,
         \A x \in t.outbox : x \in db[d].outbox \/ x.id = db[d].clock,
         \A x \in db[d].outbox, y \in t.outbox : x.ent = y.ent => x \in t.outbox
  PROVE  Leaves(d)
<1>1. InStep(t, run[d])
  BY SettledTyped, InStepEdit
<1>2. run' = [run EXCEPT ![d] = run[d]] /\ db' = [db EXCEPT ![d] = t] /\ log' = log
  BY SettledTyped DEF Edit, Store
<1> QED BY <1>1, <1>2 DEF Leaves

LEMMA LeaveEnqueue ==
  ASSUME SInv, NEW d \in Devices, NEW s \in Stores, Informed(s),
         s.clock = db[d].clock, s.outbox = db[d].outbox,
         NEW e \in Ids, NEW op \in Operations, NEW b \in Bodies,
         s.rec[e] = Made(<<op, b>>), \A f \in Ids \ {e} : SettledAt(s, f)
  PROVE  LET t == EnqueueChange(s, e, op, b)
         IN /\ t \in Stores /\ Settled(t) /\ db[d].clock <= t.clock
            /\ t.conflicts = s.conflicts
            /\ \A x \in t.outbox : x \in db[d].outbox \/ x.id = db[d].clock
            /\ db[d].outbox \subseteq t.outbox
<1> DEFINE t == EnqueueChange(s, e, op, b)
<1>1. t \in Stores /\ Settled(t)
  BY SettledTyped, EnqueueOK, EnqueueSettled
<1>2. /\ t.clock = s.clock + 1 /\ t.conflicts = s.conflicts
      /\ t.outbox = s.outbox \cup {[id |-> s.clock, at |-> s.clock, ent |-> e, op |-> op,
                         body |-> b, gid |-> NoGroup, lseq |-> 0, late |-> FALSE]}
  BY DEF EnqueueChange, Stores
<1>3. s.clock \in Nat
  BY DEF Stores
<1> QED BY <1>1, <1>2, <1>3

LEMMA LeaveOwner ==
  ASSUME SInv, NEW d \in Devices, Create(d) \/ Save(d) \/ Discard(d) PROVE Leaves(d)
<1>1. PICK i \in Ids, b \in Bodies, op \in Operations, v \in SUBSET Ids :
         Edit(d, EnqueueChange([db[d] EXCEPT !.rec[i] = Made(<<op, b>>), !.used = v], i, op, b))
  <2>1. CASE Create(d)
    <3>1. PICK b \in Bodies, i \in Ids : Edit(d, CreateRecord(db[d], i, b))
      BY <2>1 DEF Create
    <3>2. /\ db[d].used \cup {i} \in SUBSET Ids /\ Made(<<"create", b>>) = b
          /\ "create" \in Operations
      BY SettledTyped DEF Stores, Made, Operations
    <3>3. [db[d] EXCEPT !.rec[i] = b, !.used = @ \cup {i}]
            = [db[d] EXCEPT !.rec[i] = Made(<<"create", b>>), !.used = db[d].used \cup {i}]
      BY <3>2, SettledTyped DEF Stores
    <3> QED BY <3>1, <3>2, <3>3 DEF CreateRecord
  <2>2. CASE Save(d)
    <3>1. PICK i \in Ids, b \in Bodies : Edit(d, UpdateRecord(db[d], i, b))
      BY <2>2 DEF Save
    <3>2. /\ db[d].used \in SUBSET Ids /\ Made(<<"update", b>>) = b
          /\ "update" \in Operations
      BY SettledTyped DEF Stores, Made, Operations
    <3>3. [db[d] EXCEPT !.rec[i] = b]
            = [db[d] EXCEPT !.rec[i] = Made(<<"update", b>>), !.used = db[d].used]
      BY <3>2, SettledTyped DEF Stores
    <3> QED BY <3>1, <3>2, <3>3 DEF UpdateRecord
  <2>3. CASE Discard(d)
    <3>1. PICK i \in Ids : db[d].rec[i] # None /\ Edit(d, DeleteRecord(db[d], i))
      BY <2>3 DEF Discard
    <3>2. PICK b \in Bodies : b = db[d].rec[i]
      BY <3>1, SettledTyped DEF Stores
    <3>3. /\ db[d].used \in SUBSET Ids /\ Made(<<"delete", b>>) = None
          /\ "delete" \in Operations
      BY SettledTyped DEF Stores, Made, Operations
    <3> DEFINE s == [db[d] EXCEPT !.rec[i] = Made(<<"delete", b>>), !.used = db[d].used]
    <3>4. [db[d] EXCEPT !.rec[i] = None] = s
      BY <3>3, SettledTyped DEF Stores
    <3>5. DeleteRecord(db[d], i) = EnqueueChange(s, i, "delete", b)
      BY <3>2, <3>4 DEF DeleteRecord
    <3>6. Edit(d, EnqueueChange(s, i, "delete", b))
      BY <3>1, <3>5
    <3> QED BY <3>3, <3>6
  <2> QED BY <2>1, <2>2, <2>3
<1> DEFINE s == [db[d] EXCEPT !.rec[i] = Made(<<op, b>>), !.used = v]
<1>2. Made(<<op, b>>) \in Bodies \cup {None}
  BY DEF Made
<1>3. /\ s.meta = db[d].meta /\ s.outbox = db[d].outbox /\ s.clock = db[d].clock
      /\ s.rec[i] = Made(<<op, b>>) /\ \A f \in Ids \ {i} : s.rec[f] = db[d].rec[f]
  BY SettledTyped DEF Stores
<1>4. s \in Stores /\ Informed(s)
  BY <1>2, SettledTyped, RecordKept
<1> HIDE DEF s
<1>5. \A f \in Ids \ {i} : SettledAt(s, f)
  BY <1>3, SettledTyped DEF Settled, SettledAt
<1> DEFINE t == EnqueueChange(s, i, op, b)
<1>6. /\ t \in Stores /\ Settled(t) /\ db[d].clock <= t.clock
      /\ \A x \in t.outbox : x \in db[d].outbox \/ x.id = db[d].clock
      /\ db[d].outbox \subseteq t.outbox
  BY <1>3, <1>4, <1>5, LeaveEnqueue
<1>7. Edit(d, t)
  BY <1>1 DEF s
<1> HIDE DEF t
<1> QED BY <1>6, <1>7, LeaveEdit

LEMMA LeaveResolution ==
  ASSUME SInv, NEW d \in Devices, TakeRemote(d) \/ TakeLocal(d) PROVE Leaves(d)
<1>1. /\ IInv /\ TypeOK /\ LogOK /\ db[d] \in Stores /\ Informed(db[d]) /\ Settled(db[d])
  BY SettledTyped
<1>2. CASE TakeRemote(d)
  <2>1. PICK x \in Pending(db[d]) : Edit(d, UseRemote(db[d], x))
    BY <1>2 DEF TakeRemote
  <2> DEFINE a == ApplyRemote(db[d], x.c)
             s == [a EXCEPT !.outbox = @ \ OfEntity(@, x.c.ent)]
             t == Resolve(s, x)
  <2>2. a \in Stores /\ Settled(a) /\ a.outbox = db[d].outbox /\ a.clock = db[d].clock
        /\ a.conflicts = db[d].conflicts
    <3>1. a \in Stores /\ Settled(a)
      BY <1>1, Parked, ApplyRemoteOK, ApplySettled
    <3>2. a.outbox = db[d].outbox /\ a.clock = db[d].clock /\ a.conflicts = db[d].conflicts
      BY <1>1 DEF ApplyRemote, Stores
    <3> QED BY <3>1, <3>2
  <2>3. x.c.ent \in Ids /\ Logs(x.c.ent, a.meta[x.c.ent].hash)
    <3>1. InLog(x.c) /\ x.c.ent \in Ids
      BY <1>1, Parked
    <3>2. x.c.seq \in RowsOf(x.c.ent) /\ x.c = log[x.c.seq]
      BY <1>1, <3>1, RowVersion DEF RowsOf
    <3>3. a.meta[x.c.ent].hash = Hash(x.c)
      BY <1>1, <3>1 DEF ApplyRemote, Stores
    <3> QED BY <3>1, <3>2, <3>3 DEF Logs
  <2> HIDE DEF a
  <2>4. /\ t.rec = a.rec /\ t.meta = a.meta /\ t.clock = a.clock
        /\ t.outbox = a.outbox \ OfEntity(a.outbox, x.c.ent)
    BY <2>2 DEF Resolve, Stores
  <2>5. Edit(d, t)
    BY <2>1 DEF UseRemote, a
  <2>6. t \in Stores
    <3>1. IInv'
      BY <1>2, <1>1, TakeRemoteStep
    <3>2. t = db'[d]
      BY <2>5, SettledTyped DEF Edit, Store
    <3>3. db'[d] \in Stores
      BY <3>1 DEF IInv, TypeOK
    <3> QED BY <3>2, <3>3
  <2> HIDE DEF s, t
  <2>7. Settled(t)
    <3>1. ASSUME NEW f \in Ids PROVE SettledAt(t, f)
      <4>1. CASE f = x.c.ent
        BY <2>2, <2>3, <2>4, <4>1 DEF Settled, SettledAt
      <4>2. CASE f # x.c.ent
        <5>1. \A h : LastQueued(a.outbox, f, h) => LastQueued(t.outbox, f, h)
          BY <2>4, <4>2 DEF LastQueued, OfEntity
        <5> QED BY <2>2, <2>4, <5>1 DEF Settled, SettledAt
      <4> QED BY <4>1, <4>2
    <3> QED BY <3>1 DEF Settled
  <2>8. db[d].clock <= t.clock
    BY <1>1, <2>2, <2>4 DEF Stores
  <2>9. /\ \A y \in t.outbox : y \in db[d].outbox
        /\ \A z \in db[d].outbox, y \in t.outbox : z.ent = y.ent => z \in t.outbox
    BY <2>2, <2>4 DEF OfEntity
  <2> QED BY <2>5, <2>6, <2>7, <2>8, <2>9, LeaveEdit
<1>3. CASE TakeLocal(d)
  <2>1. PICK x \in Pending(db[d]) :
               db[d].rec[x.c.ent] # None /\ Edit(d, UseLocal(db[d], x))
    BY <1>3 DEF TakeLocal
  <2> DEFINE e == x.c.ent
             b == db[d].rec[e]
             m == Upsert(db[d].meta[e], "synced", x.c.ver, None)
             s == [db[d] EXCEPT !.meta = [db[d].meta EXCEPT ![e] = m]]
             q == EnqueueChange(s, e, "update", b)
             t == Resolve(q, x)
  <2>2. UseLocal(db[d], x) = t
    BY <1>1 DEF UseLocal, Stores
  <2>3. e \in Ids /\ x.c.ver \in Nat /\ x.c.ver <= HeadVer(e)
    BY <1>1, Parked
  <2>4. b \in Bodies /\ db[d].meta[e] \in Meta /\ "update" \in Operations /\ b = Made(<<"update", b>>)
    BY <1>1, <2>1, <2>3 DEF Stores, Operations, Made
  <2>5. m \in Meta /\ m.ver \in {db[d].meta[e].ver, x.c.ver}
    <3>1. "synced" \in Statuses
      BY DEF Statuses
    <3> QED BY <2>3, <2>4, <3>1, UpsertType
  <2> HIDE DEF e, m
  <2>6. /\ s \in Stores /\ s.meta = [db[d].meta EXCEPT ![e] = m] /\ s.rec = db[d].rec
        /\ s.outbox = db[d].outbox /\ s.clock = db[d].clock /\ s.cursor = db[d].cursor
        /\ s.conflicts = db[d].conflicts
    <3>1. [db[d].meta EXCEPT ![e] = m] \in [Ids -> Meta]
      BY <1>1, <2>3, <2>5 DEF Stores
    <3> QED BY <1>1, <3>1 DEF Stores
  <2> HIDE DEF s
  <2>7. Informed(s)
    <3>1. \A f \in Ids : s.meta[f].ver <= HeadVer(f)
      BY <1>1, <2>3, <2>5, <2>6 DEF Informed, Stores
    <3> QED BY <1>1, <2>6, <3>1 DEF Informed
  <2>8. \A f \in Ids \ {e} : SettledAt(s, f)
    <3>1. \A f \in Ids \ {e} : s.meta[f] = db[d].meta[f]
      BY <1>1, <2>6 DEF Stores
    <3> QED BY <1>1, <2>6, <3>1 DEF Settled, SettledAt
  <2>9. /\ q \in Stores /\ Settled(q) /\ db[d].clock <= q.clock
        /\ \A y \in q.outbox : y \in db[d].outbox \/ y.id = db[d].clock
        /\ db[d].outbox \subseteq q.outbox
    <3>1. s.rec[e] = Made(<<"update", b>>)
      BY <2>4, <2>6 DEF e
    <3> HIDE DEF b
    <3> QED BY <2>3, <2>4, <2>6, <2>7, <2>8, <3>1, LeaveEnqueue
  <2> HIDE DEF q
  <2>10. t.rec = q.rec /\ t.meta = q.meta /\ t.outbox = q.outbox /\ t.clock = q.clock
    BY <2>9 DEF Resolve, Stores
  <2>11. Settled(t)
    BY <2>9, <2>10, SettledSame
  <2>12. Edit(d, t)
    BY <2>1, <2>2
  <2>13. t \in Stores
    <3>1. IInv'
      BY <1>3, <1>1, TakeLocalStep
    <3>2. t = db'[d]
      BY <2>12, SettledTyped DEF Edit, Store
    <3>3. db'[d] \in Stores
      BY <3>1 DEF IInv, TypeOK
    <3> QED BY <3>2, <3>3
  <2> HIDE DEF t
  <2> QED BY <2>9, <2>10, <2>11, <2>12, <2>13, LeaveEdit
<1> QED BY <1>2, <1>3

\* The answer that lets a row go names its content.
LEMMA AcksHash ==
  ASSUME TypeOK, NEW q \in [dev : Devices, row : Row, base : Nat], log' = Logged(q), NEW n \in Acks(q)
  PROVE  Hash(log'[n]) = Hash(q.row)
<1>1. CASE Same(q) # {}
  BY <1>1 DEF Acks, Logged, Same
<1>2. CASE Same(q) = {}
  <2> DEFINE c == [seq |-> Len(log) + 1, ent |-> q.row.ent, op |-> q.row.op,
                   body |-> q.row.body, base |-> q.base, ver |-> q.base + 1,
                   by |-> q.dev, at |-> q.row.at]
  <2>1. n = Len(log) + 1 /\ log' = Append(log, c)
    BY <1>2 DEF Acks, Logged
  <2>2. Hash(c) = Hash(q.row)
    BY DEF Hash
  <2> HIDE DEF c
  <2>3. log'[n] = c
    BY <2>1 DEF TypeOK
  <2> QED BY <2>2, <2>3
<1> QED BY <1>1, <1>2

LEMMA SettledAnswered ==
  ASSUME SInv, [Next]_vars, NEW d \in Devices, Answered(d) PROVE SInv'
<1>1. IInv /\ IInv' /\ Grows
  BY NextStep, EveryStepGrows DEF SInv
<1>2. run[d].at \in Sent
  BY DEF Answered, At, Sent
<1>3. PICK q \in [dev : Devices, row : Row, base : Nat] :
             q = Request(d) /\ q.row = FirstIn(run[d].todo)
  BY <1>1, <1>2, InHand
<1>4. log' = Logged(q) /\ db' = db
  BY <1>3 DEF Answered
<1>5. ASSUME NEW c \in Devices PROVE Settled(db[c])' /\ InStep(db[c], run[c])'
  <2>1. PICK s, w : s = db[c] /\ w = run[c]
    OBVIOUS
  <2>2. Settled(s)' /\ InStep(s, w)' /\ InStep(s, w) /\ w \in Runs
    BY <1>1, <2>1, SettledTyped, SettledKept, InStepKept
  <2>3. PICK v : v = run'[c]
    OBVIOUS
  <2>4. InStep(s, v)'
    <3>1. CASE c # d
      <4>1. run'[c] = run[c]
        BY <3>1, SettledTyped DEF Answered, Goto
      <4> QED BY <2>1, <2>2, <2>3, <4>1
    <3>2. CASE c = d /\ Goto(d, "fail")
      <4>1. v = [w EXCEPT !.at = "fail"]
        BY <2>1, <2>3, <3>2, SettledTyped DEF Goto
      <4>2. v.fold = w.fold /\ v.todo = w.todo /\ v.at = "fail"
        BY <2>2, <4>1 DEF Runs
      <4>3. w.fold = {}
        BY <1>2, <2>1, <2>2, <3>2 DEF InStep, Sent
      <4> QED BY <2>2, <4>2, <4>3 DEF InStep
    <3>3. CASE c = d /\ \E seq \in Acks(Request(d)) :
                  run' = [run EXCEPT ![d].at = "delete", ![d].ack = seq]
      <4>1. PICK n \in Acks(q) : run' = [run EXCEPT ![d].at = "delete", ![d].ack = n]
        BY <1>3, <3>3
      <4>2. v = [w EXCEPT !.at = "delete", !.ack = n]
        BY <2>1, <2>3, <3>3, <4>1, SettledTyped
      <4>3. v.fold = w.fold /\ v.todo = w.todo /\ v.at = "delete" /\ v.ack = n
        BY <2>2, <4>2 DEF Runs
      <4>4. w.fold = {}
        BY <1>2, <2>1, <2>2, <3>3 DEF InStep, Sent
      <4>5. Hash(log'[n]) = Hash(FirstIn(w.todo))
        BY <1>3, <1>4, <2>1, <3>3, AcksHash DEF SInv, IInv
      <4> QED BY <2>2, <4>3, <4>4, <4>5 DEF InStep
    <3> QED BY <3>1, <3>2, <3>3 DEF Answered
  <2>5. db'[c] = s
    BY <1>4, <2>1
  <2> QED BY <2>2, <2>3, <2>4, <2>5 DEF Settled, SettledAt, Logs, RowsOf, InStep
<1> QED BY <1>1, <1>5 DEF SInv

LEMMA SettledNext == SInv /\ [Next]_vars => SInv'
<1> SUFFICES ASSUME SInv, [Next]_vars PROVE SInv'
  OBVIOUS
<1>0. IInv /\ IInv' /\ Grows
  BY NextStep, EveryStepGrows DEF SInv
<1>1. ASSUME NEW d \in Devices,
             FetchPage(d) \/ FetchFails(d) \/ Work(d) \/ NoAnswer(d) \/ Kill(d)
      PROVE  SInv'
  <2>1. Leaves(d)
    BY <1>1, LeaveRead, LeaveList, LeaveDrop, LeavePush DEF Work
  <2> QED BY <1>0, <2>1, LeavesKept
<1>2. ASSUME NEW d \in Devices, Answered(d) PROVE SInv'
  BY <1>2, SettledAnswered
<1>3. ASSUME NEW d \in Writers,
             Create(d) \/ Save(d) \/ Discard(d) \/ TakeRemote(d) \/ TakeLocal(d)
      PROVE  SInv'
  <2>1. d \in Devices
    BY CloudSyncAssumption
  <2>2. Leaves(d)
    BY <1>3, <2>1, LeaveOwner, LeaveResolution
  <2> QED BY <1>0, <2>1, <2>2, LeavesKept
<1>4. CASE db' = db /\ run' = run
  <2>1. IInv /\ IInv' /\ Grows
    BY <1>0
  <2>2. ASSUME NEW c \in Devices PROVE Settled(db[c])' /\ InStep(db[c], run[c])'
    <3>1. PICK s, w : s = db[c] /\ w = run[c]
      OBVIOUS
    <3>2. Settled(s)' /\ InStep(s, w)'
      BY <2>1, <3>1, SettledTyped, SettledKept, InStepKept
    <3> QED BY <1>4, <3>1, <3>2 DEF Settled, SettledAt, Logs, RowsOf, InStep
  <2> QED BY <2>1, <2>2 DEF SInv
<1>5. ASSUME NEW q, ServeLate(q) \/ LoseLate(q) PROVE db' = db /\ run' = run
  BY <1>5 DEF ServeLate, LoseLate
<1> QED BY <1>1, <1>2, <1>3, <1>4, <1>5 DEF Next, vars

LEMMA SettledInit == Init => SInv
<1> SUFFICES ASSUME Init, NEW d \in Devices PROVE Settled(db[d]) /\ InStep(db[d], run[d])
  BY Initially DEF SInv
<1>1. \A e \in Ids : db[d].meta[e] = NoMeta
  <2>1. Unsynced(First[d]) /\ db[d] = First[d]
    BY CloudSyncAssumption DEF Init
  <2>2. PICK r, u : First[d] = [NewStore EXCEPT !.rec = r, !.used = u]
    BY <2>1, Zenon DEF Unsynced
  <2>3. First[d].meta = [i \in Ids |-> NoMeta]
    BY <2>2 DEF NewStore
  <2> QED BY <2>1, <2>3
<1>2. Settled(db[d])
  BY <1>1 DEF Settled, SettledAt, NoMeta
<1>3. run[d].fold = {} /\ run[d].todo = {} /\ run[d].at = "idle"
  BY DEF Init, Idle
<1> QED BY <1>2, <1>3 DEF InStep

LEMMA SettledIsLogged == SInv => SyncedIsLogged
<1> SUFFICES ASSUME SInv, NEW d \in Devices, NEW e \in Ids,
                    db[d].meta[e].st = "synced", db[d].meta[e].hash # None,
                    OfEntity(db[d].outbox, e) = {}
             PROVE  \E i \in RowsOf(e) : /\ Hash(log[i]) = db[d].meta[e].hash
                                         /\ Content(e, i) = db[d].rec[e]
  BY DEF SyncedIsLogged
<1>1. SettledAt(db[d], e) /\ TypeOK
  BY DEF SInv, IInv, Settled
<1>2. PICK i \in RowsOf(e) : Hash(log[i]) = db[d].meta[e].hash
  BY <1>1 DEF SettledAt, LastQueued, OfEntity, Logs
<1> DEFINE U == Upto(e, i)
<1>3. i \in Int /\ U \subseteq Int /\ i \in U /\ \A y \in U : y <= i
  BY <1>1, RowsFinite DEF Upto
<1> HIDE DEF U
<1>4. Max(U) = i
  BY <1>3, MaxOf
<1>5. Content(e, i) = IF log[i].op = "delete" THEN None ELSE log[i].body
  BY <1>3, <1>4 DEF Content, Upto, U
<1>6. Content(e, i) = Made(Hash(log[i]))
  BY <1>5 DEF Made, Hash
<1>7. db[d].rec[e] = Made(Hash(log[i]))
  BY <1>1, <1>2 DEF SettledAt
<1> QED BY <1>2, <1>6, <1>7

\* What a device shows as synced, with nothing of it queued, is what some row
\* of the backend's log left, whatever is edited, folded, parked, killed or
\* answered late between the steps of a push.
THEOREM SyncedIsLoggedCorrect == Spec => []SyncedIsLogged
<1>1. Init => SInv
  BY SettledInit
<1>2. SInv /\ [Next]_vars => SInv'
  BY SettledNext
<1>3. SInv => SyncedIsLogged
  BY SettledIsLogged
<1> QED BY <1>1, <1>2, <1>3, PTL DEF Spec
-----------------------------------------------------------------------------
(* What leaves the outbox.                                                  *)

\* No row is gone from the outbox.
Keeps(s, t) == \A r \in s.outbox : \E x \in t.outbox : x.id = r.id

LEMMA EnqueueKeeps ==
  ASSUME NEW s, "outbox" \in DOMAIN s, NEW e, NEW op, NEW b
  PROVE  /\ s.outbox \subseteq EnqueueChange(s, e, op, b).outbox
         /\ "outbox" \in DOMAIN EnqueueChange(s, e, op, b)
BY DEF EnqueueChange

\* The steps of device d that take no row from the outbox.
LEMMA KeepingSteps ==
  ASSUME SInv, NEW d \in Devices,
         \/ FetchPage(d) \/ FetchFails(d) \/ ReadMeta(d) \/ Merge(d) \/ PullDone(d)
         \/ ListPending(d) \/ Send(d) \/ RecordFailure(d) \/ AckMeta(d)
         \/ AckReadCursor(d) \/ AckWriteCursor(d) \/ Start(d)
         \/ Answered(d) \/ NoAnswer(d) \/ Kill(d)
         \/ Create(d) \/ Save(d) \/ Discard(d) \/ TakeLocal(d)
  PROVE  \E t : db' = [db EXCEPT ![d] = t] /\ Keeps(db[d], t)
<1> DEFINE s == db[d]
<1>1. IInv /\ TypeOK /\ LogOK /\ s \in Stores /\ Informed(s) /\ Settled(s) /\ Aware(run[d])
      /\ run[d] \in Runs /\ db = [db EXCEPT ![d] = s]
  BY SettledTyped
<1>2. CASE db' = db
  BY <1>1, <1>2 DEF Keeps
<1>3. ASSUME NEW t, db' = [db EXCEPT ![d] = t], s.outbox \subseteq t.outbox
      PROVE  \E u : db' = [db EXCEPT ![d] = u] /\ Keeps(s, u)
  BY <1>3 DEF Keeps
<1>4. CASE Merge(d)
  <2> DEFINE c == Head(run[d].page)
             t == MergeChange(s, run[d].seen, c)
  <2>1. InLog(c)
    <3>1. run[d].page \in Seq(Change) /\ run[d].page # <<>>
      BY <1>1, <1>4 DEF Merge, At, Aware, Runs
    <3>2. 1 \in DOMAIN run[d].page /\ c = run[d].page[1]
      BY <3>1
    <3> QED BY <1>1, <3>2 DEF Aware
  <2>2. t.outbox = s.outbox
    BY <1>1, <2>1, MergeSettled
  <2>3. db' = [db EXCEPT ![d] = t]
    BY <1>4 DEF Merge, Store
  <2> HIDE DEF t
  <2> QED BY <1>3, <2>2, <2>3
<1>5. CASE RecordFailure(d)
  <2> DEFINE t == MarkFailed(s, Current(d))
  <2>1. t.outbox = {IF x.id = Current(d).id THEN [x EXCEPT !.late = TRUE] ELSE x : x \in s.outbox}
    BY <1>1 DEF MarkFailed, Stores
  <2>2. \A x \in s.outbox : [x EXCEPT !.late = TRUE].id = x.id
    BY <1>1 DEF Stores, Row
  <2>3. Keeps(s, t)
    BY <2>1, <2>2 DEF Keeps
  <2> QED BY <1>5, <2>3 DEF RecordFailure, NextRow, Store
<1>6. CASE AckMeta(d)
  <2> DEFINE t == MarkPushAcknowledged(s, Current(d), log[run[d].ack].ver)
  <2>1. t.outbox = s.outbox
    BY <1>1 DEF MarkPushAcknowledged, Stores
  <2>2. db' = [db EXCEPT ![d] = t]
    BY <1>6 DEF AckMeta, Store
  <2> HIDE DEF t
  <2> QED BY <1>3, <2>1, <2>2
<1>7. CASE AckReadCursor(d)
  BY <1>1, <1>2, <1>3, <1>7 DEF AckReadCursor, NextRow, Store
<1>8. CASE AckWriteCursor(d)
  <2> DEFINE t == WriteCursor(s, run[d].ack)
  <2>1. t.outbox = s.outbox
    BY <1>1 DEF WriteCursor, Stores
  <2>2. db' = [db EXCEPT ![d] = t]
    BY <1>8 DEF AckWriteCursor, NextRow, Store
  <2> HIDE DEF t
  <2> QED BY <1>3, <2>1, <2>2
<1>9. CASE Create(d) \/ Save(d) \/ Discard(d) \/ TakeLocal(d)
  <2>1. \E t : /\ db' = [db EXCEPT ![d] = t] /\ s.outbox \subseteq t.outbox
    <3> DEFINE E(u, i, op, b) == EnqueueChange(u, i, op, b)
    <3>1. CASE Create(d)
      <4>1. PICK b, i : Edit(d, CreateRecord(s, i, b))
        BY <3>1 DEF Create
      <4> DEFINE u == [s EXCEPT !.rec[i] = b, !.used = @ \cup {i}]
      <4>2. u.outbox = s.outbox /\ "outbox" \in DOMAIN u
        BY <1>1 DEF Stores
      <4>3. db' = [db EXCEPT ![d] = E(u, i, "create", b)]
        BY <4>1 DEF Edit, Store, CreateRecord
      <4> HIDE DEF u, E
      <4> QED BY <4>2, <4>3, EnqueueKeeps DEF E
    <3>2. CASE Save(d)
      <4>1. PICK i, b : Edit(d, UpdateRecord(s, i, b))
        BY <3>2 DEF Save
      <4> DEFINE u == [s EXCEPT !.rec[i] = b]
      <4>2. u.outbox = s.outbox /\ "outbox" \in DOMAIN u
        BY <1>1 DEF Stores
      <4>3. db' = [db EXCEPT ![d] = E(u, i, "update", b)]
        BY <4>1 DEF Edit, Store, UpdateRecord
      <4> HIDE DEF u, E
      <4> QED BY <4>2, <4>3, EnqueueKeeps DEF E
    <3>3. CASE Discard(d)
      <4>1. PICK i : Edit(d, DeleteRecord(s, i))
        BY <3>3 DEF Discard
      <4> DEFINE u == [s EXCEPT !.rec[i] = None]
      <4>2. u.outbox = s.outbox /\ "outbox" \in DOMAIN u
        BY <1>1 DEF Stores
      <4>3. db' = [db EXCEPT ![d] = E(u, i, "delete", s.rec[i])]
        BY <4>1 DEF Edit, Store, DeleteRecord
      <4> HIDE DEF u, E
      <4> QED BY <4>2, <4>3, EnqueueKeeps DEF E
    <3>4. CASE TakeLocal(d)
      <4>1. PICK x : Edit(d, UseLocal(s, x))
        BY <3>4 DEF TakeLocal
      <4> DEFINE e == x.c.ent
                 u == [s EXCEPT !.meta[e] = Upsert(@, "synced", x.c.ver, None)]
                 q == E(u, e, "update", s.rec[e])
      <4>2. u.outbox = s.outbox /\ "outbox" \in DOMAIN u
        BY <1>1 DEF Stores
      <4>3. db' = [db EXCEPT ![d] = Resolve(q, x)]
        BY <4>1 DEF Edit, Store, UseLocal
      <4> HIDE DEF u, E
      <4>4. s.outbox \subseteq q.outbox /\ "outbox" \in DOMAIN q
        BY <4>2, EnqueueKeeps DEF E
      <4> HIDE DEF q
      <4>5. Resolve(q, x).outbox = q.outbox
        BY <4>4 DEF Resolve
      <4> QED BY <4>3, <4>4, <4>5
    <3> QED BY <1>9, <3>1, <3>2, <3>3, <3>4
  <2> QED BY <1>3, <2>1
<1>10. CASE FetchPage(d) \/ FetchFails(d) \/ ReadMeta(d) \/ PullDone(d) \/ ListPending(d)
              \/ Send(d) \/ Start(d) \/ Answered(d) \/ NoAnswer(d) \/ Kill(d)
  BY <1>2, <1>10 DEF FetchPage, FetchFails, ReadMeta, PullDone, ListPending, List, Send, Start,
                     Answered, NoAnswer, Kill
<1> QED BY <1>4, <1>5, <1>6, <1>7, <1>8, <1>9, <1>10

\* A row that leaves the outbox of a device is logged, to be dropped, or gone
\* with a conflict.
LEMMA LeavesOutbox ==
  ASSUME SInv, [Next]_vars, NEW d \in Devices, NEW r \in db[d].outbox,
         \A x \in db'[d].outbox : x.id # r.id
  PROVE  \/ \E i \in DOMAIN log : log[i].ent = r.ent /\ Hash(log[i]) = Hash(r)
         \/ \E x \in run[d].fold : x.id = r.id
         \/ Pending(db'[d]) # Pending(db[d])
<1>1. /\ IInv /\ db[d] \in Stores /\ Informed(db[d]) /\ run[d] \in Runs
      /\ Aware(run[d]) /\ InStep(db[d], run[d])
  BY SettledTyped
<1>2. ~(db'[d] = db[d])
  OBVIOUS
<1>3. ASSUME NEW c \in Devices, NEW t, db' = [db EXCEPT ![c] = t] PROVE c = d /\ db'[d] = t
  <2>1. db \in [Devices -> Stores]
    BY SettledTyped
  <2> QED BY <1>2, <1>3, <2>1
<1>4. ASSUME NEW c \in Devices, NEW t, db' = [db EXCEPT ![c] = t], Keeps(db[c], t) PROVE FALSE
  BY <1>3, <1>4 DEF Keeps
<1>5. ASSUME NEW c \in Devices, DropFolded(c)
      PROVE  \E x \in run[d].fold : x.id = r.id
  <2>1. PICK p \in run[c].fold : Store(c, DeleteRow(db[c], p))
    BY <1>5 DEF DropFolded
  <2>2. c = d /\ db'[d] = DeleteRow(db[d], p)
    BY <1>3, <2>1 DEF Store
  <2>3. db'[d].outbox = {x \in db[d].outbox : x.id # p.id}
    BY <1>1, <2>2 DEF DeleteRow, Stores
  <2> QED BY <2>1, <2>2, <2>3
<1>6. ASSUME NEW c \in Devices, AckDelete(c)
      PROVE  \E i \in DOMAIN log : log[i].ent = r.ent /\ Hash(log[i]) = Hash(r)
  <2>1. c = d /\ db'[d] = DeleteRow(db[d], Current(d))
    BY <1>3, <1>6 DEF AckDelete, Store
  <2>2. db'[d].outbox = {x \in db[d].outbox : x.id # Current(d).id}
    BY <1>1, <2>1 DEF DeleteRow, Stores
  <2>3. r.id = Current(d).id
    BY <2>2
  <2>4. run[d].at = "delete" /\ run[d].at \in Sent
    BY <1>6, <2>1 DEF AckDelete, At, Sent
  <2>5. Current(d) \in run[d].todo /\ Current(d) = FirstIn(run[d].todo)
    BY <1>1, <2>4, InHand
  <2>6. r.ent = Current(d).ent /\ Hash(r) = Hash(Current(d))
    BY <1>1, <2>3, <2>5 DEF InStep
  <2>7. /\ run[d].ack \in DOMAIN log /\ log[run[d].ack].ent = Current(d).ent
        /\ Hash(log[run[d].ack]) = Hash(Current(d))
    BY <1>1, <2>4, <2>5 DEF Aware, InStep
  <2> QED BY <2>6, <2>7
<1>7. ASSUME NEW c \in Devices, TakeRemote(c) PROVE Pending(db'[d]) # Pending(db[d])
  <2>1. PICK x \in Pending(db[c]) : Store(c, UseRemote(db[c], x))
    BY <1>7 DEF TakeRemote, Edit
  <2>2. c = d /\ db'[d] = UseRemote(db[d], x)
    BY <1>3, <2>1 DEF Store
  <2>3. db'[d].conflicts = (db[d].conflicts \ {x}) \cup {[x EXCEPT !.st = "resolved"]}
    BY <1>1, <2>2 DEF UseRemote, Resolve, ApplyRemote, Stores
  <2>4. x \in db[d].conflicts /\ x.st = "pending" /\ x \in Pending(db[d])
    BY <2>1, <2>2 DEF Pending
  <2>5. [x EXCEPT !.st = "resolved"] # x
    <3>1. [x EXCEPT !.st = "resolved"].st = "resolved"
      BY <1>1, <2>4 DEF Stores
    <3> QED BY <2>4, <3>1
  <2>6. x \notin Pending(db'[d])
    BY <2>3, <2>5 DEF Pending
  <2> QED BY <2>4, <2>6
<1>8. ~(db' = db)
  BY <1>2
<1>9. ASSUME NEW q, ServeLate(q) \/ LoseLate(q) PROVE FALSE
  BY <1>8, <1>9 DEF ServeLate, LoseLate
<1>10. ~(UNCHANGED vars)
  BY <1>8 DEF vars
<1>11. Writers \subseteq Devices
  BY CloudSyncAssumption
<1> QED BY <1>4, <1>5, <1>6, <1>7, <1>9, <1>10, <1>11, KeepingSteps DEF Next, Work

\* A local change leaves the outbox only when the backend has it, when a
\* later local delete voids it, or when the owner takes the remote side:
\* no answer that is late, lost or of an earlier row takes it away.
THEOREM ChangesKeptCorrect == Spec => ChangesKept
<1>1. SInv /\ [Next]_vars =>
        [\A d \in Devices : LeavesAccounted(d)]_vars
  BY LeavesOutbox DEF LeavesAccounted
<1> QED BY <1>1, SettledInit, SettledNext, PTL DEF Spec, ChangesKept
-----------------------------------------------------------------------------
(* Backup and restore.  An envelope and an upload in progress are of a      *)
(* cursor the device once had, and the log never shrinks; a restored device *)
(* knows nothing of the log but its cursor.                                 *)

InProgress == [at : {"none", "exported", "cursor", "ready"},
               rec : [Ids -> Bodies \cup {None}] \cup {<<>>}, cursor : Nat, wm : Nat]

\* What a device is about to upload.
Enveloped(u) ==
  /\ u.cursor <= Len(log) /\ u.wm <= Len(log)
  /\ u.at # "none" => u.rec \in [Ids -> Bodies \cup {None}]

BackupInv ==
  /\ SInv /\ BackupTypeOK
  /\ cloud # None => (cloud.wm # None => cloud.wm <= Len(log))
  /\ upload \in [Devices -> InProgress] /\ \A d \in Devices : Enveloped(upload[d])

\* A set of numbers has a least one.
LEMMA LeastIn ==
  ASSUME NEW S, S \subseteq Nat, S # {}
  PROVE  Min(S) \in S /\ \A n \in S : Min(S) <= n
<1>1. PICK m \in S : \A k \in S : ~(<<k, m>> \in OpToRel(<, Nat))
  BY NatLessThanWellFounded, WFMin
<1>2. \A k \in S : k \in Nat /\ m \in Nat /\ ~(k < m)
  BY <1>1 DEF OpToRel
<1>3. \A k \in S : m <= k
  BY <1>2
<1> QED BY <1>1, <1>3 DEF Min

\* The watermark is no further than the cursor, and below what is parked.
LEMMA WatermarkOf ==
  ASSUME IInv, NEW d \in Devices, NEW n \in Nat
  PROVE  /\ Watermark(n, db[d]) \in Nat /\ Watermark(n, db[d]) <= n
         /\ \A x \in Pending(db[d]) : Watermark(n, db[d]) < x.c.seq
<1> DEFINE P == {x.c.seq : x \in Pending(db[d])}
           m == Min(P)
<1>1. ASSUME NEW x \in Pending(db[d]) PROVE x.c.seq \in Nat \ {0}
  <2>1. x.c.seq \in DOMAIN log
    BY Typed, Parked, RowVersion
  <2> QED BY <2>1, Typed, RowsFinite
<1>2. CASE Pending(db[d]) = {}
  BY <1>2 DEF Watermark
<1>3. CASE Pending(db[d]) # {}
  <2>1. P \subseteq Nat /\ P # {} /\ \A p \in P : p # 0
    BY <1>1, <1>3
  <2>2. m \in Nat /\ m # 0 /\ \A x \in Pending(db[d]) : m <= x.c.seq
    BY <2>1, LeastIn
  <2>3. Watermark(n, db[d]) = Min({n, m - 1})
    BY <1>3 DEF Watermark
  <2> HIDE DEF m, P
  <2>4. Watermark(n, db[d]) = IF n <= m - 1 THEN n ELSE m - 1
    BY <2>2, <2>3, MinOfTwo
  <2> QED BY <1>1, <2>2, <2>4
<1> QED BY <1>2, <1>3

LEMMA RestoredOK ==
  ASSUME IInv, NEW d \in Devices, NEW g, g.rec \in [Ids -> Bodies \cup {None}],
         g.wm \in Nat \cup {None}, g.wm # None => g.wm <= Len(log)
  PROVE  LET t == Restored(db[d], g)
         IN t \in Stores /\ Informed(t) /\ Settled(t) /\ t.outbox = {} /\ t.clock = db[d].clock
<1> DEFINE s == db[d]
           c == IF g.wm = None THEN s.cursor ELSE g.wm
           U == s.used \cup {i \in Ids : g.rec[i] # None}
           M == [i \in Ids |-> NoMeta]
           t == Restored(s, g)
<1>1. s \in Stores /\ Informed(s)
  BY Typed
<1>2. c \in Nat /\ c <= Len(log)
  BY <1>1 DEF Stores, Informed
<1>3. U \subseteq Ids /\ M \in [Ids -> Meta]
  BY <1>1, NoMetaType DEF Stores
<1>4. t = [s EXCEPT !.rec = g.rec, !.used = U, !.meta = M, !.outbox = {}, !.conflicts = {},
                    !.gated = TRUE, !.cursor = c]
  BY <1>1 DEF Restored, Stores
<1> HIDE DEF c, U, M, t
<1>5. t \in Stores /\ t.meta = M /\ t.outbox = {} /\ t.conflicts = {} /\ t.cursor = c
      /\ t.clock = s.clock
  BY <1>1, <1>2, <1>3, <1>4 DEF Stores
<1>6. \A e \in Ids : t.meta[e] = NoMeta
  BY <1>5 DEF M
<1>7. Informed(t)
  <2>1. \A e \in Ids : t.meta[e].ver <= HeadVer(e)
    <3>1. \A e \in Ids : t.meta[e].ver = 0 /\ HeadVer(e) \in Nat
      BY <1>6, Typed, RowsFinite DEF NoMeta
    <3> QED BY <3>1
  <2> QED BY <1>2, <1>5, <2>1 DEF Informed, OneId
<1>8. Settled(t)
  BY <1>6 DEF Settled, SettledAt, NoMeta
<1> QED BY <1>5, <1>7, <1>8 DEF t

LEMMA BackupInitially == BackupInit => BackupInv
<1> SUFFICES ASSUME BackupInit PROVE BackupInv
  OBVIOUS
<1>1. SInv /\ Len(log) = 0
  BY SettledInit DEF BackupInit, Init
<1>2. cloud # None => /\ cloud.rec \in [Ids -> Bodies \cup {None}]
                      /\ cloud.wm \in {0, None}
  BY CloudBackupAssumption DEF BackupInit
<1>3. upload \in [Devices -> InProgress]
      /\ \A d \in Devices : upload[d].at = "none" /\ upload[d].cursor = 0 /\ upload[d].wm = 0
  BY DEF BackupInit, NoUpload, InProgress
<1> QED BY <1>1, <1>2, <1>3 DEF BackupInv, BackupTypeOK, Enveloped

\* What holds of the cloud and of the uploads goes on to hold while the log grows.
LEMMA CloudKept ==
  ASSUME BackupInv, Grows, UNCHANGED <<cloud, upload>>, SInv'
  PROVE  BackupInv'
<1>1. Len(log) \in Nat /\ Len(log') \in Nat /\ Len(log) <= Len(log')
  BY SettledTyped, RowsFinite DEF Grows, BackupInv, SInv, IInv
<1>2. cloud # None => cloud.wm \in Nat \cup {None} /\ (cloud.wm # None => cloud.wm <= Len(log))
  BY DEF BackupInv, BackupTypeOK
<1>3. cloud' # None => (cloud'.wm # None => cloud'.wm <= Len(log'))
  BY <1>1, <1>2
<1>4. \A d \in Devices : Enveloped(upload[d])'
  BY <1>1 DEF BackupInv, BackupTypeOK, Enveloped
<1>5. BackupTypeOK'
  BY DEF BackupInv, BackupTypeOK
<1> QED BY <1>3, <1>4, <1>5 DEF BackupInv

\* A step of an upload, which is none of the devices' or the backend's.
LEMMA UploadKept == ASSUME BackupInv, NEW d \in Uploaders, UploadStep(d) PROVE BackupInv'
<1>1. d \in Devices
  BY CloudBackupAssumption
<1>2. /\ db[d] \in Stores /\ Informed(db[d]) /\ IInv /\ Len(log) \in Nat
      /\ db[d].rec \in [Ids -> Bodies \cup {None}] /\ db[d].cursor \in Nat
      /\ db[d].cursor <= Len(log)
  BY <1>1, SettledTyped, RowsFinite DEF BackupInv, Stores, Informed
<1>3. SInv' /\ log' = log
  <2>1. UNCHANGED vars
    BY DEF UploadStep, Export, ReadCursor, ReadConflicts, Upload, UploadFails
  <2> QED BY <2>1, SettledNext DEF BackupInv, vars
<1>4. ASSUME NEW u \in InProgress, Enveloped(u), upload' = [upload EXCEPT ![d] = u]
      PROVE  /\ upload' \in [Devices -> InProgress]
             /\ \A c \in Devices : Enveloped(upload'[c])
             /\ \A c \in Devices : /\ upload'[c].at \in {"none", "exported", "cursor", "ready"}
                                   /\ upload'[c].cursor \in Nat /\ upload'[c].wm \in Nat
  <2>1. upload' \in [Devices -> InProgress]
    BY <1>4 DEF BackupInv
  <2>2. \A c \in Devices : Enveloped(upload'[c])
    BY <1>1, <1>4 DEF BackupInv
  <2> QED BY <2>1, <2>2 DEF InProgress
<1>5. upload[d] \in InProgress /\ Enveloped(upload[d])
  BY <1>1 DEF BackupInv
<1>6. PICK u \in InProgress : Enveloped(u) /\ upload' = [upload EXCEPT ![d] = u]
  <2>1. CASE Export(d)
    <3> DEFINE u == [upload[d] EXCEPT !.at = "exported", !.rec = db[d].rec]
    <3>1. u \in InProgress /\ u.rec = db[d].rec /\ u.cursor = upload[d].cursor
          /\ u.wm = upload[d].wm
      BY <1>2, <1>5, <2>1 DEF InProgress, Export
    <3>2. upload' = [upload EXCEPT ![d] = u]
      BY <2>1 DEF Export
    <3> HIDE DEF u
    <3>3. Enveloped(u)
      BY <1>2, <1>5, <3>1 DEF Enveloped
    <3> QED BY <3>1, <3>2, <3>3
  <2>2. CASE ReadCursor(d)
    <3> DEFINE u == [upload[d] EXCEPT !.at = "cursor", !.cursor = db[d].cursor]
    <3>1. u \in InProgress /\ Enveloped(u)
      BY <1>2, <1>5, <2>2 DEF InProgress, Enveloped, ReadCursor
    <3>2. upload' = [upload EXCEPT ![d] = u]
      BY <2>2 DEF ReadCursor
    <3> QED BY <3>1, <3>2
  <2>3. CASE ReadConflicts(d)
    <3> DEFINE n == upload[d].cursor
               w == Watermark(n, db[d])
               u == [upload[d] EXCEPT !.at = "ready", !.wm = w]
    <3>1. n \in Nat /\ n <= Len(log)
      BY <1>5 DEF InProgress, Enveloped
    <3>2. w \in Nat /\ w <= n
      BY <1>1, <1>2, <3>1, WatermarkOf
    <3>3. upload' = [upload EXCEPT ![d] = u]
      BY <2>3 DEF ReadConflicts
    <3> HIDE DEF w
    <3>4. u \in InProgress /\ u.wm = w /\ u.cursor = n /\ u.rec = upload[d].rec
      BY <1>5, <3>2 DEF InProgress
    <3>5. upload[d].rec \in [Ids -> Bodies \cup {None}]
      BY <1>5, <2>3 DEF Enveloped, ReadConflicts
    <3>6. w <= Len(log)
      BY <1>2, <3>1, <3>2
    <3> HIDE DEF u, n
    <3>7. u \in InProgress /\ Enveloped(u)
      BY <3>1, <3>4, <3>5, <3>6 DEF Enveloped
    <3> QED BY <3>3, <3>7
  <2>4. CASE Upload(d) \/ UploadFails(d)
    <3>1. NoUpload \in InProgress /\ Enveloped(NoUpload)
      BY <1>2 DEF NoUpload, InProgress, Enveloped
    <3> QED BY <2>4, <3>1 DEF Upload, UploadFails
  <2> QED BY <2>1, <2>2, <2>3, <2>4 DEF UploadStep
<1>7. cloud' # None => /\ cloud'.rec \in [Ids -> Bodies \cup {None}]
                       /\ cloud'.wm \in Nat \cup {None}
                       /\ cloud'.wm # None => cloud'.wm <= Len(log)
  <2>1. CASE Upload(d)
    <3>1. /\ upload[d].wm \in Nat /\ upload[d].wm <= Len(log)
          /\ upload[d].rec \in [Ids -> Bodies \cup {None}]
      BY <1>5, <2>1 DEF InProgress, Enveloped, Upload
    <3>2. cloud' = [rec |-> upload[d].rec, wm |-> upload[d].wm]
      BY <2>1 DEF Upload
    <3> QED BY <3>1, <3>2
  <2>2. CASE cloud' = cloud
    BY <2>2 DEF BackupInv, BackupTypeOK
  <2> QED BY <2>1, <2>2 DEF UploadStep, Export, ReadCursor, ReadConflicts, UploadFails
<1>8. \A c \in Devices : Enveloped(upload[c])'
  BY <1>3, <1>4, <1>6 DEF Enveloped
<1> QED BY <1>3, <1>4, <1>6, <1>7, <1>8 DEF BackupInv, BackupTypeOK

LEMMA RestoreStep == ASSUME BackupInv, NEW d \in Restorers, Restore(d) PROVE BackupInv'
<1> DEFINE t == Restored(db[d], cloud)
<1>1. d \in Devices /\ IInv /\ SInv
  BY CloudBackupAssumption, SettledTyped DEF BackupInv, SInv
<1>2. t \in Stores /\ Informed(t) /\ Settled(t) /\ t.outbox = {} /\ t.clock = db[d].clock
  BY <1>1, RestoredOK DEF Restore, BackupInv, BackupTypeOK
<1> HIDE DEF t
<1>3. Edit(d, t) /\ UNCHANGED <<cloud, upload>> /\ log' = log
  BY DEF Restore, Edit, t
<1>4. IInv' /\ Grows
  BY <1>1, <1>2, <1>3, EditStep, SameGrows, Typed
<1>5. db[d].clock \in Nat
  BY <1>1, Typed DEF Stores
<1>6. Leaves(d)
  BY <1>1, <1>2, <1>3, <1>5, LeaveEdit
<1>7. SInv'
  BY <1>1, <1>4, <1>6, LeavesKept
<1> QED BY <1>3, <1>4, <1>7, CloudKept

LEMMA BackupNextStep == BackupInv /\ [BackupNext]_bvars => BackupInv'
<1> SUFFICES ASSUME BackupInv, [BackupNext]_bvars PROVE BackupInv'
  OBVIOUS
<1>1. CASE [Next]_vars /\ UNCHANGED <<cloud, upload>>
  <2>1. SInv' /\ Grows
    BY <1>1, SettledNext, EveryStepGrows DEF BackupInv, SInv
  <2> QED BY <1>1, <2>1, CloudKept
<1>2. ASSUME NEW d \in Uploaders, UploadStep(d) PROVE BackupInv'
  BY <1>2, UploadKept
<1>3. ASSUME NEW d \in Restorers, Restore(d) PROVE BackupInv'
  BY <1>3, RestoreStep
<1>4. UNCHANGED bvars => [Next]_vars /\ UNCHANGED <<cloud, upload>>
  BY DEF bvars, vars
<1> QED BY <1>1, <1>2, <1>3, <1>4 DEF BackupNext

\* With backups and restores, what devices store of the log, and what the
\* cloud holds of it, is true of it throughout.
THEOREM BackupInvariance == BackupSpec => []BackupInv
<1>1. BackupInit => BackupInv
  BY BackupInitially
<1>2. BackupInv /\ [BackupNext]_bvars => BackupInv'
  BY BackupNextStep
<1> QED BY <1>1, <1>2, PTL DEF BackupSpec

\* Cloud and uploads keep their shape.
THEOREM BackupTypeCorrect == BackupSpec => []BackupTypeOK
<1>1. BackupInv => BackupTypeOK
  BY DEF BackupInv
<1> QED BY <1>1, BackupInvariance, PTL

\* Not even a restore, whichever envelope it is of and whatever run it
\* interrupts, puts a cursor or a stored version ahead of the backend.
THEOREM NeverAheadWithRestores == BackupSpec => []NeverAhead
<1>1. BackupInv => NeverAhead
  BY DEF BackupInv, SInv, IInv, Informed, NeverAhead
<1> QED BY <1>1, BackupInvariance, PTL

\* Nor does it show a record as synced that is not as the log left it.
THEOREM SyncedIsLoggedWithRestores == BackupSpec => []SyncedIsLogged
<1>1. BackupInv => SyncedIsLogged
  BY SettledIsLogged DEF BackupInv
<1> QED BY <1>1, BackupInvariance, PTL

\* Nor does it, but for the device it is made on, take a local change away that
\* the backend has not got.
THEOREM KeptUnlessRestoredCorrect == BackupSpec => KeptUnlessRestored
<1>1. BackupInv /\ [BackupNext]_bvars =>
        [\A d \in Devices : (d \in Restorers /\ Restore(d)) \/ LeavesAccounted(d)]_bvars
  <2> SUFFICES ASSUME BackupInv, BackupNext, NEW d \in Devices,
                      ~(d \in Restorers /\ Restore(d))
               PROVE  LeavesAccounted(d)
    BY DEF bvars
  <2>1. CASE [Next]_vars
    BY <2>1, LeavesOutbox DEF LeavesAccounted, BackupInv
  <2>2. ASSUME NEW c \in Uploaders, UploadStep(c) PROVE [Next]_vars
    BY <2>2 DEF UploadStep, Export, ReadCursor, ReadConflicts, Upload, UploadFails
  <2>3. ASSUME NEW c \in Restorers, Restore(c), c # d PROVE LeavesAccounted(d)
    <3>1. db \in [Devices -> Stores]
      BY SettledTyped DEF BackupInv
    <3>2. db'[d] = db[d]
      BY <2>3, <3>1 DEF Restore, Edit, Store
    <3> QED BY <3>2 DEF LeavesAccounted
  <2> QED BY <2>1, <2>2, <2>3 DEF BackupNext
<1> QED BY <1>1, BackupInvariance, PTL DEF BackupSpec, KeptUnlessRestored
-----------------------------------------------------------------------------
(* What an upload covers.  The page in hand is what comes next after the     *)
(* cursor, so that a cursor which no restore takes back only climbs, and     *)
(* what is parked later lies beyond it.                                      *)

Onward(s, u) ==
  /\ \A k \in DOMAIN u.page : u.page[k].seq = s.cursor + k
  /\ u.at = "write" => u.ack > s.cursor

Climbs(s, t) ==
  /\ s.cursor <= t.cursor
  /\ \A x \in Pending(t) : x \in Pending(s) \/ s.cursor < x.c.seq

\* The device stays where it is in the log and parks nothing.
Stays(s, t, u, v) ==
  /\ t.cursor = s.cursor /\ Pending(t) \subseteq Pending(s)
  /\ v.page \in {u.page, <<>>}
  /\ v.at = "write" => u.at = "write" /\ v.ack = u.ack

LEMMA StaysOnward ==
  ASSUME NEW s \in Stores, NEW t, NEW u, NEW v, Onward(s, u), Stays(s, t, u, v)
  PROVE  Onward(t, v) /\ Climbs(s, t)
<1>1. s.cursor \in Nat
  BY DEF Stores
<1>2. \A k \in DOMAIN v.page : v.page[k].seq = s.cursor + k
  <2>1. CASE v.page = u.page
    BY <2>1 DEF Onward
  <2>2. CASE v.page = <<>>
    BY <2>2
  <2> QED BY <2>1, <2>2 DEF Stays
<1> QED BY <1>1, <1>2 DEF Onward, Stays, Climbs

LEMMA ResolvedLess ==
  ASSUME NEW s \in Stores, NEW x \in Pending(s), NEW t,
         t.conflicts = (s.conflicts \ {x}) \cup {[x EXCEPT !.st = "resolved"]}
  PROVE  Pending(t) \subseteq Pending(s)
<1>1. [x EXCEPT !.st = "resolved"].st = "resolved"
  BY DEF Pending, Stores
<1> QED BY <1>1 DEF Pending

LEMMA StayingSteps ==
  ASSUME IInv, NEW d \in Devices,
         \/ FetchFails(d) \/ ReadMeta(d) \/ PullDone(d) \/ ListPending(d) \/ DropFolded(d)
         \/ Send(d) \/ Answered(d) \/ NoAnswer(d) \/ RecordFailure(d) \/ AckDelete(d)
         \/ AckMeta(d) \/ Kill(d) \/ Start(d)
         \/ Create(d) \/ Save(d) \/ Discard(d) \/ TakeRemote(d) \/ TakeLocal(d)
  PROVE  Stays(db[d], db'[d], run[d], run'[d])
<1> DEFINE s == db[d]
           u == run[d]
<1>1. s \in Stores /\ u \in Runs /\ db \in [Devices -> Stores] /\ run \in [Devices -> Runs]
  BY Typed DEF IInv, TypeOK
<1>2. \A f, w : Pushing(f, w).page = <<>> /\ Pushing(f, w).at # "write"
  BY DEF Pushing, Idle
<1>3. CASE FetchFails(d) \/ ReadMeta(d) \/ PullDone(d) \/ Send(d) \/ Answered(d) \/ NoAnswer(d)
           \/ Start(d)
  <2>1. db' = db
    BY <1>3 DEF FetchFails, ReadMeta, PullDone, Send, Answered, NoAnswer, Start
  <2>2. run'[d].page = u.page /\ run'[d].at # "write"
    BY <1>1, <1>3 DEF FetchFails, ReadMeta, PullDone, Send, Answered, NoAnswer, Start, Goto, Runs
  <2> QED BY <2>1, <2>2 DEF Stays
<1>4. CASE ListPending(d)
  <2>1. PICK f, w : run' = [run EXCEPT ![d] = Pushing(f, w)] /\ db' = db
    BY <1>4 DEF ListPending, List
  <2>2. run'[d] = Pushing(f, w)
    BY <1>1, <2>1
  <2> QED BY <1>2, <2>1, <2>2 DEF Stays
<1>5. CASE Kill(d)
  <2>1. run'[d] = [Idle EXCEPT !.at = "dead"] /\ db' = db
    BY <1>1, <1>5 DEF Kill
  <2>2. run'[d].page = <<>> /\ run'[d].at = "dead"
    BY <2>1 DEF Idle
  <2> QED BY <2>1, <2>2 DEF Stays
<1>6. CASE DropFolded(d)
  <2>1. PICK r \in u.fold : /\ Store(d, DeleteRow(s, r))
                            /\ run' = [run EXCEPT ![d] = Pushing(@.fold \ {r}, @.todo)]
    BY <1>6 DEF DropFolded
  <2>2. db'[d] = DeleteRow(s, r) /\ run'[d] = Pushing(u.fold \ {r}, u.todo)
    BY <1>1, <2>1 DEF Store
  <2>3. db'[d].cursor = s.cursor /\ db'[d].conflicts = s.conflicts
    BY <1>1, <2>2 DEF DeleteRow, Stores
  <2> QED BY <1>2, <2>2, <2>3 DEF Stays, Pending
<1>7. CASE RecordFailure(d)
  <2>1. db'[d] = MarkFailed(s, Current(d)) /\ run'[d] = Pushing({}, u.todo \ {Current(d)})
    BY <1>1, <1>7 DEF RecordFailure, NextRow, Store
  <2>2. db'[d].cursor = s.cursor /\ db'[d].conflicts = s.conflicts
    BY <1>1, <2>1 DEF MarkFailed, Stores
  <2> QED BY <1>2, <2>1, <2>2 DEF Stays, Pending
<1>8. CASE AckDelete(d)
  <2>1. db'[d] = DeleteRow(s, Current(d)) /\ run'[d] = [u EXCEPT !.at = "meta"]
    BY <1>1, <1>8 DEF AckDelete, Store, Goto
  <2>2. db'[d].cursor = s.cursor /\ db'[d].conflicts = s.conflicts
    BY <1>1, <2>1 DEF DeleteRow, Stores
  <2>3. run'[d].page = u.page /\ run'[d].at = "meta"
    BY <1>1, <2>1 DEF Runs
  <2> QED BY <2>2, <2>3 DEF Stays, Pending
<1>9. CASE AckMeta(d)
  <2>1. db'[d] = MarkPushAcknowledged(s, Current(d), log[u.ack].ver)
        /\ run'[d] = [u EXCEPT !.at = "cursor"]
    BY <1>1, <1>9 DEF AckMeta, Store, Goto
  <2>2. db'[d].cursor = s.cursor /\ db'[d].conflicts = s.conflicts
    BY <1>1, <2>1 DEF MarkPushAcknowledged, Stores
  <2>3. run'[d].page = u.page /\ run'[d].at = "cursor"
    BY <1>1, <2>1 DEF Runs
  <2> QED BY <2>2, <2>3 DEF Stays, Pending
<1>10. CASE Create(d) \/ Save(d) \/ Discard(d) \/ TakeRemote(d) \/ TakeLocal(d)
  <2>1. PICK t : Edit(d, t) /\ t.cursor = s.cursor /\ Pending(t) \subseteq Pending(s)
    <3>1. CASE Create(d)
      <4>1. PICK i, b : Edit(d, CreateRecord(s, i, b))
        BY <3>1 DEF Create
      <4>2. CreateRecord(s, i, b).cursor = s.cursor
            /\ CreateRecord(s, i, b).conflicts = s.conflicts
        BY <1>1 DEF CreateRecord, EnqueueChange, Stores
      <4> QED BY <4>1, <4>2 DEF Pending
    <3>2. CASE Save(d)
      <4>1. PICK i, b : Edit(d, UpdateRecord(s, i, b))
        BY <3>2 DEF Save
      <4>2. UpdateRecord(s, i, b).cursor = s.cursor
            /\ UpdateRecord(s, i, b).conflicts = s.conflicts
        BY <1>1 DEF UpdateRecord, EnqueueChange, Stores
      <4> QED BY <4>1, <4>2 DEF Pending
    <3>3. CASE Discard(d)
      <4>1. PICK i : Edit(d, DeleteRecord(s, i))
        BY <3>3 DEF Discard
      <4>2. DeleteRecord(s, i).cursor = s.cursor /\ DeleteRecord(s, i).conflicts = s.conflicts
        BY <1>1 DEF DeleteRecord, EnqueueChange, Stores
      <4> QED BY <4>1, <4>2 DEF Pending
    <3>4. CASE TakeRemote(d)
      <4>1. PICK x \in Pending(s) : Edit(d, UseRemote(s, x))
        BY <3>4 DEF TakeRemote
      <4>2. UseRemote(s, x).cursor = s.cursor
            /\ UseRemote(s, x).conflicts
                 = (s.conflicts \ {x}) \cup {[x EXCEPT !.st = "resolved"]}
        BY <1>1 DEF UseRemote, Resolve, ApplyRemote, Stores
      <4> QED BY <1>1, <4>1, <4>2, ResolvedLess
    <3>5. CASE TakeLocal(d)
      <4>1. PICK x \in Pending(s) : Edit(d, UseLocal(s, x))
        BY <3>5 DEF TakeLocal
      <4>2. UseLocal(s, x).cursor = s.cursor
            /\ UseLocal(s, x).conflicts
                 = (s.conflicts \ {x}) \cup {[x EXCEPT !.st = "resolved"]}
        BY <1>1 DEF UseLocal, Resolve, EnqueueChange, Stores
      <4> QED BY <1>1, <4>1, <4>2, ResolvedLess
    <3> QED BY <1>10, <3>1, <3>2, <3>3, <3>4, <3>5
  <2>2. db'[d] = t /\ run' = run
    BY <1>1, <2>1 DEF Edit, Store
  <2> QED BY <2>1, <2>2 DEF Stays
<1> QED BY <1>3, <1>4, <1>5, <1>6, <1>7, <1>8, <1>9, <1>10

LEMMA FetchOnward ==
  ASSUME IInv, NEW d \in Devices, FetchPage(d)
  PROVE  Onward(db'[d], run'[d]) /\ Climbs(db[d], db'[d])
<1> DEFINE g == Page(db[d].cursor)
           u == [Idle EXCEPT !.at = "pull", !.page = g]
<1>1. db[d].cursor \in Nat /\ db[d].cursor <= Len(log) /\ TypeOK /\ LogOK
      /\ run \in [Devices -> Runs]
  BY Typed DEF IInv, TypeOK, Informed, Stores
<1>2. db' = db /\ run'[d] = u
  BY <1>1 DEF FetchPage
<1>3. \A k \in DOMAIN g : g[k].seq = db[d].cursor + k
  BY <1>1, PageNext
<1> HIDE DEF g
<1>4. u.page = g /\ u.at = "pull"
  BY DEF Idle
<1> QED BY <1>1, <1>2, <1>3, <1>4 DEF Onward, Climbs

LEMMA MergeOnward ==
  ASSUME IInv, NEW d \in Devices, Merge(d), Onward(db[d], run[d])
  PROVE  Onward(db'[d], run'[d]) /\ Climbs(db[d], db'[d])
<1> DEFINE s == db[d]
           g == run[d].page
           c == Head(g)
           t == MergeChange(s, run[d].seen, c)
           v == [run[d] EXCEPT !.at = "pull", !.page = Tail(@), !.seen = NoMeta]
<1>1. /\ s \in Stores /\ run[d] \in Runs /\ s.cursor \in Nat /\ g \in Seq(Change) /\ g # <<>>
      /\ db \in [Devices -> Stores] /\ run \in [Devices -> Runs]
  BY Typed DEF IInv, TypeOK, Merge, At, Aware, Stores, Runs
<1>2. db'[d] = t /\ run'[d] = v
  BY <1>1 DEF Merge, Store
<1>3. /\ DOMAIN g = 1..Len(g) /\ 1 \in DOMAIN g /\ c = g[1]
      /\ DOMAIN Tail(g) = 1..(Len(g) - 1)
      /\ \A k \in DOMAIN Tail(g) : Tail(g)[k] = g[k + 1] /\ k + 1 \in DOMAIN g
  BY <1>1
<1>4. c.seq = s.cursor + 1
  BY <1>3 DEF Onward
<1>5. t.cursor = c.seq /\ \A x \in Pending(t) : x \in Pending(s) \/ x.c = c
  <2>1. PICK p : /\ t = WriteCursor(p, c.seq) /\ p \in {s, ApplyRemote(s, c), Park(s, c)}
    BY DEF MergeChange
  <2>2. "cursor" \in DOMAIN p /\ "conflicts" \in DOMAIN p
        /\ \A x \in p.conflicts : x \in s.conflicts \/ x.c = c
    <3>1. CASE p = s
      BY <1>1, <3>1 DEF Stores
    <3>2. CASE p = ApplyRemote(s, c)
      BY <1>1, <3>2 DEF ApplyRemote, Stores
    <3>3. CASE p = Park(s, c)
      BY <1>1, <3>3 DEF Park, Stores
    <3> QED BY <2>1, <3>1, <3>2, <3>3
  <2>3. t.cursor = c.seq /\ t.conflicts = p.conflicts
    BY <2>1, <2>2 DEF WriteCursor
  <2> QED BY <2>2, <2>3 DEF Pending
<1> HIDE DEF t
<1>6. v.page = Tail(g) /\ v.at = "pull"
  BY <1>1 DEF Runs
<1>7. \A k \in DOMAIN v.page : v.page[k].seq = t.cursor + k
  <2> SUFFICES ASSUME NEW k \in 1..(Len(g) - 1) PROVE Tail(g)[k].seq = t.cursor + k
    BY <1>3, <1>6
  <2>1. Tail(g)[k] = g[k + 1] /\ k + 1 \in DOMAIN g
    BY <1>3
  <2>2. g[k + 1].seq = s.cursor + (k + 1)
    BY <2>1 DEF Onward
  <2>3. t.cursor = s.cursor + 1
    BY <1>4, <1>5
  <2>4. \A a \in Nat : a + (k + 1) = (a + 1) + k
    OBVIOUS
  <2> QED BY <1>1, <2>1, <2>2, <2>3, <2>4, Zenon
<1> QED BY <1>1, <1>2, <1>4, <1>5, <1>6, <1>7 DEF Onward, Climbs

LEMMA AckOnward ==
  ASSUME IInv, NEW d \in Devices, AckReadCursor(d) \/ AckWriteCursor(d), Onward(db[d], run[d])
  PROVE  Onward(db'[d], run'[d]) /\ Climbs(db[d], db'[d])
<1> DEFINE s == db[d]
           u == run[d]
<1>1. /\ s \in Stores /\ u \in Runs /\ s.cursor \in Nat /\ u.ack \in Nat
      /\ db \in [Devices -> Stores] /\ run \in [Devices -> Runs]
  BY Typed DEF IInv, TypeOK, Stores, Runs
<1>2. \A w : Pushing({}, w).page = <<>> /\ Pushing({}, w).at # "write"
  BY DEF Pushing, Idle
<1>3. CASE AckReadCursor(d) /\ u.ack > s.cursor
  <2>1. db' = db /\ run'[d] = [u EXCEPT !.at = "write"]
    BY <1>1, <1>3 DEF AckReadCursor, Goto
  <2>2. run'[d].page = u.page /\ run'[d].ack = u.ack
    BY <1>1, <2>1 DEF Runs
  <2> QED BY <1>1, <1>3, <2>1, <2>2 DEF Onward, Climbs
<1>4. CASE AckReadCursor(d) /\ ~(u.ack > s.cursor)
  <2>1. db'[d] = s /\ run'[d] = Pushing({}, u.todo \ {Current(d)})
    BY <1>1, <1>4 DEF AckReadCursor, NextRow, Store
  <2>2. Stays(s, db'[d], u, run'[d])
    BY <1>2, <2>1 DEF Stays
  <2> QED BY <1>1, <2>2, StaysOnward
<1>5. CASE AckWriteCursor(d)
  <2>1. db'[d] = WriteCursor(s, u.ack) /\ run'[d] = Pushing({}, u.todo \ {Current(d)})
    BY <1>1, <1>5 DEF AckWriteCursor, NextRow, Store
  <2>2. db'[d].cursor = u.ack /\ db'[d].conflicts = s.conflicts
    BY <1>1, <2>1 DEF WriteCursor, Stores
  <2>3. u.ack > s.cursor
    BY <1>5 DEF AckWriteCursor, At, Onward
  <2> QED BY <1>1, <1>2, <2>1, <2>2, <2>3 DEF Onward, Climbs, Pending
<1> QED BY <1>3, <1>4, <1>5

\* Whatever a device does, its cursor climbs and what it parks is ahead of it.
LEMMA OnwardNext ==
  ASSUME IInv, [Next]_vars, NEW d \in Devices, Onward(db[d], run[d])
  PROVE  Onward(db'[d], run'[d]) /\ Climbs(db[d], db'[d])
<1>1. /\ db[d] \in Stores /\ db[d].cursor \in Nat
      /\ db \in [Devices -> Stores] /\ run \in [Devices -> Runs]
  BY Typed DEF IInv, TypeOK, Stores
<1>2. CASE db'[d] = db[d] /\ run'[d] = run[d]
  BY <1>1, <1>2 DEF Climbs
<1>3. ASSUME NEW c \in Devices, c # d,
             FetchPage(c) \/ FetchFails(c) \/ Work(c) \/ Answered(c) \/ NoAnswer(c) \/ Kill(c)
      PROVE  db'[d] = db[d] /\ run'[d] = run[d]
  BY <1>1, <1>3, OthersStay
<1>4. ASSUME FetchPage(d) \/ FetchFails(d) \/ Work(d) \/ Answered(d) \/ NoAnswer(d) \/ Kill(d)
      PROVE  Onward(db'[d], run'[d]) /\ Climbs(db[d], db'[d])
  BY <1>1, <1>4, FetchOnward, MergeOnward, AckOnward, StayingSteps, StaysOnward DEF Work
<1>5. ASSUME NEW c \in Writers, c # d,
             Create(c) \/ Save(c) \/ Discard(c) \/ TakeRemote(c) \/ TakeLocal(c)
      PROVE  db'[d] = db[d] /\ run'[d] = run[d]
  BY <1>1, <1>5 DEF Create, Save, Discard, TakeRemote, TakeLocal, Edit, Store
<1>6. ASSUME Create(d) \/ Save(d) \/ Discard(d) \/ TakeRemote(d) \/ TakeLocal(d)
      PROVE  Onward(db'[d], run'[d]) /\ Climbs(db[d], db'[d])
  BY <1>1, <1>6, StayingSteps, StaysOnward
<1>7. ASSUME NEW q, ServeLate(q) \/ LoseLate(q) PROVE db'[d] = db[d] /\ run'[d] = run[d]
  BY <1>7 DEF ServeLate, LoseLate
<1>8. CASE UNCHANGED vars
  BY <1>2, <1>8 DEF vars
<1> QED BY <1>2, <1>3, <1>4, <1>5, <1>6, <1>7, <1>8 DEF Next

\* An upload under way: its cursor is one the device had, its watermark below
\* all that is parked, now or later.
Safe(s, w) ==
  /\ w.at \in {"cursor", "ready"} => w.cursor <= s.cursor
  /\ w.at = "ready" => w.wm <= w.cursor /\ \A x \in Pending(s) : w.wm < x.c.seq

LEMMA SafeKept ==
  ASSUME IInv', NEW d \in Devices, NEW s \in Stores, NEW w \in InProgress,
         Safe(s, w), Climbs(s, db'[d])
  PROVE  Safe(db'[d], w)
<1> DEFINE t == db'[d]
<1>1. t \in Stores /\ s.cursor \in Nat /\ t.cursor \in Nat /\ w.cursor \in Nat /\ w.wm \in Nat
  BY DEF IInv, TypeOK, Stores, InProgress
<1>2. ASSUME NEW x \in Pending(t) PROVE x.c.seq \in Nat
  BY <1>1 DEF Pending, Stores, Change
<1> HIDE DEF t
<1>3. s.cursor <= t.cursor /\ \A x \in Pending(t) : x \in Pending(s) \/ s.cursor < x.c.seq
  BY DEF Climbs, t
<1>4. w.at \in {"cursor", "ready"} => w.cursor <= t.cursor
  BY <1>1, <1>3 DEF Safe
<1>5. ASSUME w.at = "ready", NEW x \in Pending(t) PROVE w.wm < x.c.seq
  <2>1. w.wm <= w.cursor /\ w.cursor <= s.cursor
    BY <1>5 DEF Safe
  <2>2. CASE x \in Pending(s)
    BY <1>5, <2>2 DEF Safe
  <2>3. CASE s.cursor < x.c.seq
    BY <1>1, <1>2, <1>5, <2>1, <2>3
  <2> QED BY <1>3, <1>5, <2>2, <2>3
<1> QED BY <1>4, <1>5 DEF Safe, t

\* The devices that upload and are not restored.
Keepers == Uploaders \ Restorers

PInv ==
  /\ BackupInv
  /\ \A d \in Keepers : Onward(db[d], run[d]) /\ Safe(db[d], upload[d])

LEMMA KeepersInit == BackupInit => PInv
<1> SUFFICES ASSUME BackupInit, NEW d \in Keepers
             PROVE  BackupInv /\ Onward(db[d], run[d]) /\ Safe(db[d], upload[d])
  BY BackupInitially DEF PInv
<1>1. d \in Devices
  BY CloudBackupAssumption DEF Keepers
<1>2. run[d].at = "idle" /\ run[d].page = <<>> /\ upload[d].at = "none"
  BY <1>1 DEF BackupInit, Init, Idle, NoUpload
<1> QED BY <1>2, BackupInitially DEF Onward, Safe

LEMMA KeepersNext == PInv /\ [BackupNext]_bvars => PInv'
<1> SUFFICES ASSUME PInv, [BackupNext]_bvars, NEW d \in Keepers
             PROVE  Onward(db'[d], run'[d]) /\ Safe(db'[d], upload'[d])
  BY BackupNextStep DEF PInv
<1>1. /\ BackupInv /\ BackupInv' /\ IInv /\ IInv' /\ d \in Devices
      /\ Onward(db[d], run[d]) /\ Safe(db[d], upload[d]) /\ upload[d] \in InProgress
      /\ db[d] \in Stores /\ db[d].cursor \in Nat /\ db \in [Devices -> Stores]
  BY BackupNextStep, CloudBackupAssumption
     DEF PInv, Keepers, BackupInv, SInv, IInv, TypeOK, Stores
<1>2. CASE [Next]_vars /\ UNCHANGED <<cloud, upload>>
  <2>1. Onward(db'[d], run'[d]) /\ Climbs(db[d], db'[d])
    BY <1>1, <1>2, OnwardNext
  <2> QED BY <1>1, <1>2, <2>1, SafeKept
<1>3. ASSUME NEW c \in Uploaders, UploadStep(c)
      PROVE  Onward(db'[d], run'[d]) /\ Safe(db'[d], upload'[d])
  <2>1. db' = db /\ run' = run
    BY <1>3 DEF UploadStep, Export, ReadCursor, ReadConflicts, Upload, UploadFails, vars
  <2>2. upload \in [Devices -> InProgress]
    BY <1>1 DEF BackupInv
  <2>3. CASE c # d
    <3>1. upload'[d] = upload[d]
      BY <1>1, <1>3, <2>2, <2>3 DEF UploadStep, Export, ReadCursor, ReadConflicts, Upload, UploadFails
    <3> QED BY <1>1, <2>1, <3>1
  <2>4. CASE c = d
    <3>1. CASE Export(d)
      <4>1. upload'[d].at = "exported"
        BY <1>1, <2>2, <3>1 DEF Export, InProgress
      <4> QED BY <1>1, <2>1, <4>1 DEF Safe
    <3>2. CASE ReadCursor(d)
      <4>1. upload'[d].at = "cursor" /\ upload'[d].cursor = db[d].cursor
        BY <1>1, <2>2, <3>2 DEF ReadCursor, InProgress
      <4> QED BY <1>1, <2>1, <4>1 DEF Safe
    <3>3. CASE ReadConflicts(d)
      <4> DEFINE n == upload[d].cursor
                 m == Watermark(n, db[d])
      <4>1. n \in Nat /\ n <= db[d].cursor
        BY <1>1, <3>3 DEF ReadConflicts, InProgress, Safe
      <4>2. m <= n /\ \A x \in Pending(db[d]) : m < x.c.seq
        BY <1>1, <4>1, WatermarkOf
      <4>3. upload'[d] = [upload[d] EXCEPT !.at = "ready", !.wm = m]
        BY <1>1, <2>2, <3>3 DEF ReadConflicts
      <4> HIDE DEF m
      <4>4. upload'[d].at = "ready" /\ upload'[d].wm = m /\ upload'[d].cursor = n
        BY <1>1, <4>3 DEF InProgress
      <4> QED BY <1>1, <2>1, <4>1, <4>2, <4>4 DEF Safe
    <3>4. CASE Upload(d) \/ UploadFails(d)
      <4>1. upload'[d].at = "none"
        BY <1>1, <2>2, <3>4 DEF Upload, UploadFails, NoUpload
      <4> QED BY <1>1, <2>1, <4>1 DEF Safe
    <3> QED BY <1>3, <2>4, <3>1, <3>2, <3>3, <3>4 DEF UploadStep
  <2> QED BY <2>3, <2>4
<1>4. ASSUME NEW c \in Restorers, Restore(c)
      PROVE  Onward(db'[d], run'[d]) /\ Safe(db'[d], upload'[d])
  <2>1. c # d
    BY DEF Keepers
  <2>2. db'[d] = db[d] /\ run' = run /\ upload' = upload
    BY <1>1, <1>4, <2>1 DEF Restore, Edit, Store
  <2> QED BY <1>1, <2>2
<1>5. UNCHANGED bvars => [Next]_vars /\ UNCHANGED <<cloud, upload>>
  BY DEF bvars, vars
<1> QED BY <1>2, <1>3, <1>4, <1>5 DEF BackupNext

\* No upload covers a change that is parked on its device by then, whatever
\* is pulled, acknowledged, parked and resolved between its readings.
THEOREM ParkedNotCoveredCorrect == BackupSpec => ParkedNotCovered
<1>1. ASSUME PInv, NEW d \in Keepers, Upload(d), NEW x \in Pending(db[d])
      PROVE  cloud'.wm < x.c.seq
  <2>1. cloud'.wm = upload[d].wm
    BY <1>1 DEF Upload
  <2> QED BY <1>1, <2>1 DEF PInv, Safe, Upload
<1>2. PInv /\ [BackupNext]_bvars =>
        [\A d \in Uploaders \ Restorers :
           Upload(d) => \A x \in Pending(db[d]) : cloud'.wm < x.c.seq]_bvars
  BY <1>1 DEF Keepers
<1> QED BY <1>2, KeepersInit, KeepersNext, PTL DEF BackupSpec, ParkedNotCovered
=============================================================================
