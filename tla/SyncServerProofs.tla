-------------------------- MODULE SyncServerProofs --------------------------
(***************************************************************************)
(* Proofs about SyncServer, for every set of request threads, accounts,    *)
(* entities, hashes and batches.                                           *)
(*                                                                         *)
(* The inductive invariant IInv says of the open transaction's view what   *)
(* the properties say of the committed tables, and that the view extends   *)
(* the committed rows of the writer's account at their end.  LInv adds     *)
(* that the view and the answer collected so far are what PushLog makes of *)
(* the part of the batch that is done, which makes the commit its step.    *)
(***************************************************************************)
EXTENDS SyncServerLog, FiniteSetTheorems, WellFoundedInduction, TLAPS

\* Everything that makes a log and its heads correct.
WellFormed(S, H) ==
  GapFree(S) /\ KeysUnique(S) /\ Chained(S) /\ HeadsMatch(S, H)

\* T is S with rows added at its end.
ExtendsLog(S, T) ==
  S \subseteq T /\ \A r \in T \ S : r.seq > MaxSeq(S)

Committed(a) == WellFormed(changes[a], heads[a])

LogsOK == \A a \in Accounts : Committed(a)

LockOK ==
  /\ \A h \in Handlers : pc[h] = "writing" <=> writer = h
  /\ \A h \in Handlers : pc[h] # "idle" => acct[h] \in Accounts

TxnOK ==
  \A h \in Handlers :
    writer = h => /\ WellFormed(wrows, wheads)
                  /\ ExtendsLog(changes[acct[h]], wrows)

\* Row r is the one an accepted answer x speaks of.
Logged(x, S) == \E r \in S : r.ent = x.ent /\ r.seq = x.seq /\ r.ver = x.ver

RepliesOK ==
  \A h \in Handlers :
    /\ pc[h] = "writing" => \A x \in reply[h].accepted : Logged(x, wrows)
    /\ pc[h] = "done" => \A x \in reply[h].accepted : Logged(x, changes[acct[h]])

\* A page answers for an account, and its cursor is not past the log.
PagesOK ==
  \A h \in Handlers :
    reply[h].kind = "pull" =>
      /\ pc[h] = "done"
      /\ reply[h].next = reply[h].since \/ reply[h].next <= MaxSeq(changes[acct[h]])
      /\ reply[h].page = {r \in changes[acct[h]] :
                            reply[h].since < r.seq /\ r.seq <= reply[h].next}

IInv == TypeOK /\ LogsOK /\ LockOK /\ TxnOK /\ RepliesOK /\ PagesOK
-----------------------------------------------------------------------------
\* The largest server_seq of rows numbered 1..n is n.
LEMMA MaxSeqOfRange ==
  ASSUME NEW S \in SUBSET Row, NEW n \in Nat, Seqs(S) = 1..n
  PROVE  MaxSeq(S) = n
<1>1. CASE S = {}
  <2>1. Seqs(S) = {}
    BY <1>1 DEF Seqs
  <2>2. n = 0
    BY <2>1
  <2> QED BY <1>1, <2>2 DEF MaxSeq
<1>2. CASE S # {}
  <2>1. n \in Seqs(S) /\ \A k \in Seqs(S) : k <= n
    <3>1. PICK r \in S : TRUE
      BY <1>2
    <3>2. r.seq \in 1..n
      BY <3>1 DEF Seqs
    <3> QED BY <3>2
  <2>2. \A m \in Seqs(S) : (\A k \in Seqs(S) : k <= m) => m = n
    BY <2>1
  <2> QED BY <1>2, <2>1, <2>2 DEF MaxSeq
<1> QED BY <1>1, <1>2

\* In a log without gaps MaxSeq is a natural number no row exceeds.
LEMMA MaxSeqBounds ==
  ASSUME NEW S \in SUBSET Row, GapFree(S)
  PROVE  /\ MaxSeq(S) \in Nat
         /\ Seqs(S) = 1..MaxSeq(S)
         /\ \A r \in S : r.seq <= MaxSeq(S)
<1>1. PICK n \in {0} \cup Seqs(S) : Seqs(S) = 1..n
  BY DEF GapFree
<1>2. n \in Nat
  BY DEF Seqs, Row
<1>3. MaxSeq(S) = n
  BY <1>1, <1>2, MaxSeqOfRange
<1>4. \A r \in S : r.seq \in Seqs(S)
  BY DEF Seqs
<1> QED BY <1>1, <1>2, <1>3, <1>4

\* The empty log is well formed.
LEMMA EmptyWellFormed == WellFormed({}, NoHeads)
<1>1. Seqs({}) = 1..0
  BY DEF Seqs
<1> QED
  BY <1>1 DEF WellFormed, GapFree, KeysUnique, Chained, HeadsMatch, RowsOf, NoHeads

\* The row of an accepted change, over a log S with heads H.
LoggedAs(c, S, H) ==
  [seq |-> MaxSeq(S) + 1, ent |-> c.ent, base |-> c.base,
   ver |-> H[c.ent].ver + 1, hash |-> c.hash, del |-> c.del]


\* Accepting a change whose payload is new and whose base is the head's
\* version keeps the log well formed and adds to it at its end.
LEMMA AcceptKeepsWellFormed ==
  ASSUME NEW S \in SUBSET Row, NEW H \in [Entities -> HeadRow], NEW c \in Change,
         WellFormed(S, H), Same(S, c) = {}, c.base = H[c.ent].ver
  PROVE  LET r == LoggedAs(c, S, H)
             T == S \cup {r}
             G == [H EXCEPT ![c.ent] = HeadOf(r)]
         IN  /\ r \in Row /\ G \in [Entities -> HeadRow]
             /\ WellFormed(T, G)
             /\ r.seq > MaxSeq(S)
<1> DEFINE n == MaxSeq(S)
           r == LoggedAs(c, S, H)
           T == S \cup {r}
           G == [H EXCEPT ![c.ent] = HeadOf(r)]
<1>1. n \in Nat /\ Seqs(S) = 1..n /\ \A q \in S : q.seq <= n
  BY MaxSeqBounds DEF WellFormed
<1>2. /\ r \in Row /\ r.seq = n + 1 /\ r.ent = c.ent /\ r.base = c.base
      /\ r.ver = c.base + 1 /\ r.hash = c.hash /\ r.ver \in Nat
  BY <1>1 DEF LoggedAs, Row, Change, HeadRow
<1>3. HeadOf(r) \in HeadRow /\ G \in [Entities -> HeadRow]
  BY <1>2 DEF HeadOf, HeadRow, Row
<1>4. \A q \in S : q \in Row /\ q.seq < r.seq
  BY <1>1, <1>2 DEF Row
<1> HIDE DEF r
<1>5. GapFree(T)
  <2>1. Seqs(T) = Seqs(S) \cup {n + 1}
    BY <1>2 DEF Seqs
  <2>2. Seqs(T) = 1..(n + 1)
    <3> HIDE DEF n, T
    <3> QED BY <2>1, <1>1
  <2>3. n + 1 \in Seqs(T)
    BY <2>1
  <2> QED BY <2>2, <2>3 DEF GapFree
<1>6. KeysUnique(T)
  <2>1. \A q \in S : q.seq # r.seq
    BY <1>1, <1>2, <1>4 DEF Row
  <2>2. \A q \in S : ~(q.ent = r.ent /\ q.hash = r.hash)
    BY <1>2 DEF Same
  <2> QED BY <2>1, <2>2 DEF KeysUnique, WellFormed
<1>7. Chained(T)
  <2>1. ASSUME NEW q \in S
        PROVE  /\ q.ver = q.base + 1
               /\ q.base = 0 \/ \E x \in RowsOf(T, q.ent) : x.ver = q.base /\ x.seq < q.seq
               /\ \A x \in RowsOf(T, q.ent) : x.seq < q.seq => x.ver < q.ver
    <3>1. /\ q.ver = q.base + 1
          /\ q.base = 0 \/ \E x \in RowsOf(S, q.ent) : x.ver = q.base /\ x.seq < q.seq
          /\ \A x \in RowsOf(S, q.ent) : x.seq < q.seq => x.ver < q.ver
      BY DEF WellFormed, Chained
    <3>2. \A x \in RowsOf(T, q.ent) : x.seq < q.seq => x \in RowsOf(S, q.ent)
      BY <1>1, <1>2, <1>4 DEF RowsOf, Row
    <3>3. RowsOf(S, q.ent) \subseteq RowsOf(T, q.ent)
      BY DEF RowsOf
    <3> QED BY <3>1, <3>2, <3>3
  <2>2. /\ r.base = 0 \/ \E x \in RowsOf(T, r.ent) : x.ver = r.base /\ x.seq < r.seq
        /\ \A x \in RowsOf(T, r.ent) : x.seq < r.seq => x.ver < r.ver
    <3>0. RowsOf(T, r.ent) = RowsOf(S, c.ent) \cup {r}
      BY <1>2 DEF RowsOf
    <3>1. CASE H[c.ent] = NoHead /\ RowsOf(S, c.ent) = {}
      <4>1. r.base = 0
        BY <3>1, <1>2 DEF NoHead
      <4>2. ~(r.seq < r.seq)
        BY <1>1, <1>2
      <4> QED BY <4>1, <4>2, <3>0, <3>1
    <3>2. ASSUME NEW last \in RowsOf(S, c.ent),
                 H[c.ent] = HeadOf(last),
                 \A x \in RowsOf(S, c.ent) : x.seq <= last.seq
          PROVE  /\ \E x \in RowsOf(T, r.ent) : x.ver = r.base /\ x.seq < r.seq
                 /\ \A x \in RowsOf(T, r.ent) : x.seq < r.seq => x.ver < r.ver
      <4>1. last \in S /\ last \in Row /\ last.ent = c.ent /\ last.ver = r.base
        BY <3>2, <1>2 DEF RowsOf, HeadOf
      <4>2. \A x \in RowsOf(S, c.ent) : x.ver <= last.ver
        <5> SUFFICES ASSUME NEW x \in RowsOf(S, c.ent) PROVE x.ver <= last.ver
          OBVIOUS
        <5>1. x \in S /\ x \in Row
          BY DEF RowsOf
        <5>2. CASE x.seq = last.seq
          BY <5>1, <5>2, <4>1 DEF WellFormed, KeysUnique, Row
        <5>3. CASE x.seq # last.seq
          <6>1. x.seq < last.seq
            BY <5>1, <5>3, <4>1, <3>2 DEF Row
          <6>2. x.ver < last.ver
            BY <6>1, <4>1 DEF WellFormed, Chained
          <6> QED BY <6>2, <5>1, <4>1 DEF Row
        <5> QED BY <5>2, <5>3
      <4>3. last.seq < r.seq
        BY <4>1, <1>4
      <4>4. \A x \in RowsOf(S, c.ent) : x.ver < r.ver
        BY <4>2, <4>1, <1>2 DEF RowsOf, Row
      <4>5. ~(r.seq < r.seq)
        BY <1>1, <1>2
      <4> QED BY <4>1, <4>3, <4>4, <4>5, <3>0
    <3>3. c.ent \in Entities
      BY DEF Change
    <3> QED BY <3>1, <3>2, <3>3 DEF WellFormed, HeadsMatch, HeadOf
  <2>3. r.ver = r.base + 1
    BY <1>2
  <2> QED BY <2>1, <2>2, <2>3 DEF Chained
<1>8. HeadsMatch(T, G)
  <2> SUFFICES ASSUME NEW e \in Entities
               PROVE  \/ G[e] = NoHead /\ RowsOf(T, e) = {}
                      \/ \E x \in RowsOf(T, e) :
                           /\ G[e] = HeadOf(x)
                           /\ \A y \in RowsOf(T, e) : y.seq <= x.seq
    BY DEF HeadsMatch, HeadOf
  <2>1. CASE e = c.ent
    <3>1. r \in RowsOf(T, e) /\ G[e] = HeadOf(r)
      BY <2>1, <1>2 DEF RowsOf
    <3>2. \A y \in RowsOf(T, e) : y.seq <= r.seq
      BY <1>1, <1>2, <1>4 DEF RowsOf, Row
    <3> QED BY <3>1, <3>2
  <2>2. CASE e # c.ent
    <3>1. G[e] = H[e] /\ RowsOf(T, e) = RowsOf(S, e)
      BY <2>2, <1>2 DEF RowsOf
    <3> QED BY <3>1 DEF WellFormed, HeadsMatch, HeadOf
  <2> QED BY <2>1, <2>2
<1>9. r.seq > n
  BY <1>1, <1>2
<1> QED BY <1>2, <1>3, <1>5, <1>6, <1>7, <1>8, <1>9 DEF WellFormed, r

\* A non-empty bounded set of naturals has a largest element.
LEMMA BoundedHasMax ==
  ASSUME NEW P \in SUBSET Nat, P # {}, NEW n \in Nat, \A x \in P : x <= n
  PROVE  \E x \in P : \A y \in P : y <= x
<1> DEFINE Above(x) == {y \in P : y > x}
           T == {Above(x) : x \in P}
<1>1. IsFiniteSet(P)
  BY FS_BoundedSetOfNaturals
<1>2. T \subseteq FiniteSubsetsOf(P)
  <2> SUFFICES ASSUME NEW x \in P PROVE Above(x) \in FiniteSubsetsOf(P)
    OBVIOUS
  <2>1. Above(x) \in SUBSET P
    OBVIOUS
  <2>2. IsFiniteSet(Above(x))
    BY <1>1, <2>1, FS_Subset
  <2> QED BY <2>1, <2>2 DEF FiniteSubsetsOf
<1>3. T # {}
  OBVIOUS
<1>4. PICK U \in T : \A V \in T : <<V, U>> \notin StrictSubsetOrdering(P)
  BY <1>2, <1>3, FS_StrictSubsetOrderingWellFounded, WFMin
<1>5. PICK x \in P : U = Above(x)
  OBVIOUS
<1>6. \A y \in P : y <= x
  <2> SUFFICES ASSUME NEW y \in P, y > x PROVE FALSE
    OBVIOUS
  <2>1. Above(y) \subseteq U /\ y \in U /\ y \notin Above(y)
    <3>1. \A z \in P : z \in Nat
      OBVIOUS
    <3>2. \A z \in P : z > y => z > x
      BY <3>1
    <3>3. Above(y) \subseteq Above(x) /\ y \in Above(x)
      BY <3>2
    <3>4. y \notin Above(y)
      BY <3>1
    <3> QED BY <3>3, <3>4, <1>5
  <2>2. Above(y) \in T
    OBVIOUS
  <2>3. <<Above(y), U>> \in StrictSubsetOrdering(P)
    <3>1. U \in SUBSET P /\ Above(y) \in SUBSET P
      BY <1>5
    <3> QED BY <2>1, <3>1, <1>1, FS_Subset DEF StrictSubsetOrdering
  <2> QED BY <2>2, <2>3, <1>4
<1> QED BY <1>6

\* The rows of a log are finitely many.
LEMMA LogFinite ==
  ASSUME NEW S \in SUBSET Row, GapFree(S), KeysUnique(S)
  PROVE  IsFiniteSet(S)
<1> DEFINE n == MaxSeq(S)
           f == [r \in S |-> r.seq]
<1>1. n \in Nat /\ Seqs(S) = 1..n
  BY MaxSeqBounds
<1>2. f \in Injection(S, 1..n)
  BY <1>1 DEF Seqs, KeysUnique, Injection, IsInjective
<1>3. IsFiniteSet(1..n)
  BY <1>1, FS_Interval
<1> QED BY <1>2, <1>3, FS_Injection

\* A page is exactly the rows from the cursor it starts after to the cursor
\* it hands back.
LEMMA PageIsInterval ==
  ASSUME NEW S \in SUBSET Row, GapFree(S), KeysUnique(S),
         NEW since \in Nat, NEW limit \in Nat
  PROVE  LET rows == Page(S, since, limit)
             next == IF rows = {} THEN since ELSE MaxSeq(rows)
         IN  /\ rows \in SUBSET Row /\ next \in Nat
             /\ next = since \/ next <= MaxSeq(S)
             /\ rows = {r \in S : since < r.seq /\ r.seq <= next}
<1> DEFINE Between(r) == {q \in S : since < q.seq /\ q.seq < r.seq}
           rows == Page(S, since, limit)
           next == IF rows = {} THEN since ELSE MaxSeq(rows)
<1> SUFFICES /\ rows \in SUBSET Row /\ next \in Nat
             /\ next = since \/ next <= MaxSeq(S)
             /\ rows = {r \in S : since < r.seq /\ r.seq <= next}
  OBVIOUS
<1>1. rows = {r \in S : r.seq > since /\ Cardinality(Between(r)) < limit}
  BY DEF Page
<1>2. rows \in SUBSET Row /\ \A r \in S : r \in Row /\ r.seq \in Nat
  BY <1>1 DEF Row
<1> HIDE DEF rows
<1>3. CASE rows = {}
  <2>1. next = since
    BY <1>3
  <2>2. \A r \in S : ~(since < r.seq /\ r.seq <= since)
    BY <1>2
  <2> HIDE DEF next
  <2> QED BY <2>1, <2>2, <1>2, <1>3
<1>4. CASE rows # {}
  <2>1. MaxSeq(S) \in Nat /\ \A r \in S : r.seq <= MaxSeq(S)
    BY MaxSeqBounds
  <2>2. /\ Seqs(rows) \in SUBSET Nat /\ Seqs(rows) # {}
        /\ \A x \in Seqs(rows) : x <= MaxSeq(S)
    BY <1>1, <1>2, <1>4, <2>1 DEF Seqs
  <2>3. \E x \in Seqs(rows) : \A y \in Seqs(rows) : y <= x
    BY <2>1, <2>2, BoundedHasMax
  <2>4. next \in Seqs(rows) /\ \A y \in Seqs(rows) : y <= next
    BY <1>4, <2>3 DEF MaxSeq
  <2>5. PICK last \in rows : last.seq = next
    BY <2>4 DEF Seqs
  <2>6. \A r \in rows : r.seq <= next
    BY <2>4 DEF Seqs
  <2> HIDE DEF next
  <2>7. ASSUME NEW r \in S, since < r.seq, r.seq <= next
        PROVE  r \in rows
    <3>1. last \in S /\ Cardinality(Between(last)) < limit
      BY <1>1, <2>5
    <3>2. Between(r) \in SUBSET Between(last)
      BY <2>5, <2>7, <1>2, <3>1
    <3>3. IsFiniteSet(Between(last))
      BY LogFinite, FS_Subset
    <3>4. /\ Cardinality(Between(r)) <= Cardinality(Between(last))
          /\ Cardinality(Between(r)) \in Nat /\ Cardinality(Between(last)) \in Nat
      <4> HIDE DEF Between
      <4> QED BY <3>2, <3>3, FS_Subset, FS_CardinalityType
    <3> QED BY <3>1, <3>4, <2>7, <1>1, <1>2
  <2>8. rows = {r \in S : since < r.seq /\ r.seq <= next}
    BY <2>6, <2>7, <1>1, <1>2
  <2> QED BY <2>1, <2>2, <2>4, <2>8, <1>2
<1> QED BY <1>3, <1>4
-----------------------------------------------------------------------------
\* The answers the actions build are answers.
LEMMA ReplyTypes ==
  /\ NoReply \in Reply /\ ErrorReply \in Reply /\ PushReply({}, {}) \in Reply
  /\ \A x \in SUBSET Accepted, y \in SUBSET Conflict : PushReply(x, y) \in Reply
  /\ \A x \in SUBSET Row, s, n \in Nat : PullReply(x, s, n) \in Reply
  /\ \A r \in Row : Ack(r) \in Accepted
BY DEF NoReply, ErrorReply, PushReply, PullReply, Answer, Reply, Ack, Accepted, Row

LEMMA InitIInv == Init => IInv
<1> SUFFICES ASSUME Init PROVE IInv
  OBVIOUS
<1> USE LimitsAssumption, NoneAssumption DEF Init
<1>1. TypeOK
  BY ReplyTypes DEF TypeOK, NoHeads, NoHead, HeadRow
<1>2. LogsOK
  BY EmptyWellFormed DEF LogsOK, Committed
<1>3. LockOK /\ TxnOK /\ RepliesOK
  BY DEF LockOK, TxnOK, RepliesOK
<1>4. PagesOK
  BY DEF PagesOK, NoReply, Answer
<1> QED BY <1>1, <1>2, <1>3, <1>4 DEF IInv

\* Every step keeps every variable in its type.
LEMMA TypeStep == TypeOK /\ LockOK /\ LogsOK /\ TxnOK /\ [Next]_vars => TypeOK'
<1> SUFFICES ASSUME TypeOK, LockOK, LogsOK, TxnOK, [Next]_vars PROVE TypeOK'
  OBVIOUS
<1> USE LimitsAssumption, NoneAssumption, BatchesAssumption
<1>1. ASSUME NEW h \in Handlers, NEW a \in Accounts, NEW b \in Batches,
             ReceivePush(h, a, b)
      PROVE  TypeOK'
  BY <1>1 DEF TypeOK, ReceivePush
<1>2. ASSUME NEW h \in Handlers, RejectBatch(h) \/ RefusePush(h) \/ BusyTimeout(h)
      PROVE  TypeOK'
  <2>1. AnswerError(h) /\ UNCHANGED <<writer, wrows, wheads>>
    BY <1>2 DEF RejectBatch, RefusePush, BusyTimeout, txn
  <2>2. <<>> \in Seq(Change)
    OBVIOUS
  <2> QED BY <2>1, <2>2, ReplyTypes DEF TypeOK, AnswerError
<1>3. ASSUME NEW h \in Handlers, BeginImmediate(h)
      PROVE  TypeOK'
  BY <1>3, ReplyTypes DEF TypeOK, LockOK, BeginImmediate
<1>4. ASSUME NEW h \in Handlers, PushDuplicate(h)
      PROVE  TypeOK'
  <2>1. PICK r \in Same(wrows, Head(todo[h])) :
          reply' = [reply EXCEPT ![h] = PushReply(@.accepted \cup {Ack(r)}, @.conflicts)]
    BY <1>4 DEF PushDuplicate
  <2>2. r \in Row
    BY DEF TypeOK, Same
  <2>3. reply' \in [Handlers -> Reply]
    <3>1. reply[h].accepted \cup {Ack(r)} \in SUBSET Accepted /\ reply[h].conflicts \in SUBSET Conflict
      BY <2>2, ReplyTypes DEF TypeOK, Reply
    <3> QED BY <2>1, <3>1, ReplyTypes DEF TypeOK
  <2>4. todo' \in [Handlers -> Seq(Change)]
    BY <1>4 DEF PushDuplicate, Processing, TypeOK
  <2> QED BY <1>4, <2>3, <2>4 DEF TypeOK, PushDuplicate
<1>5. ASSUME NEW h \in Handlers, PushConflict(h)
      PROVE  TypeOK'
  <2>1. Head(todo[h]) \in Change /\ Tail(todo[h]) \in Seq(Change)
    BY <1>5 DEF PushConflict, Processing, TypeOK
  <2>2. reply' \in [Handlers -> Reply]
    <3> DEFINE c == Head(todo[h])
    <3>1. /\ reply[h].accepted \in SUBSET Accepted
          /\ reply[h].conflicts \cup {[ent |-> c.ent, ver |-> wheads[c.ent].ver]} \in SUBSET Conflict
      BY <2>1 DEF TypeOK, Reply, Conflict, Change, HeadRow
    <3> QED BY <1>5, <3>1, ReplyTypes DEF TypeOK, PushConflict
  <2> QED BY <1>5, <2>1, <2>2 DEF TypeOK, PushConflict
<1>6. ASSUME NEW h \in Handlers, PushAccept(h)
      PROVE  TypeOK'
  <2>1. Head(todo[h]) \in Change /\ Tail(todo[h]) \in Seq(Change)
    BY <1>6 DEF PushAccept, Processing, TypeOK
  <2>2. MaxSeq(wrows) \in Nat
    BY <1>6, MaxSeqBounds DEF PushAccept, Processing, TxnOK, WellFormed, TypeOK
  <2> DEFINE r == NewRow(Head(todo[h]))
  <2>3. r \in Row
    BY <2>1, <2>2 DEF NewRow, NextSeq, Row, TypeOK, HeadRow, Change
  <2> HIDE DEF r
  <2>4. wrows' \in SUBSET Row /\ wheads' \in [Entities -> HeadRow]
    BY <1>6, <2>3 DEF PushAccept, HeadOf, TypeOK, Row, HeadRow, r
  <2>5. reply' \in [Handlers -> Reply]
    <3>1. reply[h].accepted \cup {Ack(r)} \in SUBSET Accepted /\ reply[h].conflicts \in SUBSET Conflict
      BY <2>3, ReplyTypes DEF TypeOK, Reply
    <3> QED BY <1>6, <3>1, ReplyTypes DEF TypeOK, PushAccept, r
  <2> QED BY <1>6, <2>1, <2>4, <2>5 DEF TypeOK, PushAccept
<1>7. ASSUME NEW h \in Handlers, CommitPush(h)
      PROVE  TypeOK'
  BY <1>7 DEF TypeOK, LockOK, CommitPush, EndTransaction, NoHeads, NoHead, HeadRow
<1>8. ASSUME NEW h \in Handlers, RollbackPush(h)
      PROVE  TypeOK'
  BY <1>8, ReplyTypes
     DEF TypeOK, RollbackPush, AnswerError, EndTransaction, NoHeads, NoHead, HeadRow
<1>9. ASSUME NEW h \in Handlers, NEW a \in Accounts, NEW since \in Sinces,
             NEW limit \in Limits, ServePull(h, a, since, limit)
      PROVE  TypeOK'
  <2> DEFINE lim  == IF limit < MaxPull THEN limit ELSE MaxPull
             rows == Page(changes[a], since, lim)
             next == IF rows = {} THEN since ELSE MaxSeq(rows)
  <2>1. lim \in Nat /\ since \in Nat
    OBVIOUS
  <2>2. changes[a] \in SUBSET Row /\ GapFree(changes[a]) /\ KeysUnique(changes[a])
    BY DEF TypeOK, LogsOK, Committed, WellFormed
  <2>3. rows \in SUBSET Row /\ next \in Nat
    BY <2>1, <2>2, PageIsInterval
  <2>4. reply' = [reply EXCEPT ![h] = PullReply(rows, since, next)]
    BY <1>9 DEF ServePull
  <2> HIDE DEF rows, next, lim
  <2> QED BY <1>9, <2>1, <2>3, <2>4, ReplyTypes DEF TypeOK, ServePull
<1>10. ASSUME NEW h \in Handlers, Finish(h)
       PROVE  TypeOK'
  BY <1>10, ReplyTypes DEF TypeOK, Finish
<1>11. CASE Crash
  BY <1>11, ReplyTypes DEF TypeOK, Crash, EndTransaction, NoHeads, NoHead, HeadRow
<1>12. CASE UNCHANGED vars
  BY <1>12 DEF TypeOK, vars
<1> QED BY <1>1, <1>2, <1>3, <1>4, <1>5, <1>6, <1>7, <1>8, <1>9, <1>10, <1>11, <1>12
        DEF Next, Work

\* The lock belongs to the thread that is writing, and no other; the
\* tables change only by a commit, which publishes the view.
LEMMA LockStep == TypeOK /\ LockOK /\ [Next]_vars => LockOK'
<1> SUFFICES ASSUME TypeOK, LockOK, [Next]_vars PROVE LockOK'
  OBVIOUS
<1> USE NoneAssumption DEF TypeOK, LockOK
<1>1. ASSUME NEW h \in Handlers, NEW a \in Accounts, NEW b \in Batches,
             ReceivePush(h, a, b)
      PROVE  LockOK'
  BY <1>1 DEF ReceivePush
<1>2. ASSUME NEW h \in Handlers, RejectBatch(h) \/ RefusePush(h) \/ BusyTimeout(h)
      PROVE  LockOK'
  BY <1>2 DEF RejectBatch, RefusePush, BusyTimeout, AnswerError, txn
<1>3. ASSUME NEW h \in Handlers, BeginImmediate(h)
      PROVE  LockOK'
  BY <1>3 DEF BeginImmediate
<1>4. ASSUME NEW h \in Handlers, PushDuplicate(h) \/ PushConflict(h) \/ PushAccept(h)
      PROVE  LockOK'
  BY <1>4 DEF PushDuplicate, PushConflict, PushAccept
<1>5. ASSUME NEW h \in Handlers, CommitPush(h) \/ RollbackPush(h)
      PROVE  LockOK'
  BY <1>5 DEF CommitPush, RollbackPush, AnswerError, EndTransaction
<1>6. ASSUME NEW h \in Handlers, NEW a \in Accounts, NEW since \in Sinces,
             NEW limit \in Limits, ServePull(h, a, since, limit)
      PROVE  LockOK'
  BY <1>6 DEF ServePull
<1>7. ASSUME NEW h \in Handlers, Finish(h)
      PROVE  LockOK'
  BY <1>7 DEF Finish
<1>8. CASE Crash
  BY <1>8 DEF Crash, EndTransaction
<1>9. CASE UNCHANGED vars
  BY <1>9 DEF vars
<1> QED BY <1>1, <1>2, <1>3, <1>4, <1>5, <1>6, <1>7, <1>8, <1>9 DEF Next, Work

\* Every step but a commit leaves the tables alone.
LEMMA TablesStep ==
  [Next]_vars => \/ UNCHANGED <<changes, heads>>
                 \/ \E h \in Handlers : CommitPush(h)
BY DEF Next, Work, ReceivePush, RejectBatch, RefusePush, BusyTimeout, AnswerError,
       BeginImmediate, PushDuplicate, PushConflict, PushAccept, RollbackPush,
       ServePull, Finish, Crash, vars

\* A commit publishes a well formed view that extends the writer's log.
LEMMA CommitPublishes ==
  ASSUME IInv, NEW h \in Handlers, CommitPush(h)
  PROVE  /\ acct[h] \in Accounts
         /\ WellFormed(wrows, wheads) /\ ExtendsLog(changes[acct[h]], wrows)
         /\ changes' = [changes EXCEPT ![acct[h]] = wrows]
         /\ heads' = [heads EXCEPT ![acct[h]] = wheads]
BY DEF IInv, LockOK, TxnOK, CommitPush

LEMMA LogsStep == IInv /\ [Next]_vars => LogsOK'
<1> SUFFICES ASSUME IInv, [Next]_vars PROVE LogsOK'
  OBVIOUS
<1>1. CASE UNCHANGED <<changes, heads>>
  BY <1>1 DEF IInv, LogsOK, Committed
<1>2. ASSUME NEW h \in Handlers, CommitPush(h)
      PROVE  LogsOK'
  <2> SUFFICES ASSUME NEW a \in Accounts PROVE WellFormed(changes'[a], heads'[a])
    BY DEF LogsOK, Committed
  <2>1. CASE a = acct[h]
    BY <2>1, <1>2, CommitPublishes DEF IInv, TypeOK
  <2>2. CASE a # acct[h]
    BY <2>2, <1>2, CommitPublishes DEF IInv, TypeOK, LogsOK, Committed
  <2> QED BY <2>1, <2>2
<1> QED BY <1>1, <1>2, TablesStep

\* The log of every account grows at its end.
LEMMA ExtendsStep ==
  ASSUME IInv, [Next]_vars
  PROVE  \A a \in Accounts : ExtendsLog(changes[a], changes'[a])
<1>1. CASE UNCHANGED <<changes, heads>>
  BY <1>1 DEF ExtendsLog
<1>2. ASSUME NEW h \in Handlers, CommitPush(h)
      PROVE  \A a \in Accounts : ExtendsLog(changes[a], changes'[a])
  <2> SUFFICES ASSUME NEW a \in Accounts PROVE ExtendsLog(changes[a], changes'[a])
    OBVIOUS
  <2>1. CASE a = acct[h]
    BY <2>1, <1>2, CommitPublishes DEF IInv, TypeOK
  <2>2. CASE a # acct[h]
    BY <2>2, <1>2, CommitPublishes DEF IInv, TypeOK, ExtendsLog
  <2> QED BY <2>1, <2>2
<1> QED BY <1>1, <1>2, TablesStep

\* A log inside another does not number further.
LEMMA MaxSeqMonotone ==
  ASSUME NEW S \in SUBSET Row, NEW T \in SUBSET Row, GapFree(S), GapFree(T), S \subseteq T
  PROVE  MaxSeq(S) <= MaxSeq(T)
<1>1. /\ MaxSeq(S) \in Nat /\ Seqs(S) = 1..MaxSeq(S)
      /\ MaxSeq(T) \in Nat /\ Seqs(T) = 1..MaxSeq(T)
  BY MaxSeqBounds
<1>2. Seqs(S) \subseteq Seqs(T)
  BY DEF Seqs
<1>3. CASE MaxSeq(S) = 0
  BY <1>1, <1>3
<1>4. CASE MaxSeq(S) # 0
  <2>1. MaxSeq(S) \in Seqs(S)
    BY <1>1, <1>4
  <2> QED BY <2>1, <1>1, <1>2
<1> QED BY <1>3, <1>4

\* What accepting a change does to the view.
LEMMA AcceptExtends ==
  ASSUME IInv, NEW h \in Handlers, PushAccept(h)
  PROVE  /\ WellFormed(wrows', wheads')
         /\ ExtendsLog(changes[acct[h]], wrows')
<1> DEFINE c == Head(todo[h])
           S == changes[acct[h]]
           r == LoggedAs(c, wrows, wheads)
<1>1. c \in Change /\ Same(wrows, c) = {} /\ c.base = wheads[c.ent].ver
  BY DEF PushAccept, Processing, IInv, TypeOK
<1>2. WellFormed(wrows, wheads) /\ ExtendsLog(S, wrows) /\ acct[h] \in Accounts
  BY DEF PushAccept, Processing, IInv, TxnOK, LockOK
<1>3. /\ wrows \in SUBSET Row /\ wheads \in [Entities -> HeadRow]
      /\ S \in SUBSET Row /\ WellFormed(S, heads[acct[h]])
  BY <1>2 DEF IInv, TypeOK, LogsOK, Committed
<1>4. /\ wrows' = wrows \cup {r}
      /\ wheads' = [wheads EXCEPT ![c.ent] = HeadOf(r)]
  BY DEF PushAccept, NewRow, NextSeq, LoggedAs, HeadOf
<1>5. WellFormed(wrows', wheads') /\ r.seq > MaxSeq(wrows) /\ r \in Row
  BY <1>1, <1>2, <1>3, <1>4, AcceptKeepsWellFormed
<1>6. /\ MaxSeq(S) \in Nat /\ MaxSeq(wrows) \in Nat
      /\ MaxSeq(S) <= MaxSeq(wrows)
  BY <1>2, <1>3, MaxSeqMonotone, MaxSeqBounds DEF ExtendsLog, WellFormed
<1>7. r.seq > MaxSeq(S)
  <2> HIDE DEF r, S
  <2> QED BY <1>5, <1>6 DEF Row
<1>8. ExtendsLog(S, wrows')
  <2> HIDE DEF r, S
  <2> QED BY <1>2, <1>4, <1>7 DEF ExtendsLog
<1> QED BY <1>5, <1>8

LEMMA TxnStep == IInv /\ [Next]_vars => TxnOK'
<1> SUFFICES ASSUME IInv, [Next]_vars PROVE TxnOK'
  OBVIOUS
<1> USE NoneAssumption DEF IInv
<1>1. ASSUME NEW h \in Handlers, BeginImmediate(h)
      PROVE  TxnOK'
  <2>1. acct[h] \in Accounts
    BY <1>1 DEF BeginImmediate, LockOK
  <2>2. WellFormed(changes[acct[h]], heads[acct[h]])
    BY <2>1 DEF LogsOK, Committed
  <2> QED BY <1>1, <2>2 DEF BeginImmediate, TxnOK, ExtendsLog
<1>2. ASSUME NEW h \in Handlers, PushDuplicate(h) \/ PushConflict(h)
      PROVE  TxnOK'
  BY <1>2 DEF PushDuplicate, PushConflict, TxnOK
<1>3. ASSUME NEW h \in Handlers, PushAccept(h)
      PROVE  TxnOK'
  BY <1>3, AcceptExtends DEF PushAccept, Processing, TxnOK
<1>4. CASE Crash \/ \E h \in Handlers : CommitPush(h) \/ RollbackPush(h)
  BY <1>4 DEF Crash, CommitPush, RollbackPush, EndTransaction, TxnOK
<1>5. ASSUME UNCHANGED <<changes, writer, wrows, wheads>>,
             \A h \in Handlers : writer = h => acct'[h] = acct[h]
      PROVE  TxnOK'
  BY <1>5 DEF TxnOK
<1>6. ASSUME NEW h \in Handlers,
             \/ RejectBatch(h) \/ RefusePush(h) \/ BusyTimeout(h) \/ Finish(h)
             \/ \E a \in Accounts, b \in Batches : ReceivePush(h, a, b)
             \/ \E a \in Accounts, since \in Sinces, limit \in Limits :
                  ServePull(h, a, since, limit)
      PROVE  TxnOK'
  <2>1. UNCHANGED <<changes, writer, wrows, wheads>>
    BY <1>6 DEF RejectBatch, RefusePush, BusyTimeout, AnswerError, Finish,
                ReceivePush, ServePull, txn
  <2>2. pc[h] # "writing"
    BY <1>6 DEF RejectBatch, RefusePush, BusyTimeout, Finish, ReceivePush, ServePull
  <2>3. \A k \in Handlers : k # h => acct'[k] = acct[k]
    BY <1>6 DEF RejectBatch, RefusePush, BusyTimeout, AnswerError, Finish,
                ReceivePush, ServePull, TypeOK
  <2> QED BY <2>1, <2>2, <2>3, <1>5 DEF LockOK
<1>7. CASE UNCHANGED vars
  BY <1>7, <1>5 DEF vars
<1> QED BY <1>1, <1>2, <1>3, <1>4, <1>6, <1>7 DEF Next, Work

\* Thread h answers only for rows that its view, or its log, has.
ReplyOK(h) ==
  /\ pc[h] = "writing" => \A x \in reply[h].accepted : Logged(x, wrows)
  /\ pc[h] = "done" => \A x \in reply[h].accepted : Logged(x, changes[acct[h]])

LEMMA RepliesStep == IInv /\ [Next]_vars => RepliesOK'
<1> SUFFICES ASSUME IInv, [Next]_vars PROVE RepliesOK'
  OBVIOUS
<1> USE DEF IInv
<1>1. \A a \in Accounts : changes[a] \subseteq changes'[a]
  BY ExtendsStep DEF ExtendsLog
<1>2. ASSUME NEW k \in Handlers,
             pc'[k] = pc[k], reply'[k] = reply[k], acct'[k] = acct[k],
             writer = k => wrows \subseteq wrows'
      PROVE  ReplyOK(k)'
  BY <1>1, <1>2 DEF RepliesOK, ReplyOK, LockOK, Logged
<1>3. ASSUME NEW h \in Handlers,
             \/ RejectBatch(h) \/ RefusePush(h) \/ BusyTimeout(h) \/ RollbackPush(h)
             \/ BeginImmediate(h) \/ Finish(h)
             \/ \E a \in Accounts, b \in Batches : ReceivePush(h, a, b)
             \/ \E a \in Accounts, since \in Sinces, limit \in Limits :
                  ServePull(h, a, since, limit)
      PROVE  \A k \in Handlers : ReplyOK(k)'
  <2>1. pc'[h] = "done" \/ pc'[h] = "writing" => reply'[h].accepted = {}
    BY <1>3 DEF RejectBatch, RefusePush, BusyTimeout, RollbackPush, AnswerError,
                BeginImmediate, Finish, ReceivePush, ServePull, TypeOK,
                ErrorReply, PushReply, PullReply, Answer
  <2>2. ReplyOK(h)'
    BY <2>1 DEF ReplyOK
  <2>3. ASSUME NEW k \in Handlers, k # h
        PROVE  ReplyOK(k)'
    <3>1. pc'[k] = pc[k] /\ reply'[k] = reply[k] /\ acct'[k] = acct[k]
      BY <1>3, <2>3 DEF RejectBatch, RefusePush, BusyTimeout, RollbackPush,
         AnswerError, BeginImmediate, Finish, ReceivePush, ServePull, TypeOK
    <3>2. writer = k => wrows \subseteq wrows'
      BY <1>3, <2>3, NoneAssumption
         DEF RejectBatch, RefusePush, BusyTimeout, RollbackPush,
             BeginImmediate, Finish, ReceivePush, ServePull, LockOK, txn
    <3> QED BY <3>1, <3>2, <1>2
  <2> QED BY <2>2, <2>3
<1>4. ASSUME NEW h \in Handlers, PushDuplicate(h) \/ PushConflict(h) \/ PushAccept(h)
      PROVE  \A k \in Handlers : ReplyOK(k)'
  <2>1. pc[h] = "writing" /\ writer = h /\ pc' = pc /\ wrows \subseteq wrows'
    BY <1>4 DEF PushDuplicate, PushConflict, PushAccept, Processing
  <2>2. \A x \in reply'[h].accepted :
          x \in reply[h].accepted \/ \E r \in wrows' : x = Ack(r)
    <3>1. CASE PushDuplicate(h)
      <4>1. PICK r \in wrows :
              reply'[h] = PushReply(reply[h].accepted \cup {Ack(r)}, reply[h].conflicts)
        BY <3>1 DEF PushDuplicate, Same, TypeOK
      <4>2. r \in wrows'
        BY <2>1
      <4> QED BY <4>1, <4>2 DEF PushReply, Answer
    <3>2. CASE PushConflict(h)
      <4>1. \E z : reply'[h] = PushReply(reply[h].accepted, z)
        BY <3>2 DEF PushConflict, TypeOK
      <4> QED BY <4>1 DEF PushReply, Answer
    <3>3. CASE PushAccept(h)
      <4>1. \E r \in wrows' :
              reply'[h] = PushReply(reply[h].accepted \cup {Ack(r)}, reply[h].conflicts)
        BY <3>3 DEF PushAccept, TypeOK
      <4> QED BY <4>1 DEF PushReply, Answer
    <3> QED BY <1>4, <3>1, <3>2, <3>3
  <2>3. ReplyOK(h)'
    BY <2>1, <2>2 DEF ReplyOK, RepliesOK, Logged, Ack
  <2>4. ASSUME NEW k \in Handlers, k # h
        PROVE  ReplyOK(k)'
    <3>1. pc'[k] = pc[k] /\ reply'[k] = reply[k] /\ acct'[k] = acct[k]
      BY <1>4, <2>4 DEF PushDuplicate, PushConflict, PushAccept, TypeOK
    <3> QED BY <3>1, <2>1, <1>2
  <2> QED BY <2>3, <2>4
<1>5. ASSUME NEW h \in Handlers, CommitPush(h)
      PROVE  \A k \in Handlers : ReplyOK(k)'
  <2>1. ReplyOK(h)'
    <3>1. /\ acct' = acct /\ reply' = reply /\ pc'[h] = "done" /\ pc[h] = "writing"
          /\ acct[h] \in Accounts /\ changes'[acct[h]] = wrows
      BY <1>5, CommitPublishes DEF CommitPush, TypeOK
    <3> QED BY <3>1 DEF ReplyOK, RepliesOK
  <2>2. ASSUME NEW k \in Handlers, k # h
        PROVE  ReplyOK(k)'
    <3>1. pc'[k] = pc[k] /\ reply'[k] = reply[k] /\ acct'[k] = acct[k] /\ writer # k
      BY <1>5, <2>2 DEF CommitPush, TypeOK
    <3> QED BY <3>1, <1>2
  <2> QED BY <2>1, <2>2
<1>6. CASE Crash
  BY <1>6 DEF Crash, RepliesOK
<1>7. CASE UNCHANGED vars
  BY <1>7, <1>2 DEF vars, RepliesOK, ReplyOK
<1>8. (\A k \in Handlers : ReplyOK(k)') => RepliesOK'
  BY DEF ReplyOK, RepliesOK
<1> QED BY <1>3, <1>4, <1>5, <1>6, <1>7, <1>8 DEF Next, Work

LEMMA PagesStep == IInv /\ [Next]_vars => PagesOK'
<1> SUFFICES ASSUME IInv, [Next]_vars, NEW k \in Handlers, reply'[k].kind = "pull"
             PROVE  /\ pc'[k] = "done"
                    /\ \/ reply'[k].next = reply'[k].since
                       \/ reply'[k].next <= MaxSeq(changes'[acct'[k]])
                    /\ reply'[k].page = {r \in changes'[acct'[k]] :
                         reply'[k].since < r.seq /\ r.seq <= reply'[k].next}
  BY DEF PagesOK
<1> USE DEF IInv
<1>1. ASSUME NEW h \in Handlers, NEW a \in Accounts, NEW since \in Sinces,
             NEW limit \in Limits, ServePull(h, a, since, limit), h = k
      PROVE  /\ pc'[k] = "done"
             /\ \/ reply'[k].next = reply'[k].since
                \/ reply'[k].next <= MaxSeq(changes'[acct'[k]])
             /\ reply'[k].page = {r \in changes'[acct'[k]] :
                  reply'[k].since < r.seq /\ r.seq <= reply'[k].next}
  <2> DEFINE lim  == IF limit < MaxPull THEN limit ELSE MaxPull
             rows == Page(changes[a], since, lim)
             next == IF rows = {} THEN since ELSE MaxSeq(rows)
  <2>1. lim \in Nat /\ since \in Nat
    BY LimitsAssumption
  <2>2. changes[a] \in SUBSET Row /\ GapFree(changes[a]) /\ KeysUnique(changes[a])
    BY DEF TypeOK, LogsOK, Committed, WellFormed
  <2>3. /\ next = since \/ next <= MaxSeq(changes[a])
        /\ rows = {r \in changes[a] : since < r.seq /\ r.seq <= next}
    BY <2>1, <2>2, PageIsInterval
  <2>4. /\ reply'[k] = PullReply(rows, since, next) /\ pc'[k] = "done"
        /\ acct'[k] = a /\ changes' = changes
    BY <1>1 DEF ServePull, TypeOK
  <2> HIDE DEF rows, next, lim
  <2> QED BY <2>3, <2>4 DEF PullReply, Answer
<1>2. ASSUME reply'[k] = reply[k], pc'[k] = pc[k], acct'[k] = acct[k]
      PROVE  /\ pc'[k] = "done"
             /\ \/ reply'[k].next = reply'[k].since
                \/ reply'[k].next <= MaxSeq(changes'[acct'[k]])
             /\ reply'[k].page = {r \in changes'[acct'[k]] :
                  reply'[k].since < r.seq /\ r.seq <= reply'[k].next}
  <2> DEFINE S == changes[acct[k]]
             T == changes'[acct[k]]
  <2>1. /\ pc[k] = "done" /\ acct[k] \in Accounts
        /\ reply[k].next = reply[k].since \/ reply[k].next <= MaxSeq(S)
        /\ reply[k].page = {r \in S : reply[k].since < r.seq /\ r.seq <= reply[k].next}
    BY <1>2 DEF PagesOK, LockOK
  <2>2. reply[k].next \in Nat /\ reply[k].since \in Nat
    BY DEF TypeOK, Reply
  <2>3. ExtendsLog(S, T)
    BY <2>1, ExtendsStep
  <2>4. /\ S \in SUBSET Row /\ GapFree(S) /\ T \in SUBSET Row /\ GapFree(T)
    BY <2>1, LogsStep, TypeStep DEF TypeOK, LogsOK, Committed, WellFormed
  <2>5. MaxSeq(S) \in Nat /\ MaxSeq(T) \in Nat /\ MaxSeq(S) <= MaxSeq(T)
    BY <2>3, <2>4, MaxSeqMonotone, MaxSeqBounds DEF ExtendsLog
  <2>6. reply[k].next = reply[k].since \/ reply[k].next <= MaxSeq(T)
    <3> HIDE DEF S, T
    <3> QED BY <2>1, <2>2, <2>5
  <2>7. \A r \in T \ S : ~(reply[k].since < r.seq /\ r.seq <= reply[k].next)
    <3> SUFFICES ASSUME NEW r \in T \ S
                 PROVE  ~(reply[k].since < r.seq /\ r.seq <= reply[k].next)
      OBVIOUS
    <3>1. r.seq > MaxSeq(S) /\ r.seq \in Nat
      BY <2>3, <2>4 DEF ExtendsLog, Row
    <3> HIDE DEF S, T
    <3> QED BY <3>1, <2>1, <2>2, <2>5
  <2>8. reply[k].page = {r \in T : reply[k].since < r.seq /\ r.seq <= reply[k].next}
    <3> HIDE DEF S, T
    <3> QED BY <2>1, <2>3, <2>7 DEF ExtendsLog
  <2> QED BY <1>2, <2>1, <2>6, <2>8
<1>3. ASSUME NEW h \in Handlers,
             \/ RejectBatch(h) \/ RefusePush(h) \/ BusyTimeout(h) \/ RollbackPush(h)
             \/ BeginImmediate(h) \/ Finish(h)
             \/ PushDuplicate(h) \/ PushConflict(h) \/ PushAccept(h)
      PROVE  h # k /\ reply'[k] = reply[k] /\ pc'[k] = pc[k] /\ acct'[k] = acct[k]
  <2>1. reply'[h].kind # "pull"
    <3>1. CASE PushDuplicate(h) \/ PushConflict(h) \/ PushAccept(h)
      <4>1. CASE PushDuplicate(h)
        <5>1. PICK r : reply'[h] = PushReply(reply[h].accepted \cup {Ack(r)}, reply[h].conflicts)
          BY <4>1 DEF PushDuplicate, TypeOK
        <5> QED BY <5>1 DEF PushReply, Answer
      <4>2. CASE PushConflict(h)
        BY <4>2 DEF PushConflict, TypeOK, PushReply, Answer
      <4>3. CASE PushAccept(h)
        BY <4>3 DEF PushAccept, TypeOK, PushReply, Answer
      <4> QED BY <3>1, <4>1, <4>2, <4>3
    <3>2. CASE ~(PushDuplicate(h) \/ PushConflict(h) \/ PushAccept(h))
      BY <1>3, <3>2 DEF RejectBatch, RefusePush, BusyTimeout, RollbackPush, AnswerError,
         BeginImmediate, Finish, TypeOK, ErrorReply, NoReply, PushReply, Answer
    <3> QED BY <3>1, <3>2
  <2> QED BY <1>3, <2>1
          DEF RejectBatch, RefusePush, BusyTimeout, RollbackPush, AnswerError,
              BeginImmediate, Finish, PushDuplicate, PushConflict, PushAccept, TypeOK
<1>4. ASSUME NEW h \in Handlers, NEW a \in Accounts, NEW b \in Batches,
             ReceivePush(h, a, b)
      PROVE  reply'[k] = reply[k] /\ pc'[k] = pc[k] /\ acct'[k] = acct[k]
  BY <1>4 DEF ReceivePush, TypeOK, PagesOK
<1>5. ASSUME NEW h \in Handlers, CommitPush(h)
      PROVE  reply'[k] = reply[k] /\ pc'[k] = pc[k] /\ acct'[k] = acct[k]
  BY <1>5 DEF CommitPush, TypeOK, PagesOK
<1>6. ASSUME NEW h \in Handlers, NEW a \in Accounts, NEW since \in Sinces,
             NEW limit \in Limits, ServePull(h, a, since, limit), h # k
      PROVE  reply'[k] = reply[k] /\ pc'[k] = pc[k] /\ acct'[k] = acct[k]
  BY <1>6 DEF ServePull, TypeOK
<1>7. ~Crash
  BY DEF Crash, NoReply, Answer
<1>8. CASE UNCHANGED vars
  BY <1>8, <1>2 DEF vars
<1> QED BY <1>1, <1>2, <1>3, <1>4, <1>5, <1>6, <1>7, <1>8 DEF Next, Work

-----------------------------------------------------------------------------
LEMMA IInvStep == IInv /\ [Next]_vars => IInv'
BY TypeStep, LockStep, LogsStep, TxnStep, RepliesStep, PagesStep DEF IInv

\* The invariant holds of every behaviour.
THEOREM Invariance == Spec => []IInv
BY IInvStep, InitIInv, PTL DEF Spec

\* Every variable keeps its type.
THEOREM TypeCorrect == Spec => []TypeOK
BY Invariance, PTL DEF IInv

\* Concurrent, rolled back and interrupted pushes leave the log of every
\* account numbered without gaps or duplicates, its versions chained.
THEOREM LogCorrect == Spec => []LogWellFormed
<1>1. IInv => LogWellFormed
  BY DEF IInv, LogsOK, Committed, WellFormed, LogWellFormed
<1> QED BY <1>1, Invariance, PTL

\* The heads that decide conflicts always agree with the log.
THEOREM HeadsCorrect == Spec => []HeadsMatchLog
<1>1. IInv => HeadsMatchLog
  BY DEF IInv, LogsOK, Committed, WellFormed, HeadsMatchLog
<1> QED BY <1>1, Invariance, PTL

\* A client that moves to next_cursor never skips a committed change.
THEOREM PagesCorrect == Spec => []PageComplete
<1>1. IInv => PageComplete
  BY DEF IInv, PagesOK, PageComplete
<1> QED BY <1>1, Invariance, PTL

\* An accepted change is committed as it was answered.
THEOREM AcksCorrect == Spec => []AcceptedIsCommitted
<1>1. IInv => AcceptedIsCommitted
  BY DEF IInv, RepliesOK, Logged, AcceptedIsCommitted
<1> QED BY <1>1, Invariance, PTL

\* No step rewrites, removes or inserts before a committed change.
THEOREM LogAppendOnly == Spec => AppendOnly
<1>1. IInv /\ [Next]_vars =>
        [\A a \in Accounts :
           /\ changes[a] \subseteq changes'[a]
           /\ \A r \in changes'[a] \ changes[a] : r.seq > MaxSeq(changes[a])]_vars
  BY ExtendsStep DEF ExtendsLog
<1> QED BY <1>1, Invariance, PTL DEF Spec, AppendOnly
-----------------------------------------------------------------------------
(* The abstract log.  While a transaction is open, what it has made of the  *)
(* committed rows and what it has collected for its answer are what PushLog *)
(* makes of the part of the batch that is done.                             *)

\* What the recursion over a batch computes.
LEMMA OutcomesAre ==
  ASSUME NEW L, NEW B, Len(B) \in Nat
  PROVE  /\ Log!Outcomes(L, B)[0] = [log |-> L, accepted |-> {}, conflicts |-> {}]
         /\ \A n \in 1..Len(B) :
              Log!Outcomes(L, B)[n] = Log!Consider(Log!Outcomes(L, B)[n - 1], B[n])
<1> DEFINE Start == [log |-> L, accepted |-> {}, conflicts |-> {}]
           After(g, n) == IF n = 0 THEN Start ELSE Log!Consider(g[n - 1], B[n])
           Solves(g, m) == g = [n \in 0..m |-> After(g, n)]
           Bad == {m \in 0..Len(B) : \A g : ~Solves(g, m)}
<1>1. Bad = {}
  <2> SUFFICES ASSUME Bad # {} PROVE FALSE
    OBVIOUS
  <2>1. Bad \subseteq Nat
    OBVIOUS
  <2>2. PICK m \in Bad : \A k \in Bad : ~(<<k, m>> \in OpToRel(<, Nat))
    BY <2>1, NatLessThanWellFounded, WFMin
  <2>3. m \in Nat /\ \A k \in Bad : ~(k < m)
    BY <2>1, <2>2 DEF OpToRel
  <2>4. m # 0
    <3>1. Solves([n \in 0..0 |-> Start], 0)
      OBVIOUS
    <3> HIDE DEF Solves
    <3> QED BY <3>1
  <2>5. PICK g : Solves(g, m - 1)
    <3>1. m - 1 \in 0..Len(B) /\ m - 1 < m
      BY <2>3, <2>4
    <3> HIDE DEF Solves
    <3> QED BY <2>3, <3>1
  <2> DEFINE f == [n \in 0..m |-> IF n = m THEN After(g, m) ELSE g[n]]
  <2>6. ASSUME NEW n \in 0..m PROVE f[n] = After(f, n)
    <3>1. CASE n = m
      <4>1. m - 1 \in 0..m /\ m - 1 # m
        BY <2>3, <2>4
      <4>2. f[m - 1] = g[m - 1] /\ f[m] = After(g, m)
        BY <4>1
      <4> HIDE DEF f
      <4> QED BY <2>4, <3>1, <4>2
    <3>2. CASE n # m
      <4>1. n \in 0..(m - 1) /\ (n # 0 => n - 1 \in 0..m /\ n - 1 # m)
        BY <2>3, <2>4, <3>2
      <4>2. f[n] = g[n] /\ (n # 0 => f[n - 1] = g[n - 1])
        BY <3>2, <4>1
      <4>3. g[n] = After(g, n)
        BY <2>5, <4>1
      <4> HIDE DEF f
      <4> QED BY <4>2, <4>3
    <3> QED BY <3>1, <3>2
  <2>7. Solves(f, m)
    <3>1. f = [n \in 0..m |-> f[n]]
      OBVIOUS
    <3> HIDE DEF f
    <3> QED BY <2>6, <3>1
  <2> HIDE DEF Solves
  <2> QED BY <2>7
<1>2. PICK g : Solves(g, Len(B))
  <2> HIDE DEF Solves
  <2> QED BY <1>1
<1>3. Solves(Log!Outcomes(L, B), Len(B))
  BY <1>2 DEF Log!Outcomes
<1> HIDE DEF Bad
<1> DEFINE o == Log!Outcomes(L, B)
<1> HIDE DEF o
<1>4. \A n \in 0..Len(B) : o[n] = After(o, n)
  BY <1>3 DEF o
<1>5. o[0] = Start
  <2>1. 0 \in 0..Len(B)
    OBVIOUS
  <2>2. o[0] = After(o, 0)
    BY <1>4, <2>1
  <2> QED BY <2>2
<1>6. \A n \in 1..Len(B) : o[n] = Log!Consider(o[n - 1], B[n])
  BY <1>4
<1> QED BY <1>5, <1>6 DEF o

\* A table without gaps and duplicates, read as a sequence.
LEMMA LogOfTable ==
  ASSUME NEW S \in SUBSET Row, GapFree(S), KeysUnique(S)
  PROVE  /\ MaxSeq(S) \in Nat /\ LogOf(S) \in Seq(Entries) /\ Len(LogOf(S)) = MaxSeq(S)
         /\ DOMAIN LogOf(S) = 1..MaxSeq(S)
         /\ \A r \in S : r.seq \in 1..MaxSeq(S) /\ LogOf(S)[r.seq] = Entry(r)
         /\ \A k \in 1..MaxSeq(S) : \E r \in S : r.seq = k /\ LogOf(S)[k] = Entry(r)
<1> DEFINE n == MaxSeq(S)
           L == LogOf(S)
<1>1. n \in Nat /\ Seqs(S) = 1..n
  BY MaxSeqBounds
<1>2. L = [k \in 1..n |-> Entry(CHOOSE r \in S : r.seq = k)]
  BY DEF LogOf
<1> HIDE DEF n, L
<1>3. ASSUME NEW r \in S PROVE r.seq \in 1..n /\ L[r.seq] = Entry(r)
  <2>1. r.seq \in 1..n
    BY <1>1 DEF Seqs
  <2>2. (CHOOSE q \in S : q.seq = r.seq) = r
    BY DEF KeysUnique
  <2> QED BY <1>2, <2>1, <2>2
<1>4. ASSUME NEW k \in 1..n PROVE \E r \in S : r.seq = k /\ L[k] = Entry(r)
  <2>1. PICK r \in S : r.seq = k
    BY <1>1 DEF Seqs
  <2> QED BY <1>3, <2>1
<1>5. L \in Seq(Entries)
  <2>1. ASSUME NEW k \in 1..n PROVE L[k] \in Entries
    <3>1. PICK r \in S : L[k] = Entry(r)
      BY <1>4
    <3>2. r \in Row
      OBVIOUS
    <3> QED BY <3>1, <3>2 DEF Entry, Entries, Row
  <2>2. L \in [1..n -> Entries]
    BY <1>2, <2>1
  <2> QED BY <1>1, <2>2
<1>6. Len(L) = n /\ DOMAIN L = 1..n
  BY <1>1, <1>2, <1>5
<1> QED BY <1>1, <1>3, <1>4, <1>5, <1>6 DEF n, L

\* A row added at the end of a table is an entry added to its log.
LEMMA LogOfAdded ==
  ASSUME NEW S \in SUBSET Row, GapFree(S), KeysUnique(S),
         NEW r \in Row, r.seq = MaxSeq(S) + 1
  PROVE  LogOf(S \cup {r}) = Append(LogOf(S), Entry(r))
<1> DEFINE n == MaxSeq(S)
           T == S \cup {r}
<1>1. n \in Nat /\ Seqs(S) = 1..n /\ n + 1 \in Nat
  BY MaxSeqBounds
<1>2. Seqs(T) = 1..(n + 1)
  <2>1. Seqs(T) = Seqs(S) \cup {n + 1}
    BY DEF Seqs
  <2> HIDE DEF n, T
  <2> QED BY <1>1, <2>1
<1>3. MaxSeq(T) = n + 1
  BY <1>1, <1>2, MaxSeqOfRange
<1>4. \A q \in T : q \in S \/ (q = r /\ q.seq = n + 1)
  OBVIOUS
<1>5. \A q \in S : q.seq \in 1..n /\ LogOf(S)[q.seq] = Entry(q)
  BY LogOfTable
<1>6. ASSUME NEW k \in 1..(n + 1)
      PROVE  Entry(CHOOSE q \in T : q.seq = k) = Append(LogOf(S), Entry(r))[k]
  <2>1. LogOf(S) \in Seq(Entries) /\ Len(LogOf(S)) = n
    BY LogOfTable
  <2>2. CASE k = n + 1
    <3>1. \A q \in T : q.seq = k => q = r
      BY <1>1, <1>4, <1>5, <2>2
    <3>2. (CHOOSE q \in T : q.seq = k) = r
      BY <2>2, <3>1
    <3>3. Append(LogOf(S), Entry(r))[n + 1] = Entry(r)
      BY <1>1, <2>1
    <3> QED BY <2>2, <3>2, <3>3
  <2>3. CASE k # n + 1
    <3>1. k \in 1..n
      BY <1>1, <2>3
    <3>2. PICK q \in S : q.seq = k /\ LogOf(S)[k] = Entry(q)
      BY <3>1, LogOfTable
    <3>3. \A x \in T : x.seq = k => x = q
      BY <1>4, <2>3, <3>2 DEF KeysUnique
    <3>4. (CHOOSE x \in T : x.seq = k) = q
      BY <3>2, <3>3
    <3>5. Append(LogOf(S), Entry(r))[k] = LogOf(S)[k]
      BY <1>1, <2>1, <3>1
    <3> QED BY <3>2, <3>4, <3>5
  <2> QED BY <2>2, <2>3
<1>7. Append(LogOf(S), Entry(r)) = [k \in 1..(n + 1) |-> Append(LogOf(S), Entry(r))[k]]
  <2>1. LogOf(S) \in Seq(Entries) /\ Len(LogOf(S)) = n /\ Entry(r) \in Entries
    BY LogOfTable DEF Entry, Entries, Row
  <2> DEFINE M == Append(LogOf(S), Entry(r))
  <2> HIDE DEF n
  <2>2. M \in Seq(Entries) /\ Len(M) = n + 1
    BY <1>1, <2>1
  <2> HIDE DEF M
  <2>3. M = [k \in 1..(n + 1) |-> M[k]]
    BY <2>2
  <2> QED BY <2>3 DEF M
<1>8. LogOf(T) = [k \in 1..(n + 1) |-> Entry(CHOOSE q \in T : q.seq = k)]
  BY <1>3 DEF LogOf
<1> HIDE DEF n, T
<1>9. LogOf(T) = [k \in 1..(n + 1) |-> Append(LogOf(S), Entry(r))[k]]
  BY <1>6, <1>8
<1> QED BY <1>7, <1>9 DEF T

LEMMA VersionOf ==
  ASSUME NEW L, NEW n, NEW e
  PROVE  Log!VersionAt(L, n, e) = Cardinality({k \in 1..n : L[k].ent = e})
BY DEF Log!VersionAt, Log!Cardinality, Cardinality

\* The version of an entity along a log, and what a new entry does to it.
LEMMA VersionGrows ==
  ASSUME NEW X, NEW L \in Seq(X), NEW x \in X
  PROVE  /\ \A e : \A n \in 0..Len(L) :
              /\ Log!VersionAt(L, n, e) \in Nat
              /\ Log!VersionAt(Append(L, x), n, e) = Log!VersionAt(L, n, e)
         /\ \A e : Log!VersionAt(Append(L, x), Len(L) + 1, e) =
                     Log!VersionAt(L, Len(L), e) + IF x.ent = e THEN 1 ELSE 0
<1> DEFINE M == Append(L, x)
           Of(K, n, e) == {k \in 1..n : K[k].ent = e}
<1>1. /\ Len(L) \in Nat /\ M[Len(L) + 1] = x
      /\ \A k \in 1..Len(L) : M[k] = L[k]
  OBVIOUS
<1>2. ASSUME NEW K, NEW n, NEW e PROVE Log!VersionAt(K, n, e) = Cardinality(Of(K, n, e))
  BY VersionOf
<1>3. \A K, e : \A n \in Nat : IsFiniteSet(Of(K, n, e)) /\ Cardinality(Of(K, n, e)) \in Nat
  <2> SUFFICES ASSUME NEW K, NEW e, NEW n \in Nat
               PROVE  IsFiniteSet(Of(K, n, e)) /\ Cardinality(Of(K, n, e)) \in Nat
    OBVIOUS
  <2>1. IsFiniteSet(1..n)
    BY FS_Interval
  <2>2. Of(K, n, e) \in SUBSET (1..n)
    OBVIOUS
  <2> HIDE DEF Of
  <2> QED BY <2>1, <2>2, FS_Subset, FS_CardinalityType
<1>4. \A e : \A n \in 0..Len(L) : Of(M, n, e) = Of(L, n, e)
  BY <1>1
<1>5. ASSUME NEW e
      PROVE  Cardinality(Of(M, Len(L) + 1, e)) =
               Cardinality(Of(L, Len(L), e)) + IF x.ent = e THEN 1 ELSE 0
  <2>1. Of(M, Len(L) + 1, e) =
          IF x.ent = e THEN Of(L, Len(L), e) \cup {Len(L) + 1} ELSE Of(L, Len(L), e)
    BY <1>1
  <2>2. Len(L) + 1 \notin Of(L, Len(L), e)
    BY <1>1
  <2>3. IsFiniteSet(Of(L, Len(L), e)) /\ Cardinality(Of(L, Len(L), e)) \in Nat
    BY <1>1, <1>3
  <2> HIDE DEF Of, M
  <2>4. CASE x.ent = e
    BY <2>1, <2>2, <2>3, <2>4, FS_AddElement
  <2>5. CASE x.ent # e
    BY <2>1, <2>3, <2>5
  <2> QED BY <2>4, <2>5
<1> HIDE DEF Of, M
<1>6. \A e : \A n \in 0..Len(L) :
        /\ Log!VersionAt(L, n, e) \in Nat
        /\ Log!VersionAt(M, n, e) = Log!VersionAt(L, n, e)
  <2>1. \A n \in 0..Len(L) : n \in Nat
    BY <1>1
  <2> QED BY <1>2, <1>3, <1>4, <2>1
<1>7. \A e : Log!VersionAt(M, Len(L) + 1, e) =
               Log!VersionAt(L, Len(L), e) + IF x.ent = e THEN 1 ELSE 0
  BY <1>2, <1>5
<1> QED BY <1>6, <1>7 DEF M

\* Every row has the version its entry makes.
Numbered(S) == \A r \in S : r.ver = Log!VersionAt(LogOf(S), r.seq, r.ent)

\* So a head has the version of the whole log.
LEMMA HeadVersion ==
  ASSUME NEW S \in SUBSET Row, NEW H, WellFormed(S, H), Numbered(S), NEW e \in Entities
  PROVE  H[e].ver = Log!VersionAt(LogOf(S), MaxSeq(S), e)
<1> DEFINE n == MaxSeq(S)
           L == LogOf(S)
           Of(m) == {k \in 1..m : L[k].ent = e}
<1>1. /\ n \in Nat /\ \A r \in S : r.seq \in 1..n /\ L[r.seq] = Entry(r)
      /\ \A k \in 1..n : \E r \in S : r.seq = k /\ L[k] = Entry(r)
  BY LogOfTable DEF WellFormed
<1> HIDE DEF n, L
<1>2. Log!VersionAt(L, n, e) = Cardinality(Of(n))
  BY VersionOf
<1>3. CASE H[e] = NoHead /\ RowsOf(S, e) = {}
  <2>1. ASSUME NEW k \in 1..n PROVE L[k].ent # e
    <3>1. PICK r \in S : L[k] = Entry(r)
      BY <1>1
    <3> QED BY <1>3, <3>1 DEF RowsOf, Entry
  <2>2. Of(n) = {}
    BY <2>1
  <2> HIDE DEF Of
  <2> QED BY <1>2, <1>3, <2>2, FS_EmptySet DEF NoHead, n, L
<1>4. ASSUME NEW r \in RowsOf(S, e), H[e] = HeadOf(r), \A q \in RowsOf(S, e) : q.seq <= r.seq
      PROVE  H[e].ver = Log!VersionAt(L, n, e)
  <2>1. r \in S /\ r.ent = e /\ r.ver = H[e].ver /\ r.seq \in 1..n
    BY <1>1, <1>4 DEF RowsOf, HeadOf
  <2>2. r.ver = Cardinality(Of(r.seq))
    BY <2>1, VersionOf DEF Numbered, L
  <2>3. ASSUME NEW k \in 1..n, L[k].ent = e PROVE k <= r.seq
    <3>1. PICK q \in S : q.seq = k /\ L[k] = Entry(q)
      BY <1>1
    <3> QED BY <1>4, <2>3, <3>1 DEF RowsOf, Entry
  <2>4. Of(n) = Of(r.seq)
    BY <1>1, <2>1, <2>3
  <2> HIDE DEF Of
  <2> QED BY <1>2, <2>1, <2>2, <2>4
<1>5. \/ H[e] = NoHead /\ RowsOf(S, e) = {}
      \/ \E r \in RowsOf(S, e) : H[e] = HeadOf(r) /\ \A q \in RowsOf(S, e) : q.seq <= r.seq
  BY DEF WellFormed, HeadsMatch, HeadOf
<1> QED BY <1>3, <1>4, <1>5 DEF n, L

LEMMA AcceptKeepsNumbered ==
  ASSUME NEW S \in SUBSET Row, NEW H \in [Entities -> HeadRow], NEW c \in Change,
         WellFormed(S, H), Numbered(S), NEW r \in Row, r = LoggedAs(c, S, H)
  PROVE  Numbered(S \cup {r}) /\ LogOf(S \cup {r}) = Append(LogOf(S), Entry(r))
<1> DEFINE L == LogOf(S)
           M == Append(L, Entry(r))
<1>1. /\ L \in Seq(Entries) /\ Len(L) = MaxSeq(S) /\ Len(L) \in Nat
      /\ \A q \in S : q.seq \in 0..Len(L)
  BY LogOfTable DEF WellFormed
<1>2. r.seq = Len(L) + 1 /\ r.ent = c.ent /\ r.ver = H[c.ent].ver + 1 /\ c.ent \in Entities
  BY <1>1 DEF LoggedAs, Change
<1>3. LogOf(S \cup {r}) = M
  BY <1>1, <1>2, LogOfAdded DEF WellFormed
<1>4. Entry(r) \in Entries /\ Entry(r).ent = r.ent
  BY DEF Entry, Entries, Row
<1>5. H[c.ent].ver = Log!VersionAt(L, Len(L), c.ent)
  BY <1>1, <1>2, HeadVersion
<1> HIDE DEF L, M
<1>6. \A q \in S : q.ver = Log!VersionAt(M, q.seq, q.ent)
  <2>1. \A q \in S : q.ver = Log!VersionAt(L, q.seq, q.ent)
    BY DEF Numbered, L
  <2>2. \A e : \A n \in 0..Len(L) : Log!VersionAt(M, n, e) = Log!VersionAt(L, n, e)
    BY <1>1, <1>4, VersionGrows DEF M
  <2> QED BY <1>1, <2>1, <2>2
<1>7. r.ver = Log!VersionAt(M, r.seq, r.ent)
  <2>1. Log!VersionAt(M, Len(L) + 1, r.ent) = Log!VersionAt(L, Len(L), r.ent) + 1
    BY <1>1, <1>4, VersionGrows DEF M
  <2> QED BY <1>2, <1>5, <2>1
<1> QED BY <1>3, <1>6, <1>7 DEF Numbered, L, M

\* What is considered over a table is what a transaction does with it.
LEMMA Considered ==
  ASSUME NEW S \in SUBSET Row, NEW H \in [Entities -> HeadRow], NEW c \in Change,
         WellFormed(S, H), Numbered(S), NEW A, NEW C
  PROVE  LET o == [log |-> LogOf(S), accepted |-> A, conflicts |-> C]
             r == LoggedAs(c, S, H)
             x == [ent |-> c.ent, ver |-> H[c.ent].ver]
         IN /\ \A q \in Same(S, c) : Log!Consider(o, c) =
                 [log |-> LogOf(S), accepted |-> A \cup {Ack(q)}, conflicts |-> C]
            /\ Same(S, c) = {} /\ c.base # H[c.ent].ver => Log!Consider(o, c) =
                 [log |-> LogOf(S), accepted |-> A, conflicts |-> C \cup {x}]
            /\ Same(S, c) = {} /\ c.base = H[c.ent].ver => Log!Consider(o, c) =
                 [log |-> Append(LogOf(S), Entry(r)), accepted |-> A \cup {Ack(r)}, conflicts |-> C]
<1> DEFINE L == LogOf(S)
           e == c.ent
           o == [log |-> L, accepted |-> A, conflicts |-> C]
           same == Log!Known(L, c)
           ver == Log!VersionAt(L, Len(L), e)
           r == LoggedAs(c, S, H)
<1>1. /\ L \in Seq(Entries) /\ Len(L) = MaxSeq(S) /\ DOMAIN L = 1..MaxSeq(S)
      /\ \A q \in S : q.seq \in 1..MaxSeq(S) /\ L[q.seq] = Entry(q)
      /\ \A k \in 1..MaxSeq(S) : \E q \in S : q.seq = k /\ L[k] = Entry(q)
  BY LogOfTable DEF WellFormed
<1>2. ver = H[e].ver
  BY <1>1, HeadVersion DEF Change
<1>3. /\ \A q \in Same(S, c) : q.seq \in same
      /\ \A n \in same : \E q \in Same(S, c) : q.seq = n
  <2>1. ASSUME NEW q \in Same(S, c) PROVE q.seq \in same
    <3>1. q \in S /\ q.ent = e /\ q.hash = c.hash
      BY DEF Same
    <3>2. L[q.seq] = Entry(q) /\ q.seq \in DOMAIN L
      BY <1>1, <3>1
    <3> HIDE DEF L
    <3> QED BY <3>1, <3>2 DEF Entry, Log!Known
  <2>2. ASSUME NEW n \in same PROVE \E q \in Same(S, c) : q.seq = n
    <3>1. n \in DOMAIN L /\ L[n].ent = e /\ L[n].hash = c.hash
      BY DEF Log!Known
    <3>2. PICK q \in S : q.seq = n /\ L[n] = Entry(q)
      BY <1>1, <3>1
    <3> HIDE DEF L
    <3>3. q.ent = e /\ q.hash = c.hash
      BY <3>1, <3>2 DEF Entry
    <3> QED BY <3>2, <3>3 DEF Same
  <2> HIDE DEF same
  <2> QED BY <2>1, <2>2
<1>4. Log!Consider(o, c) =
        CASE same # {} ->
               [log |-> L, accepted |-> A \cup Log!Acks(L, c), conflicts |-> C]
          [] same = {} /\ c.base # ver ->
               [log |-> L, accepted |-> A, conflicts |-> C \cup {[ent |-> e, ver |-> ver]}]
          [] OTHER ->
               [log |-> Append(L, Log!Entry(c)), conflicts |-> C,
                accepted |-> A \cup {[ent |-> e, seq |-> Len(L) + 1, ver |-> ver + 1]}]
  <2>1. o.log = L /\ o.accepted = A /\ o.conflicts = C
    OBVIOUS
  <2>2. \A x : /\ [o EXCEPT !.accepted = x] = [log |-> L, accepted |-> x, conflicts |-> C]
               /\ [o EXCEPT !.conflicts = x] = [log |-> L, accepted |-> A, conflicts |-> x]
    OBVIOUS
  <2> HIDE DEF o, L
  <2> QED BY <2>1, <2>2 DEF Log!Consider
<1> HIDE DEF L, o, same, ver
<1>5. ASSUME NEW q \in Same(S, c)
      PROVE  Log!Consider(o, c) = [log |-> L, accepted |-> A \cup {Ack(q)}, conflicts |-> C]
  <2>1. same = {q.seq}
    <3>1. \A p \in Same(S, c) : p = q
      BY DEF Same, WellFormed, KeysUnique
    <3> QED BY <1>3, <3>1
  <2>2. [ent |-> e, seq |-> q.seq, ver |-> Log!VersionAt(L, q.seq, e)] = Ack(q)
    BY DEF Numbered, Same, Ack, L
  <2>3. Log!Acks(L, c) = {Ack(q)}
    BY <2>1, <2>2 DEF Log!Acks, same
  <2> QED BY <1>4, <2>1, <2>3
<1>6. ASSUME Same(S, c) = {}, c.base # H[e].ver
      PROVE  Log!Consider(o, c) =
               [log |-> L, accepted |-> A, conflicts |-> C \cup {[ent |-> e, ver |-> H[e].ver]}]
  BY <1>2, <1>3, <1>4, <1>6
<1>7. ASSUME Same(S, c) = {}, c.base = H[e].ver
      PROVE  Log!Consider(o, c) =
               [log |-> Append(L, Entry(r)), accepted |-> A \cup {Ack(r)}, conflicts |-> C]
  <2>1. same = {} /\ c.base = ver
    BY <1>2, <1>3, <1>7
  <2>2. Log!Entry(c) = Entry(r)
    BY DEF Log!Entry, Entry, LoggedAs
  <2>3. Ack(r) = [ent |-> e, seq |-> Len(L) + 1, ver |-> ver + 1]
    BY <1>1, <1>2 DEF Ack, LoggedAs
  <2> QED BY <1>4, <2>1, <2>2, <2>3
<1> QED BY <1>5, <1>6, <1>7 DEF L, o

\* T is what is left of batch B.
RestOf(B, T) ==
  /\ Len(T) <= Len(B)
  /\ \A n \in 1..Len(T) : T[n] = B[Len(B) - Len(T) + n]

\* How far the transaction of h is through its batch, the log it began with
\* and what it has come to.
Done(h)  == Len(batchOf[h]) - Len(todo[h])
Start(h) == LogOf(changes[acct[h]])
View(h)  == [log |-> LogOf(wrows), accepted |-> reply[h].accepted,
             conflicts |-> reply[h].conflicts]

\* The part of the batch that is done has come to what it comes to over the
\* log the transaction began with, and the rest is still to do.
Halfway(h) ==
  /\ Len(batchOf[h]) <= MaxBatch /\ RestOf(batchOf[h], todo[h])
  /\ reply[h].kind = "push" /\ Numbered(wrows)
  /\ Log!Outcomes(Start(h), batchOf[h])[Done(h)] = View(h)

PushOK(h) ==
  /\ pc[h] \in {"begin", "writing"} => batchOf[h] \in Batches
  /\ pc[h] = "begin" => todo[h] = batchOf[h]
  /\ pc[h] = "writing" => Halfway(h)
  /\ pc[h] = "done" => reply[h].kind \in {"push", "pull", "error"}

LogsNumbered == \A a \in Accounts : Numbered(changes[a])

LInv ==
  /\ IInv /\ batchOf \in [Handlers -> Seq(Change)]
  /\ LogsNumbered
  /\ \A h \in Handlers : PushOK(h)

\* What thread h does by itself, without the log noticing or with.
Steps(h) ==
  \/ Work(h) \/ RefusePush(h) \/ RollbackPush(h)
  \/ \E a \in Accounts, b \in Batches : ReceivePush(h, a, b)
  \/ \E a \in Accounts, since \in Sinces, limit \in Limits : ServePull(h, a, since, limit)

\* A step of one thread leaves the others where they are, and the tables of
\* the one that writes.
LEMMA OneThread ==
  ASSUME IInv, NEW h \in Handlers, Steps(h), NEW k \in Handlers, k # h
  PROVE  /\ pc'[k] = pc[k] /\ acct'[k] = acct[k] /\ todo'[k] = todo[k] /\ reply'[k] = reply[k]
         /\ writer = k => UNCHANGED <<changes, wrows>>
<1> USE NoneAssumption DEF IInv, TypeOK
<1>1. CASE RejectBatch(h) \/ RefusePush(h) \/ BusyTimeout(h)
  BY <1>1 DEF RejectBatch, RefusePush, BusyTimeout, AnswerError, txn
<1>2. CASE BeginImmediate(h)
  BY <1>2 DEF BeginImmediate
<1>3. CASE PushDuplicate(h) \/ PushConflict(h) \/ PushAccept(h)
  BY <1>3 DEF PushDuplicate, PushConflict, PushAccept, Processing
<1>4. CASE CommitPush(h) \/ RollbackPush(h)
  BY <1>4 DEF CommitPush, RollbackPush, AnswerError
<1>5. CASE Finish(h)
  BY <1>5 DEF Finish
<1>6. ASSUME NEW a \in Accounts, NEW b \in Batches, ReceivePush(h, a, b)
      PROVE  /\ pc'[k] = pc[k] /\ acct'[k] = acct[k] /\ todo'[k] = todo[k] /\ reply'[k] = reply[k]
             /\ writer = k => UNCHANGED <<changes, wrows>>
  BY <1>6 DEF ReceivePush
<1>7. ASSUME NEW a \in Accounts, NEW since \in Sinces, NEW limit \in Limits,
             ServePull(h, a, since, limit)
      PROVE  /\ pc'[k] = pc[k] /\ acct'[k] = acct[k] /\ todo'[k] = todo[k] /\ reply'[k] = reply[k]
             /\ writer = k => UNCHANGED <<changes, wrows>>
  BY <1>7 DEF ServePull
<1> QED BY <1>1, <1>2, <1>3, <1>4, <1>5, <1>6, <1>7 DEF Steps, Work

\* What a step makes of the history variable.
LEMMA BatchStep ==
  ASSUME LogNext, NEW k \in Handlers
  PROVE  /\ pc[k] = "idle" /\ pc'[k] = "begin" => batchOf'[k] = todo'[k]
         /\ pc[k] # "idle" /\ pc'[k] \in {"begin", "writing"} => batchOf'[k] = batchOf[k]
         /\ pc'[k] \in {"idle", "done"} => batchOf'[k] = <<>>
BY DEF LogNext

LEMMA Untouched ==
  ASSUME LInv, [LogNext]_lvars, NEW k \in Handlers,
         pc'[k] = pc[k], acct'[k] = acct[k], todo'[k] = todo[k], reply'[k] = reply[k],
         writer = k => UNCHANGED <<changes, wrows>>
  PROVE  PushOK(k)'
<1>1. pc[k] \in {"begin", "writing"} => batchOf'[k] = batchOf[k]
  <2>1. CASE LogNext
    BY <2>1, BatchStep
  <2>2. CASE UNCHANGED lvars
    BY <2>2 DEF lvars
  <2> QED BY <2>1, <2>2
<1>2. pc[k] = "writing" => writer = k
  BY DEF LInv, IInv, LockOK
<1>3. PushOK(k)
  BY DEF LInv
<1>4. CASE pc[k] = "writing"
  <2>1. /\ batchOf'[k] = batchOf[k] /\ acct'[k] = acct[k] /\ todo'[k] = todo[k]
        /\ reply'[k] = reply[k] /\ wrows' = wrows /\ changes' = changes
    BY <1>1, <1>2, <1>4
  <2>2. Done(k)' = Done(k) /\ Start(k)' = Start(k) /\ View(k)' = View(k) /\ Numbered(wrows)' = Numbered(wrows)
    BY <2>1 DEF Done, Start, View
  <2>3. Halfway(k)' = Halfway(k)
    BY <2>1, <2>2 DEF Halfway
  <2> QED BY <1>3, <1>4, <2>1, <2>3 DEF PushOK
<1>5. CASE pc[k] # "writing"
  BY <1>1, <1>3, <1>5 DEF PushOK
<1> QED BY <1>4, <1>5

LEMMA NextOfBatch ==
  ASSUME NEW L, NEW B \in Seq(Change), NEW T \in Seq(Change), T # <<>>, RestOf(B, T)
  PROVE  /\ RestOf(B, Tail(T))
         /\ Log!Outcomes(L, B)[Len(B) - Len(Tail(T))] =
              Log!Consider(Log!Outcomes(L, B)[Len(B) - Len(T)], Head(T))
<1> DEFINE U == Tail(T)
           m == Len(B) - Len(U)
<1>1. /\ Len(B) \in Nat /\ Len(T) \in Nat /\ Len(T) # 0
      /\ Len(U) = Len(T) - 1 /\ Head(T) = T[1] /\ \A k \in 1..Len(U) : U[k] = T[k + 1]
  OBVIOUS
<1>2. Len(T) <= Len(B) /\ \A k \in 1..Len(T) : T[k] = B[Len(B) - Len(T) + k]
  BY DEF RestOf
<1> HIDE DEF U
<1>3. m \in 1..Len(B) /\ m - 1 = Len(B) - Len(T) /\ m = Len(B) - Len(T) + 1 /\ Len(U) <= Len(B)
  BY <1>1, <1>2
<1>4. Head(T) = B[m]
  <2>1. T[1] = B[Len(B) - Len(T) + 1]
    BY <1>1, <1>2
  <2> QED BY <1>1, <1>3, <2>1
<1>5. \A k \in 1..Len(U) : U[k] = B[m + k]
  <2> SUFFICES ASSUME NEW k \in 1..Len(U) PROVE U[k] = B[m + k]
    OBVIOUS
  <2>1. U[k] = T[k + 1] /\ k + 1 \in 1..Len(T)
    BY <1>1
  <2>2. T[k + 1] = B[Len(B) - Len(T) + (k + 1)]
    BY <1>2, <2>1
  <2>3. Len(B) - Len(T) + (k + 1) = m + k
    BY <1>1
  <2> QED BY <2>1, <2>2, <2>3
<1> HIDE DEF m
<1>6. Log!Outcomes(L, B)[m] = Log!Consider(Log!Outcomes(L, B)[m - 1], B[m])
  <2>1. \A n \in 1..Len(B) : Log!Outcomes(L, B)[n] = Log!Consider(Log!Outcomes(L, B)[n - 1], B[n])
    <3>1. Len(B) \in Nat
      OBVIOUS
    <3> HIDE DEF m
    <3> QED BY ONLY <3>1, OutcomesAre
  <2> QED BY <1>3, <2>1
<1> QED BY <1>3, <1>4, <1>5, <1>6 DEF RestOf, U, m

\* One change of the batch considered.
LEMMA OneChange ==
  ASSUME LInv, LogNext, NEW h \in Handlers, Processing(h),
         todo' = [todo EXCEPT ![h] = Tail(@)], UNCHANGED <<changes, pc, acct>>,
         Numbered(wrows'), reply'[h].kind = "push",
         View(h)' = Log!Consider(View(h), Head(todo[h]))
  PROVE  PushOK(h)'
<1>1. /\ pc[h] = "writing" /\ pc'[h] = "writing" /\ batchOf[h] \in Batches /\ Halfway(h)
      /\ todo[h] # <<>> /\ todo[h] \in Seq(Change) /\ batchOf[h] \in Seq(Change)
  BY DEF Processing, LInv, PushOK, IInv, TypeOK
<1>2. batchOf'[h] = batchOf[h] /\ todo'[h] = Tail(todo[h])
  BY <1>1, BatchStep DEF LInv, IInv, TypeOK
<1>3. Start(h)' = Start(h)
  BY DEF Start
<1>4. Log!Outcomes(Start(h), batchOf[h])[Len(batchOf[h]) - Len(todo[h])] = View(h)
  BY <1>1 DEF Halfway, Done
<1>5. /\ RestOf(batchOf[h], Tail(todo[h]))
      /\ Log!Outcomes(Start(h), batchOf[h])[Len(batchOf[h]) - Len(Tail(todo[h]))] = View(h)'
  <2>1. RestOf(batchOf[h], todo[h])
    BY <1>1 DEF Halfway
  <2>2. /\ RestOf(batchOf[h], Tail(todo[h]))
        /\ Log!Outcomes(Start(h), batchOf[h])[Len(batchOf[h]) - Len(Tail(todo[h]))] =
             Log!Consider(Log!Outcomes(Start(h), batchOf[h])[Len(batchOf[h]) - Len(todo[h])],
                          Head(todo[h]))
    BY <1>1, <2>1, NextOfBatch
  <2> QED BY <1>4, <2>2
<1>6. Halfway(h)'
  BY <1>1, <1>2, <1>3, <1>5 DEF Halfway, Done
<1> QED BY <1>1, <1>2, <1>6 DEF PushOK

\* What the three things a change can come to make of the transaction.
LEMMA ChangeConsidered ==
  ASSUME LInv, LogNext, NEW h \in Handlers,
         PushDuplicate(h) \/ PushConflict(h) \/ PushAccept(h)
  PROVE  PushOK(h)'
<1> DEFINE c == Head(todo[h])
           A == reply[h].accepted
           C == reply[h].conflicts
<1>1. Processing(h) /\ todo' = [todo EXCEPT ![h] = Tail(@)] /\ UNCHANGED <<changes, pc, acct>>
  BY DEF PushDuplicate, PushConflict, PushAccept
<1>2. /\ c \in Change /\ wrows \in SUBSET Row /\ wheads \in [Entities -> HeadRow]
      /\ WellFormed(wrows, wheads) /\ Numbered(wrows)
  <2>1. Halfway(h)
    BY <1>1 DEF LInv, PushOK, Processing
  <2> QED BY <1>1, <2>1 DEF LInv, IInv, TypeOK, TxnOK, Processing, Halfway
<1>3. reply \in [Handlers -> Reply]
  BY DEF LInv, IInv, TypeOK
<1> DEFINE r == LoggedAs(c, wrows, wheads)
           x == [ent |-> c.ent, ver |-> wheads[c.ent].ver]
           Made(log, a, f) == [log |-> log, accepted |-> a, conflicts |-> f]
<1>4. /\ \A q \in Same(wrows, c) :
           Log!Consider(View(h), c) = Made(LogOf(wrows), A \cup {Ack(q)}, C)
      /\ Same(wrows, c) = {} /\ c.base # wheads[c.ent].ver =>
           Log!Consider(View(h), c) = Made(LogOf(wrows), A, C \cup {x})
      /\ Same(wrows, c) = {} /\ c.base = wheads[c.ent].ver =>
           Log!Consider(View(h), c) = Made(Append(LogOf(wrows), Entry(r)), A \cup {Ack(r)}, C)
  <2>1. View(h) = Made(LogOf(wrows), A, C)
    BY DEF View
  <2> HIDE DEF c, A, C
  <2>2. /\ \A q \in Same(wrows, c) :
             Log!Consider(Made(LogOf(wrows), A, C), c) = Made(LogOf(wrows), A \cup {Ack(q)}, C)
        /\ Same(wrows, c) = {} /\ c.base # wheads[c.ent].ver =>
             Log!Consider(Made(LogOf(wrows), A, C), c) = Made(LogOf(wrows), A, C \cup {x})
        /\ Same(wrows, c) = {} /\ c.base = wheads[c.ent].ver =>
             Log!Consider(Made(LogOf(wrows), A, C), c) =
               Made(Append(LogOf(wrows), Entry(r)), A \cup {Ack(r)}, C)
    BY ONLY <1>2, Considered
  <2> HIDE DEF Made, r, x
  <2> QED BY <2>1, <2>2
<1>5. \A a, f : reply'[h] = PushReply(a, f) =>
        reply'[h].kind = "push" /\ View(h)' = Made(LogOf(wrows'), a, f)
  BY DEF PushReply, Answer, View
<1> HIDE DEF c, A, C, Made, x
<1>6. CASE PushDuplicate(h)
  <2>1. PICK q \in Same(wrows, c) : reply'[h] = PushReply(A \cup {Ack(q)}, C)
    BY <1>3, <1>6 DEF PushDuplicate, c, A, C
  <2>2. wrows' = wrows
    BY <1>6 DEF PushDuplicate
  <2>3. View(h)' = Log!Consider(View(h), c) /\ reply'[h].kind = "push"
    BY <1>4, <1>5, <2>1, <2>2
  <2> QED BY <1>1, <1>2, <2>2, <2>3, OneChange DEF c
<1>7. CASE PushConflict(h)
  <2>1. Same(wrows, c) = {} /\ c.base # wheads[c.ent].ver /\ reply'[h] = PushReply(A, C \cup {x})
    BY <1>3, <1>7 DEF PushConflict, c, A, C, x
  <2>2. wrows' = wrows
    BY <1>7 DEF PushConflict
  <2>3. View(h)' = Log!Consider(View(h), c) /\ reply'[h].kind = "push"
    BY <1>4, <1>5, <2>1, <2>2
  <2> QED BY <1>1, <1>2, <2>2, <2>3, OneChange DEF c
<1>8. CASE PushAccept(h)
  <2>1. /\ Same(wrows, c) = {} /\ c.base = wheads[c.ent].ver
        /\ reply'[h] = PushReply(A \cup {Ack(r)}, C) /\ wrows' = wrows \cup {r}
    BY <1>3, <1>8 DEF PushAccept, c, A, C, NewRow, NextSeq, LoggedAs
  <2>2. r \in Row
    BY <1>2, <2>1, AcceptKeepsWellFormed
  <2>3. Numbered(wrows') /\ LogOf(wrows') = Append(LogOf(wrows), Entry(r))
    BY <1>2, <2>1, <2>2, AcceptKeepsNumbered
  <2>4. View(h)' = Log!Consider(View(h), c) /\ reply'[h].kind = "push"
    BY <1>4, <1>5, <2>1, <2>3
  <2> QED BY <1>1, <2>3, <2>4, OneChange DEF c
<1> QED BY <1>6, <1>7, <1>8

\* A transaction begins with nothing done of its batch.
LEMMA BeginsAtStart ==
  ASSUME LInv, LogNext, NEW h \in Handlers, BeginImmediate(h)
  PROVE  PushOK(h)'
<1>1. /\ pc[h] = "begin" /\ pc'[h] = "writing" /\ acct' = acct /\ changes' = changes /\ todo' = todo
      /\ acct[h] \in Accounts /\ Len(todo[h]) <= MaxBatch
      /\ wrows' = changes[acct[h]] /\ reply'[h] = PushReply({}, {})
  BY DEF BeginImmediate, LInv, IInv, TypeOK, LockOK
<1>2. batchOf'[h] = batchOf[h] /\ todo[h] = batchOf[h] /\ batchOf[h] \in Batches
  BY <1>1, BatchStep DEF LInv, PushOK
<1>3. batchOf[h] \in Seq(Change)
  BY DEF LInv
<1>4. Len(batchOf[h]) \in Nat /\ Len(batchOf[h]) - Len(batchOf[h]) = 0
  BY <1>3
<1>5. RestOf(batchOf[h], batchOf[h])
  BY <1>3 DEF RestOf
<1>6. Start(h)' = LogOf(wrows')
  BY <1>1 DEF Start
<1>7. View(h)' = [log |-> LogOf(wrows'), accepted |-> {}, conflicts |-> {}]
  BY <1>1 DEF View, PushReply, Answer
<1>8. Log!Outcomes(LogOf(wrows'), batchOf[h])[0] = [log |-> LogOf(wrows'), accepted |-> {}, conflicts |-> {}]
  BY ONLY <1>4, OutcomesAre
<1>9. reply'[h].kind = "push" /\ Numbered(wrows')
  BY <1>1 DEF LInv, LogsNumbered, PushReply, Answer
<1>10. Halfway(h)'
  BY <1>1, <1>2, <1>4, <1>5, <1>6, <1>7, <1>8, <1>9 DEF Halfway, Done
<1> QED BY <1>1, <1>2, <1>10 DEF PushOK

\* A step that ends a push, or serves a pull, leaves an answer.
LEMMA OtherSteps ==
  ASSUME LInv, LogNext, NEW h \in Handlers, Steps(h),
         ~(PushDuplicate(h) \/ PushConflict(h) \/ PushAccept(h) \/ BeginImmediate(h))
  PROVE  PushOK(h)'
<1> USE DEF LInv, IInv, TypeOK
<1>1. CASE RejectBatch(h) \/ RefusePush(h) \/ BusyTimeout(h) \/ RollbackPush(h)
  <2>1. pc'[h] = "done" /\ reply'[h].kind = "error"
    BY <1>1 DEF RejectBatch, RefusePush, BusyTimeout, RollbackPush, AnswerError, ErrorReply, Answer
  <2> QED BY <2>1 DEF PushOK
<1>2. CASE CommitPush(h)
  <2>1. pc[h] = "writing" /\ pc'[h] = "done" /\ reply' = reply
    BY <1>2 DEF CommitPush
  <2>2. reply[h].kind = "push"
    BY <2>1 DEF PushOK, Halfway
  <2> QED BY <2>1, <2>2 DEF PushOK
<1>3. CASE Finish(h)
  <2>1. pc'[h] = "idle"
    BY <1>3 DEF Finish
  <2> QED BY <2>1 DEF PushOK
<1>4. ASSUME NEW a \in Accounts, NEW b \in Batches, ReceivePush(h, a, b)
      PROVE  PushOK(h)'
  <2>1. pc[h] = "idle" /\ pc'[h] = "begin" /\ todo'[h] = b
    BY <1>4 DEF ReceivePush
  <2>2. batchOf'[h] = b
    BY <2>1, BatchStep
  <2> QED BY <2>1, <2>2 DEF PushOK
<1>5. ASSUME NEW a \in Accounts, NEW since \in Sinces, NEW limit \in Limits,
             ServePull(h, a, since, limit)
      PROVE  PushOK(h)'
  <2>1. pc'[h] = "done" /\ reply'[h].kind = "pull"
    BY <1>5 DEF ServePull, PullReply, Answer
  <2> QED BY <2>1 DEF PushOK
<1> QED BY <1>1, <1>2, <1>3, <1>4, <1>5 DEF Steps, Work

LEMMA InitLInv == LogInit => LInv
<1> SUFFICES ASSUME LogInit PROVE LInv
  OBVIOUS
<1>1. IInv
  BY InitIInv DEF LogInit
<1>2. batchOf \in [Handlers -> Seq(Change)]
  BY DEF LogInit
<1>3. LogsNumbered
  BY DEF LogInit, Init, LogsNumbered, Numbered
<1>4. \A h \in Handlers : PushOK(h)
  BY DEF LogInit, Init, PushOK
<1> QED BY <1>1, <1>2, <1>3, <1>4 DEF LInv

LEMMA LInvStep == LInv /\ [LogNext]_lvars => LInv'
<1> SUFFICES ASSUME LInv, [LogNext]_lvars PROVE LInv'
  OBVIOUS
<1>1. IInv /\ [Next]_vars /\ IInv'
  BY IInvStep DEF LInv, LogNext, lvars
<1>2. batchOf' \in [Handlers -> Seq(Change)]
  <2>1. CASE LogNext
    <3>1. todo' \in [Handlers -> Seq(Change)] /\ <<>> \in Seq(Change)
      BY <1>1 DEF IInv, TypeOK
    <3> QED BY <2>1, <3>1 DEF LogNext, LInv
  <2>2. CASE UNCHANGED lvars
    BY <2>2 DEF lvars, LInv
  <2> QED BY <2>1, <2>2
<1>3. LogsNumbered'
  <2>1. CASE UNCHANGED <<changes, heads>>
    BY <2>1 DEF LInv, LogsNumbered
  <2>2. ASSUME NEW h \in Handlers, CommitPush(h)
        PROVE  LogsNumbered'
    <3>1. changes' = [changes EXCEPT ![acct[h]] = wrows] /\ acct[h] \in Accounts
      BY <1>1, <2>2, CommitPublishes
    <3>2. Numbered(wrows)
      BY <2>2 DEF LInv, PushOK, Halfway, CommitPush
    <3> QED BY <1>1, <3>1, <3>2 DEF LInv, LogsNumbered, IInv, TypeOK
  <2> QED BY <1>1, <2>1, <2>2, TablesStep
<1>4. ASSUME NEW k \in Handlers PROVE PushOK(k)'
  <2>1. ASSUME LogNext, NEW h \in Handlers, Steps(h) PROVE PushOK(k)'
    <3>1. CASE k # h
      BY <1>1, <2>1, <3>1, OneThread, Untouched
    <3>2. CASE k = h
      BY <2>1, <3>2, ChangeConsidered, BeginsAtStart, OtherSteps
    <3> QED BY <3>1, <3>2
  <2>2. CASE Crash
    BY <2>2 DEF Crash, PushOK
  <2>3. CASE UNCHANGED lvars
    BY <2>3, Untouched DEF lvars, vars
  <2> QED BY <2>1, <2>2, <2>3 DEF LogNext, Next, Steps
<1> QED BY <1>1, <1>2, <1>3, <1>4 DEF LInv

\* A page is a stretch of the log.
LEMMA StretchIs ==
  ASSUME NEW S \in SUBSET Row, GapFree(S), KeysUnique(S),
         NEW since \in Nat, NEW next \in Nat, since <= next, next = since \/ next <= MaxSeq(S)
  PROVE  LET P == {r \in S : since < r.seq /\ r.seq <= next}
         IN /\ StretchOf(P, since) = SubSeq(LogOf(S), since + 1, next)
            /\ StretchOf(P, since) \in Seq(Entries)
<1> DEFINE P == {r \in S : since < r.seq /\ r.seq <= next}
           Shift(r) == [r EXCEPT !.seq = @ - since]
           T == {Shift(r) : r \in P}
           L == LogOf(S)
           n == next - since
<1>1. /\ MaxSeq(S) \in Nat /\ L \in Seq(Entries) /\ Len(L) = MaxSeq(S)
      /\ \A r \in S : r.seq \in 1..MaxSeq(S) /\ L[r.seq] = Entry(r)
      /\ \A k \in 1..MaxSeq(S) : \E r \in S : r.seq = k /\ L[k] = Entry(r)
  BY LogOfTable
<1>2. n \in Nat
  OBVIOUS
<1>3. ASSUME NEW r \in P
      PROVE  /\ Shift(r) \in Row /\ Shift(r).seq = r.seq - since /\ Shift(r).seq \in 1..n
             /\ Shift(r).ent = r.ent /\ Shift(r).hash = r.hash /\ Entry(Shift(r)) = Entry(r)
  <2>1. r \in Row /\ r.seq \in Nat /\ since < r.seq /\ r.seq <= next
    BY DEF Row
  <2>2. r.seq - since \in 1..n /\ r.seq - since \in Nat
    BY <2>1
  <2>3. Shift(r) \in Row /\ Shift(r).seq = r.seq - since
    BY <2>1, <2>2 DEF Row
  <2>4. Shift(r).ent = r.ent /\ Shift(r).hash = r.hash /\ Shift(r).del = r.del
    BY <2>1 DEF Row
  <2> HIDE DEF Shift, n
  <2> QED BY <2>2, <2>3, <2>4 DEF Entry
<1>4. \A q \in T : \E r \in P : q = Shift(r)
  OBVIOUS
<1>5. \A r \in P : Shift(r) \in T
  OBVIOUS
<1>6. StretchOf(P, since) = LogOf(T)
  BY DEF StretchOf
<1>7. \A r \in P : r \in S /\ r.seq \in Nat
  BY DEF Row
<1> HIDE DEF Shift, T, L
<1>8. T \in SUBSET Row
  BY <1>3, <1>4
<1>9. ASSUME NEW k \in 1..n
      PROVE  \E r \in P : r.seq = k + since /\ L[k + since] = Entry(r)
  <2>1. k + since \in 1..MaxSeq(S) /\ since < k + since /\ k + since <= next
    BY <1>1
  <2>2. PICK r \in S : r.seq = k + since /\ L[k + since] = Entry(r)
    BY <1>1, <2>1
  <2> QED BY <2>1, <2>2
<1>10. Seqs(T) = 1..n
  <2>1. ASSUME NEW k \in Seqs(T) PROVE k \in 1..n
    BY <1>3, <1>4 DEF Seqs
  <2>2. ASSUME NEW k \in 1..n PROVE k \in Seqs(T)
    <3>1. PICK r \in P : r.seq = k + since
      BY <1>9
    <3>2. Shift(r) \in T /\ Shift(r).seq = k
      BY <1>3, <1>5, <3>1
    <3> QED BY <3>2 DEF Seqs
  <2> QED BY <2>1, <2>2
<1>11. GapFree(T)
  <2>1. n \in {0} \cup Seqs(T)
    BY <1>2, <1>10
  <2> QED BY <1>10, <2>1 DEF GapFree
<1>12. KeysUnique(T)
  <2> SUFFICES ASSUME NEW q \in T, NEW x \in T, q.seq = x.seq \/ (q.ent = x.ent /\ q.hash = x.hash)
               PROVE  q = x
    BY DEF KeysUnique
  <2>1. PICK r \in P : q = Shift(r)
    BY <1>4
  <2>2. PICK y \in P : x = Shift(y)
    BY <1>4
  <2>3. r.seq = y.seq \/ (r.ent = y.ent /\ r.hash = y.hash)
    <3> HIDE DEF P
    <3> QED BY <1>3, <1>7, <2>1, <2>2
  <2> QED BY <1>7, <2>1, <2>2, <2>3 DEF KeysUnique
<1>13. MaxSeq(T) = n
  BY <1>2, <1>8, <1>10, MaxSeqOfRange
<1>14. /\ LogOf(T) \in Seq(Entries) /\ Len(LogOf(T)) = n
       /\ \A k \in 1..n : \E q \in T : q.seq = k /\ LogOf(T)[k] = Entry(q)
  BY <1>8, <1>11, <1>12, <1>13, LogOfTable
<1>15. ASSUME NEW k \in 1..n PROVE LogOf(T)[k] = L[k + since]
  <2>1. PICK q \in T : q.seq = k /\ LogOf(T)[k] = Entry(q)
    BY <1>14
  <2>2. PICK r \in P : q = Shift(r)
    BY <1>4
  <2>3. r.seq = k + since
    <3> HIDE DEF P
    <3> QED BY <1>3, <1>7, <2>1, <2>2
  <2>4. L[r.seq] = Entry(r) /\ Entry(q) = Entry(r)
    BY <1>1, <1>3, <1>7, <2>2
  <2> QED BY <2>1, <2>3, <2>4
<1>16. /\ Len(SubSeq(L, since + 1, next)) = n /\ SubSeq(L, since + 1, next) \in Seq(Entries)
       /\ \A k \in 1..n : SubSeq(L, since + 1, next)[k] = L[k + since]
  <2>1. \A k \in (since + 1)..next : k \in 1..Len(L)
    BY <1>1
  <2> QED BY <1>1, <1>2, <2>1
<1>17. LogOf(T) = SubSeq(L, since + 1, next)
  <2> DEFINE M == SubSeq(L, since + 1, next)
             N == LogOf(T)
  <2> HIDE DEF M, N, n
  <2>1. Len(M) = Len(N) /\ \A k \in 1..Len(N) : M[k] = N[k]
    BY <1>14, <1>15, <1>16 DEF M, N
  <2>2. M \in Seq(Entries) /\ N \in Seq(Entries)
    BY <1>14, <1>16 DEF M, N
  <2>3. M = N
    BY <2>1, <2>2
  <2> QED BY <2>3 DEF M, N
<1> QED BY <1>6, <1>14, <1>17 DEF L

\* A page is not empty while there is something after its cursor.
LEMMA PageMoves ==
  ASSUME NEW S \in SUBSET Row, GapFree(S), KeysUnique(S),
         NEW since \in Nat, NEW limit \in Nat \ {0}
  PROVE  LET rows == Page(S, since, limit)
             next == IF rows = {} THEN since ELSE MaxSeq(rows)
         IN since <= next /\ (since < MaxSeq(S) => since < next)
<1> DEFINE rows == Page(S, since, limit)
           next == IF rows = {} THEN since ELSE MaxSeq(rows)
<1>1. next \in Nat /\ rows = {r \in S : since < r.seq /\ r.seq <= next}
  BY PageIsInterval
<1>2. rows = {} => next = since
  OBVIOUS
<1>3. ASSUME since < MaxSeq(S) PROVE rows # {}
  <2>1. MaxSeq(S) \in Nat /\ Seqs(S) = 1..MaxSeq(S)
    BY MaxSeqBounds
  <2>2. since + 1 \in Seqs(S)
    BY <1>3, <2>1
  <2>3. PICK r \in S : r.seq = since + 1
    BY <2>2 DEF Seqs
  <2>4. {q \in S : since < q.seq /\ q.seq < r.seq} = {}
    BY <2>3 DEF Row
  <2>5. Cardinality({q \in S : since < q.seq /\ q.seq < r.seq}) < limit
    BY <2>4, FS_EmptySet
  <2>6. r \in rows
    BY <2>3, <2>5 DEF Page
  <2> QED BY <2>6
<1> HIDE DEF next, rows
<1>4. rows # {} => since < next
  <2> SUFFICES ASSUME NEW r \in rows PROVE since < next
    OBVIOUS
  <2> QED BY <1>1 DEF Row
<1> QED BY <1>1, <1>2, <1>3, <1>4 DEF next, rows

\* The variables of the abstract log.
AskedAt(h)  == IF pc[h] \in {"begin", "writing"}
               THEN [acct |-> acct[h], batch |-> batchOf[h]] ELSE None
AnswerAt(h) == IF pc[h] = "done" THEN AnswerOf(reply[h]) ELSE None
LogBar    == [a \in Accounts |-> LogOf(changes[a])]
AskedBar  == [h \in Handlers |-> AskedAt(h)]
AnswerBar == [h \in Handlers |-> AnswerAt(h)]

\* A step of thread h is a step of h in the abstract log.
LEMMA BarsStep ==
  ASSUME LInv, LogNext, NEW h \in Handlers, Steps(h)
  PROVE  /\ AskedBar' = [AskedBar EXCEPT ![h] = AskedAt(h)']
         /\ AnswerBar' = [AnswerBar EXCEPT ![h] = AnswerAt(h)']
<1>1. ASSUME NEW k \in Handlers, k # h
      PROVE  AskedAt(k)' = AskedAt(k) /\ AnswerAt(k)' = AnswerAt(k)
  <2>1. pc'[k] = pc[k] /\ acct'[k] = acct[k] /\ reply'[k] = reply[k]
    BY <1>1, OneThread DEF LInv
  <2>2. pc[k] \in {"begin", "writing"} => batchOf'[k] = batchOf[k]
    BY <2>1, BatchStep
  <2> QED BY <2>1, <2>2 DEF AskedAt, AnswerAt
<1>2. AskedBar' = [k \in Handlers |-> AskedAt(k)'] /\ AnswerBar' = [k \in Handlers |-> AnswerAt(k)']
  BY DEF AskedBar, AnswerBar
<1>3. /\ [AskedBar EXCEPT ![h] = AskedAt(h)'] =
           [k \in Handlers |-> IF k = h THEN AskedAt(h)' ELSE AskedAt(k)]
      /\ [AnswerBar EXCEPT ![h] = AnswerAt(h)'] =
           [k \in Handlers |-> IF k = h THEN AnswerAt(h)' ELSE AnswerAt(k)]
  BY DEF AskedBar, AnswerBar
<1> QED BY <1>1, <1>2, <1>3

LEMMA BarsAre ==
  ASSUME NEW h \in Handlers
  PROVE  AskedBar[h] = AskedAt(h) /\ AnswerBar[h] = AnswerAt(h)
BY DEF AskedBar, AnswerBar

\* The actions of the abstract log, said of these variables.
LEMMA AbstractActions ==
  ASSUME NEW h \in Handlers
  PROVE  /\ Log!Refuse(h) <=>
              /\ AskedBar[h] # None
              /\ AskedBar' = [AskedBar EXCEPT ![h] = None]
              /\ AnswerBar' = [AnswerBar EXCEPT ![h] = [kind |-> "error"]]
              /\ LogBar' = LogBar
         /\ Log!Finish(h) <=>
              /\ AnswerBar[h] # None
              /\ AnswerBar' = [AnswerBar EXCEPT ![h] = None]
              /\ LogBar' = LogBar /\ AskedBar' = AskedBar
         /\ \A a \in Accounts, b \in Batches : Log!AskPush(h, a, b) <=>
              /\ AskedBar[h] = None /\ AnswerBar[h] = None
              /\ AskedBar' = [AskedBar EXCEPT ![h] = [acct |-> a, batch |-> b]]
              /\ LogBar' = LogBar /\ AnswerBar' = AnswerBar
BY DEF Log!Refuse, Log!Finish, Log!AskPush, Log!Idle, Log!Error, LogBar, AskedBar, AnswerBar,
       AskedAt, AnswerAt

LEMMA AbstractVars ==
  Log!vars' = Log!vars <=> LogBar' = LogBar /\ AskedBar' = AskedBar /\ AnswerBar' = AnswerBar
BY DEF Log!vars, LogBar, AskedBar, AnswerBar, AskedAt, AnswerAt

LEMMA AbstractPush ==
  ASSUME NEW h \in Handlers
  PROVE  LET a == AskedBar[h].acct
             b == AskedBar[h].batch
         IN Log!Push(h) <=>
              /\ AskedBar[h] # None
              /\ Len(b) <= MaxBatch
              /\ LogBar' = [LogBar EXCEPT ![a] = Log!Outcome(LogBar[a], b).log]
              /\ AnswerBar' = [AnswerBar EXCEPT ![h] = Log!Pushed(Log!Outcome(LogBar[a], b))]
              /\ AskedBar' = [AskedBar EXCEPT ![h] = None]
BY DEF Log!Push, LogBar, AskedBar, AnswerBar, AskedAt, AnswerAt

LEMMA AbstractPull ==
  ASSUME NEW h \in Handlers, NEW a \in Accounts, NEW since
  PROVE  Log!Pull(h, a, since) <=>
           /\ AskedBar[h] = None /\ AnswerBar[h] = None
           /\ \E next \in since..(IF since < Len(LogBar[a]) THEN Len(LogBar[a]) ELSE since) :
                /\ since < Len(LogBar[a]) => since < next
                /\ AnswerBar' = [AnswerBar EXCEPT ![h] =
                                   Log!Pulled(SubSeq(LogBar[a], since + 1, next), next)]
           /\ LogBar' = LogBar /\ AskedBar' = AskedBar
BY DEF Log!Pull, Log!Idle, LogBar, AskedBar, AnswerBar, AskedAt, AnswerAt

LEMMA AbstractCrash ==
  Log!Crash <=> /\ AskedBar' = [h \in Handlers |-> None]
                /\ AnswerBar' = [h \in Handlers |-> None]
                /\ LogBar' = LogBar
BY DEF Log!Crash, LogBar, AskedBar, AnswerBar, AskedAt, AnswerAt

\* None is not a push that is asked for, and not an answer.
LEMMA AskedIsSome ==
  ASSUME LInv, NEW h \in Handlers, pc[h] \in {"begin", "writing"}
  PROVE  /\ AskedAt(h) = [acct |-> acct[h], batch |-> batchOf[h]] /\ AskedAt(h) # None
         /\ acct[h] \in Accounts /\ batchOf[h] \in Batches /\ AnswerAt(h) = None
<1>1. acct[h] \in Accounts /\ batchOf[h] \in Batches
  BY DEF LInv, IInv, LockOK, PushOK
<1>2. AskedAt(h) \in Asked
  BY <1>1 DEF AskedAt, Asked
<1> QED BY <1>1, <1>2, NoneIsNothing DEF AskedAt, AnswerAt

LEMMA AnswerIsSome ==
  ASSUME LInv, NEW h \in Handlers, pc[h] = "done"
  PROVE  AnswerAt(h) # None
<1>1. reply[h] \in Reply /\ reply[h].kind \in {"push", "pull", "error"}
  BY DEF LInv, IInv, TypeOK, PushOK
<1>2. CASE reply[h].kind = "push"
  <2>1. /\ AnswerAt(h) = [kind |-> "push", accepted |-> reply[h].accepted, conflicts |-> reply[h].conflicts]
        /\ reply[h].accepted \in SUBSET Accepted /\ reply[h].conflicts \in SUBSET Conflict
    BY <1>1, <1>2 DEF AnswerAt, AnswerOf, Reply
  <2> QED BY <2>1, NoneIsNothing DEF Answers
<1>3. CASE reply[h].kind = "pull"
  <2> DEFINE S == changes[acct[h]]
             since == reply[h].since
             next == reply[h].next
             P(m) == {r \in S : since < r.seq /\ r.seq <= m}
  <2>1. /\ acct[h] \in Accounts /\ S \in SUBSET Row /\ GapFree(S) /\ KeysUnique(S)
        /\ since \in Nat /\ next \in Nat
        /\ next = since \/ next <= MaxSeq(S)
        /\ reply[h].page = P(next)
    BY <1>1, <1>3 DEF LInv, IInv, TypeOK, LockOK, LogsOK, Committed, WellFormed, PagesOK, Reply
  <2>2. StretchOf(reply[h].page, since) \in Seq(Entries)
    <3>1. CASE since <= next
      BY <2>1, <3>1, StretchIs
    <3>2. CASE ~(since <= next)
      <4>1. P(next) = P(since)
        BY <2>1, <3>2 DEF Row
      <4>2. StretchOf(P(since), since) \in Seq(Entries)
        BY <2>1, StretchIs
      <4> QED BY <2>1, <4>1, <4>2
    <3> QED BY <3>1, <3>2
  <2>3. AnswerAt(h) = [kind |-> "pull", entries |-> StretchOf(reply[h].page, since), next |-> next]
    BY <1>3 DEF AnswerAt, AnswerOf
  <2> HIDE DEF since, next
  <2> QED BY <2>1, <2>2, <2>3, NoneIsNothing DEF Answers
<1>4. CASE reply[h].kind = "error"
  BY <1>4, NoneIsNothing DEF AnswerAt, AnswerOf, Answers
<1> QED BY <1>1, <1>2, <1>3, <1>4

\* The transaction of a push is one step of the abstract log, its commit.
LEMMA CommitIsPush ==
  ASSUME LInv, LogNext, NEW h \in Handlers, CommitPush(h)
  PROVE  Log!Push(h)
<1> DEFINE a == acct[h]
           B == batchOf[h]
<1>1. /\ pc[h] = "writing" /\ pc'[h] = "done" /\ todo[h] = <<>> /\ reply' = reply
      /\ changes' = [changes EXCEPT ![a] = wrows]
  BY DEF CommitPush, LInv, IInv, TypeOK
<1>2. /\ AskedBar[h] = [acct |-> a, batch |-> B] /\ AskedBar[h] # None /\ a \in Accounts
  BY <1>1, AskedIsSome, BarsAre
<1>3. Halfway(h) /\ B \in Seq(Change)
  BY <1>1 DEF LInv, PushOK
<1>4. Len(B) <= MaxBatch /\ Log!Outcome(LogBar[a], B) = View(h)
  <2>1. Len(B) \in Nat /\ Len(todo[h]) = 0
    BY <1>1, <1>3
  <2>2. Done(h) = Len(B)
    BY <2>1 DEF Done
  <2>3. Log!Outcomes(Start(h), B)[Len(B)] = View(h) /\ Len(B) <= MaxBatch
    BY <1>3, <2>2 DEF Halfway
  <2>4. Start(h) = LogBar[a]
    BY <1>2 DEF Start, LogBar
  <2> QED BY <2>3, <2>4 DEF Log!Outcome
<1>5. LogBar' = [LogBar EXCEPT ![a] = View(h).log]
  <2>1. changes \in [Accounts -> SUBSET Row]
    BY DEF LInv, IInv, TypeOK
  <2>2. \A b \in Accounts : LogOf(changes'[b]) = IF b = a THEN LogOf(wrows) ELSE LogOf(changes[b])
    BY <1>1, <2>1
  <2>3. LogBar' = [b \in Accounts |-> LogOf(changes'[b])]
    BY DEF LogBar
  <2>4. [LogBar EXCEPT ![a] = View(h).log] =
          [b \in Accounts |-> IF b = a THEN LogOf(wrows) ELSE LogOf(changes[b])]
    BY DEF LogBar, View
  <2> QED BY <2>2, <2>3, <2>4
<1>6. AskedAt(h)' = None /\ AnswerAt(h)' = Log!Pushed(View(h))
  <2>1. reply[h].kind = "push"
    BY <1>3 DEF Halfway
  <2>2. AnswerAt(h)' = AnswerOf(reply[h])
    BY <1>1 DEF AnswerAt
  <2> QED BY <1>1, <2>1, <2>2 DEF AskedAt, AnswerOf, Log!Pushed, View
<1>7. /\ AskedBar' = [AskedBar EXCEPT ![h] = None]
      /\ AnswerBar' = [AnswerBar EXCEPT ![h] = Log!Pushed(View(h))]
  BY <1>6, BarsStep DEF Steps, Work
<1>8. AskedBar[h].acct = a /\ AskedBar[h].batch = B
  BY <1>2
<1> HIDE DEF a, B
<1> QED BY <1>2, <1>4, <1>5, <1>7, <1>8, AbstractPush

\* A pull answers with a stretch of the log.
LEMMA PullIsPull ==
  ASSUME LInv, LogNext, NEW h \in Handlers, NEW a \in Accounts, NEW since \in Sinces,
         NEW limit \in Limits, ServePull(h, a, since, limit)
  PROVE  Log!Pull(h, a, since)
<1> DEFINE S == changes[a]
           lim == IF limit < MaxPull THEN limit ELSE MaxPull
           rows == Page(S, since, lim)
           next == IF rows = {} THEN since ELSE MaxSeq(rows)
<1>1. /\ pc[h] = "idle" /\ pc'[h] = "done" /\ changes' = changes
      /\ reply'[h] = PullReply(rows, since, next)
  BY DEF ServePull, LInv, IInv, TypeOK
<1>2. lim \in Nat \ {0} /\ since \in Nat /\ lim \in Nat
  BY LimitsAssumption
<1>3. S \in SUBSET Row /\ GapFree(S) /\ KeysUnique(S)
  BY DEF LInv, IInv, TypeOK, LogsOK, Committed, WellFormed
<1> HIDE DEF S, lim
<1>4. /\ next \in Nat
      /\ next = since \/ next <= MaxSeq(S)
      /\ rows = {r \in S : since < r.seq /\ r.seq <= next}
  BY <1>2, <1>3, PageIsInterval
<1>5. since <= next /\ (since < MaxSeq(S) => since < next)
  BY <1>2, <1>3, PageMoves
<1> HIDE DEF rows, next
<1>6. StretchOf(rows, since) = SubSeq(LogOf(S), since + 1, next)
  <2>1. StretchOf({r \in S : since < r.seq /\ r.seq <= next}, since) =
          SubSeq(LogOf(S), since + 1, next)
    BY ONLY <1>2, <1>3, <1>4, <1>5, StretchIs
  <2> QED BY <1>4, <2>1
<1>7. LogBar[a] = LogOf(S) /\ Len(LogBar[a]) = MaxSeq(S) /\ MaxSeq(S) \in Nat
  BY <1>3, LogOfTable DEF LogBar, S
<1>8. /\ AskedAt(h) = None /\ AnswerAt(h) = None /\ AskedAt(h)' = None
      /\ AnswerAt(h)' = Log!Pulled(SubSeq(LogBar[a], since + 1, next), next)
  <2>1. AnswerAt(h)' = AnswerOf(PullReply(rows, since, next))
    BY <1>1 DEF AnswerAt
  <2>2. AnswerOf(PullReply(rows, since, next)) =
          [kind |-> "pull", entries |-> StretchOf(rows, since), next |-> next]
    BY DEF AnswerOf, PullReply, Answer
  <2> QED BY <1>1, <1>6, <1>7, <2>1, <2>2 DEF AskedAt, AnswerAt, Log!Pulled
<1>9. /\ AskedBar' = [AskedBar EXCEPT ![h] = AskedAt(h)']
      /\ AnswerBar' = [AnswerBar EXCEPT ![h] = AnswerAt(h)']
  BY BarsStep DEF Steps
<1>10. AskedBar' = AskedBar
  <2>1. AskedBar' = [AskedBar EXCEPT ![h] = AskedAt(h)]
    BY <1>8, <1>9
  <2> QED BY <2>1 DEF AskedBar
<1>11. LogBar' = LogBar
  BY <1>1 DEF LogBar
<1>12. next \in since..(IF since < Len(LogBar[a]) THEN Len(LogBar[a]) ELSE since)
  BY <1>2, <1>4, <1>5, <1>7
<1>13. since < Len(LogBar[a]) => since < next
  BY <1>5, <1>7
<1>14. AskedBar[h] = None /\ AnswerBar[h] = None
  BY <1>8, BarsAre
<1> QED BY <1>8, <1>9, <1>10, <1>11, <1>12, <1>13, <1>14, AbstractPull

\* The steps that end a push with nothing of it done.
LEMMA RefusalIsRefuse ==
  ASSUME LInv, LogNext, NEW h \in Handlers,
         RejectBatch(h) \/ RefusePush(h) \/ BusyTimeout(h) \/ RollbackPush(h)
  PROVE  Log!Refuse(h)
<1>1. /\ pc[h] \in {"begin", "writing"} /\ pc'[h] = "done" /\ changes' = changes
      /\ reply'[h] = ErrorReply
  BY DEF RejectBatch, RefusePush, BusyTimeout, RollbackPush, AnswerError, LInv, IInv, TypeOK
<1>2. AskedBar[h] # None
  BY <1>1, AskedIsSome, BarsAre
<1>3. AskedAt(h)' = None /\ AnswerAt(h)' = [kind |-> "error"]
  <2>1. AnswerOf(ErrorReply) = [kind |-> "error"]
    BY DEF AnswerOf, ErrorReply, Answer
  <2> QED BY <1>1, <2>1 DEF AskedAt, AnswerAt
<1>4. LogBar' = LogBar
  BY <1>1 DEF LogBar
<1>5. /\ AskedBar' = [AskedBar EXCEPT ![h] = AskedAt(h)']
      /\ AnswerBar' = [AnswerBar EXCEPT ![h] = AnswerAt(h)']
  BY BarsStep DEF Steps, Work
<1> QED BY <1>2, <1>3, <1>4, <1>5, AbstractActions

\* The steps of a transaction before its commit are none of the log's.
LEMMA WritingStutters ==
  ASSUME LInv, LogNext, NEW h \in Handlers,
         BeginImmediate(h) \/ PushDuplicate(h) \/ PushConflict(h) \/ PushAccept(h)
  PROVE  Log!vars' = Log!vars
<1>1. /\ pc[h] \in {"begin", "writing"} /\ pc'[h] \in {"begin", "writing"}
      /\ pc'[h] # "done" /\ pc[h] # "done" /\ acct' = acct /\ changes' = changes
  BY DEF BeginImmediate, PushDuplicate, PushConflict, PushAccept, Processing, LInv, IInv, TypeOK
<1>2. batchOf'[h] = batchOf[h]
  BY <1>1, BatchStep
<1>3. AskedAt(h)' = AskedAt(h) /\ AnswerAt(h)' = AnswerAt(h)
  BY <1>1, <1>2 DEF AskedAt, AnswerAt
<1>4. AskedBar' = AskedBar /\ AnswerBar' = AnswerBar
  <2>1. /\ AskedBar' = [AskedBar EXCEPT ![h] = AskedAt(h)']
        /\ AnswerBar' = [AnswerBar EXCEPT ![h] = AnswerAt(h)']
    BY BarsStep DEF Steps, Work
  <2> QED BY <1>3, <2>1 DEF AskedBar, AnswerBar
<1>5. LogBar' = LogBar
  BY <1>1 DEF LogBar
<1> QED BY <1>4, <1>5, AbstractVars

LEMMA ArrivalIsAskPush ==
  ASSUME LInv, LogNext, NEW h \in Handlers, NEW a \in Accounts, NEW b \in Batches,
         ReceivePush(h, a, b)
  PROVE  Log!AskPush(h, a, b)
<1>1. /\ pc[h] = "idle" /\ pc'[h] = "begin" /\ acct'[h] = a /\ todo'[h] = b /\ changes' = changes
  BY DEF ReceivePush, LInv, IInv, TypeOK
<1>2. batchOf'[h] = b
  BY <1>1, BatchStep
<1>3. /\ AskedAt(h) = None /\ AnswerAt(h) = None /\ AnswerAt(h)' = None
      /\ AskedAt(h)' = [acct |-> a, batch |-> b]
  BY <1>1, <1>2 DEF AskedAt, AnswerAt
<1>4. AskedBar' = [AskedBar EXCEPT ![h] = AskedAt(h)'] /\ AnswerBar' = AnswerBar
  <2>1. /\ AskedBar' = [AskedBar EXCEPT ![h] = AskedAt(h)']
        /\ AnswerBar' = [AnswerBar EXCEPT ![h] = AnswerAt(h)']
    BY BarsStep DEF Steps
  <2> QED BY <1>3, <2>1 DEF AnswerBar
<1>5. LogBar' = LogBar
  BY <1>1 DEF LogBar
<1>6. AskedBar[h] = None /\ AnswerBar[h] = None
  BY <1>3, BarsAre
<1> QED BY <1>3, <1>4, <1>5, <1>6, AbstractActions

LEMMA FinishIsFinish ==
  ASSUME LInv, LogNext, NEW h \in Handlers, Finish(h)
  PROVE  Log!Finish(h)
<1>1. pc[h] = "done" /\ pc'[h] = "idle" /\ changes' = changes
  BY DEF Finish, LInv, IInv, TypeOK
<1>2. AskedAt(h) = None /\ AskedAt(h)' = None /\ AnswerAt(h)' = None
  BY <1>1 DEF AskedAt, AnswerAt
<1>3. AnswerBar[h] # None
  BY <1>1, AnswerIsSome, BarsAre
<1>4. AnswerBar' = [AnswerBar EXCEPT ![h] = AnswerAt(h)'] /\ AskedBar' = AskedBar
  <2>1. /\ AskedBar' = [AskedBar EXCEPT ![h] = AskedAt(h)']
        /\ AnswerBar' = [AnswerBar EXCEPT ![h] = AnswerAt(h)']
    BY BarsStep DEF Steps, Work
  <2> QED BY <1>2, <2>1 DEF AskedBar
<1>5. LogBar' = LogBar
  BY <1>1 DEF LogBar
<1> QED BY <1>2, <1>3, <1>4, <1>5, AbstractActions

LEMMA CrashIsCrash == Crash => Log!Crash
<1> SUFFICES ASSUME Crash PROVE Log!Crash
  OBVIOUS
<1>1. \A h \in Handlers : AskedAt(h)' = None /\ AnswerAt(h)' = None
  BY DEF Crash, AskedAt, AnswerAt
<1>2. LogBar' = LogBar
  BY DEF Crash, LogBar
<1>3. /\ AskedBar' = [h \in Handlers |-> None] /\ AnswerBar' = [h \in Handlers |-> None]
  BY <1>1 DEF AskedBar, AnswerBar
<1> QED BY <1>2, <1>3, AbstractCrash

\* Initially the log is empty.
LEMMA InitIsInit == LogInit => Log!Init
<1> SUFFICES ASSUME LogInit PROVE Log!Init
  OBVIOUS
<1>1. LogOf({}) = <<>>
  <2>1. GapFree({}) /\ KeysUnique({})
    BY EmptyWellFormed DEF WellFormed
  <2>2. LogOf({}) \in Seq(Entries) /\ Len(LogOf({})) = 0
    BY <2>1, LogOfTable DEF MaxSeq
  <2> QED BY <2>2
<1>2. /\ [a \in Accounts |-> LogOf(changes[a])] = [a \in Accounts |-> <<>>]
      /\ \A h \in Handlers : AskedAt(h) = None /\ AnswerAt(h) = None
  BY <1>1 DEF LogInit, Init, AskedAt, AnswerAt
<1> QED BY <1>2 DEF Log!Init, AskedAt, AnswerAt

LEMMA StepIsStep == LInv /\ [LogNext]_lvars => [Log!Next]_(Log!vars)
<1> SUFFICES ASSUME LInv, [LogNext]_lvars PROVE Log!Next \/ Log!vars' = Log!vars
  OBVIOUS
<1>1. ASSUME LogNext, NEW h \in Handlers, Work(h) PROVE Log!Next \/ Log!vars' = Log!vars
  <2>1. \/ Log!Push(h) \/ Log!Refuse(h) \/ Log!Finish(h) \/ Log!vars' = Log!vars
    BY <1>1, CommitIsPush, RefusalIsRefuse, FinishIsFinish, WritingStutters DEF Work
  <2> QED BY <2>1 DEF Log!Next
<1>2. ASSUME LogNext, NEW h \in Handlers, RefusePush(h) \/ RollbackPush(h) PROVE Log!Next
  BY <1>2, RefusalIsRefuse DEF Log!Next
<1>3. ASSUME LogNext, NEW h \in Handlers, NEW a \in Accounts, NEW b \in Batches, ReceivePush(h, a, b)
      PROVE  Log!Next
  BY <1>3, ArrivalIsAskPush DEF Log!Next
<1>4. ASSUME LogNext, NEW h \in Handlers, NEW a \in Accounts, NEW since \in Sinces,
             NEW limit \in Limits, ServePull(h, a, since, limit)
      PROVE  Log!Next
  BY <1>4, PullIsPull DEF Log!Next
<1>5. CASE Crash
  BY <1>5, CrashIsCrash DEF Log!Next
<1>6. CASE UNCHANGED lvars
  <2>1. LogBar' = LogBar /\ AskedBar' = AskedBar /\ AnswerBar' = AnswerBar
    BY <1>6 DEF lvars, vars, LogBar, AskedBar, AnswerBar, AskedAt, AnswerAt
  <2> QED BY <2>1, AbstractVars
<1> QED BY <1>1, <1>2, <1>3, <1>4, <1>5, <1>6 DEF LogNext, Next

\* Seen from outside, a push of several inserts in one transaction, among
\* other threads, refusals, rollbacks and crashes, is one step that applies
\* its whole batch to the log as it then is, or none of it, and is answered
\* with what that step did; a page is a stretch of that log.
THEOREM LogImplemented == LogSpec => ImplementsLog
<1>1. LogSpec => []LInv
  BY InitLInv, LInvStep, PTL DEF LogSpec
<1> QED BY <1>1, InitIsInit, StepIsStep, PTL DEF LogSpec, ImplementsLog, Log!Spec
=============================================================================
