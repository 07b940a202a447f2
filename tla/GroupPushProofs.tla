-------------------------- MODULE GroupPushProofs --------------------------
(***************************************************************************)
(* Proofs about GroupPush, for any transactions and any limit: whatever    *)
(* fails, is cut off, folded or killed, no committed row is lost and       *)
(* groups arrive in order.                                                 *)
(*                                                                         *)
(* The loop works on rows as they were listed, while transactions go on    *)
(* committing.  What it holds stays true all the same: its rows are        *)
(* enqueued ones (Listed), and of the group being sent everything before a *)
(* row is either still to be sent or accepted (Sending), since a valid     *)
(* group has no gap.                                                       *)
(***************************************************************************)
EXTENDS GroupPush, FiniteSetTheorems, WellFoundedInduction, TLAPS

\* The rows of the outbox, whatever their status.
Held == {x.row : x \in outbox}
Kept == Enqueued = Held \cup ToSet(accepted) \cup dropped

\* A group as it was listed: rows of one transaction, or one row.
Listed(g) ==
  /\ g \subseteq Enqueued
  /\ \A r, q \in g : r.gid = q.gid

\* q goes before r in their transaction.
Precedes(q, r) == r.gid # NoGroup /\ q.gid = r.gid /\ q.lseq < r.lseq

Sending ==
  at \in {"send", "ack"} =>
    \A r \in group, q \in Enqueued : Precedes(q, r) => q \in group \cup ToSet(accepted)

Acked == at = "ack" => group # {} /\ FirstOf(group) \in ToSet(accepted)

\* What the server has, it has with everything before it.
InOrder ==
  \A i \in DOMAIN accepted : \A q \in Enqueued :
    Precedes(q, accepted[i]) => \E j \in 1..(i - 1) : accepted[j] = q

IInv ==
  /\ TypeOK /\ Kept
  /\ group \subseteq Enqueued /\ \A g \in todo : Listed(g)
  /\ Sending /\ Acked /\ InOrder
-----------------------------------------------------------------------------
LEMMA EnqueuedIs ==
  ASSUME NEW r
  PROVE  r \in Enqueued <=>
           \E n \in DOMAIN committed : \E i \in DOMAIN committed[n].rows :
             r = RowOf(committed[n], n, i)
BY DEF Enqueued

LEMMA ElementType ==
  ASSUME NEW S, NEW s \in Seq(S), NEW i \in DOMAIN s
  PROVE  s[i] \in S
OBVIOUS

\* A transaction's rows and the numbers in them.
LEMMA RowOfType ==
  ASSUME NEW t \in Transactions, NEW n \in Nat \ {0}, NEW i \in DOMAIN t.rows
  PROVE  /\ RowOf(t, n, i) \in Row
         /\ i \in 1..9
         /\ RowOf(t, n, i).id = 10 * n + i
         /\ RowOf(t, n, i).gid = IF t.grouped THEN n ELSE NoGroup
         /\ RowOf(t, n, i).lseq = IF t.grouped THEN i ELSE 0
<1>1. t.rows \in Seq([ent : Entities, op : Operations]) /\ Len(t.rows) < 10
  BY GroupPushAssumption
<1>2. DOMAIN t.rows = 1..Len(t.rows) /\ Len(t.rows) \in Nat
  BY <1>1
<1>3. i \in 1..9 /\ t.rows[i] \in [ent : Entities, op : Operations]
  <2>1. i \in Nat /\ 1 <= i /\ i <= Len(t.rows)
    BY <1>2
  <2>2. t.rows[i] \in [ent : Entities, op : Operations]
    BY <1>1, ElementType
  <2> QED BY <1>1, <1>2, <2>1, <2>2
<1>4. 10 * n + i \in Nat
  BY <1>3
<1> QED BY <1>3, <1>4 DEF RowOf, Row

LEMMA CommittedType ==
  ASSUME TypeOK
  PROVE  /\ Len(committed) \in Nat /\ DOMAIN committed = 1..Len(committed)
         /\ \A n \in DOMAIN committed : n \in Nat \ {0} /\ committed[n] \in Transactions
BY DEF TypeOK

\* An enqueued row is the i-th of the n-th transaction.
LEMMA EnqueuedRow ==
  ASSUME TypeOK, NEW r \in Enqueued
  PROVE  \E n \in 1..Len(committed), i \in 1..9 :
           /\ committed[n] \in Transactions /\ i \in DOMAIN committed[n].rows
           /\ r = RowOf(committed[n], n, i)
           /\ r \in Row /\ r.id = 10 * n + i
           /\ r.gid  = IF committed[n].grouped THEN n ELSE NoGroup
           /\ r.lseq = IF committed[n].grouped THEN i ELSE 0
<1>1. PICK n \in DOMAIN committed :
        \E i \in DOMAIN committed[n].rows : r = RowOf(committed[n], n, i)
  BY EnqueuedIs
<1>2. PICK i \in DOMAIN committed[n].rows : r = RowOf(committed[n], n, i)
  BY <1>1
<1>3. n \in 1..Len(committed) /\ n \in Nat \ {0} /\ committed[n] \in Transactions
  BY CommittedType
<1> QED BY <1>2, <1>3, RowOfType

LEMMA EnqueuedType == ASSUME TypeOK PROVE Enqueued \subseteq Row
BY EnqueuedRow

\* Ids tell rows apart, and so do group and number.
LEMMA Apart ==
  ASSUME TypeOK, NEW r \in Enqueued, NEW q \in Enqueued,
         \/ r.id = q.id
         \/ r.gid # NoGroup /\ r.gid = q.gid /\ r.lseq = q.lseq
  PROVE  r = q
<1>0. Len(committed) \in Nat
  BY CommittedType
<1>1. PICK n \in 1..Len(committed), i \in 1..9 :
        /\ r = RowOf(committed[n], n, i) /\ r.id = 10 * n + i
        /\ r.gid  = IF committed[n].grouped THEN n ELSE NoGroup
        /\ r.lseq = IF committed[n].grouped THEN i ELSE 0
  BY EnqueuedRow
<1>2. PICK m \in 1..Len(committed), j \in 1..9 :
        /\ q = RowOf(committed[m], m, j) /\ q.id = 10 * m + j
        /\ q.gid  = IF committed[m].grouped THEN m ELSE NoGroup
        /\ q.lseq = IF committed[m].grouped THEN j ELSE 0
  BY EnqueuedRow
<1>3. CASE r.id = q.id
  <2>1. n = m /\ i = j
    BY <1>0, <1>1, <1>2, <1>3
  <2> QED BY <1>1, <1>2, <2>1
<1>4. CASE r.gid # NoGroup /\ r.gid = q.gid /\ r.lseq = q.lseq
  <2>1. n = m /\ i = j
    BY <1>1, <1>2, <1>4
  <2> QED BY <1>1, <1>2, <2>1
<1> QED BY <1>3, <1>4

\* The rows of one transaction are finitely many.
LEMMA GroupFinite ==
  ASSUME TypeOK, NEW g, Listed(g), \E r \in g : r.gid # NoGroup
  PROVE  IsFiniteSet(g)
<1>1. PICK r \in g : r.gid # NoGroup
  OBVIOUS
<1>2. r \in Enqueued
  BY DEF Listed
<1>3. PICK n \in 1..Len(committed), i \in 1..9 :
        /\ committed[n] \in Transactions
        /\ r.gid = IF committed[n].grouped THEN n ELSE NoGroup
  BY <1>2, EnqueuedRow
<1>4. r.gid = n
  BY <1>1, <1>3
<1> DEFINE L == Len(committed[n].rows)
           f == [k \in 1..L |-> RowOf(committed[n], n, k)]
           T == {f[k] : k \in 1..L}
<1>5. L \in Nat /\ DOMAIN committed[n].rows = 1..L
  BY <1>3, GroupPushAssumption
<1>6. IsFiniteSet(T)
  <2>1. f \in Surjection(1..L, T)
    BY DEF Surjection
  <2>2. IsFiniteSet(1..L)
    <3>1. 1 \in Int /\ L \in Int
      BY <1>5
    <3> HIDE DEF L
    <3> QED BY <3>1, FS_Interval
  <2> QED BY <2>1, <2>2, FS_Surjection
<1>7. ASSUME NEW q \in g PROVE q \in T
  <2>1. q.gid = n /\ q \in Enqueued
    BY <1>4 DEF Listed
  <2>2. PICK m \in 1..Len(committed), j \in 1..9 :
          /\ j \in DOMAIN committed[m].rows /\ q = RowOf(committed[m], m, j)
          /\ q.gid = IF committed[m].grouped THEN m ELSE NoGroup
    BY <2>1, EnqueuedRow
  <2>3. n \in Nat
    BY CommittedType
  <2>4. m = n
    BY <2>1, <2>2, <2>3, GroupPushAssumption
  <2> QED BY <2>2, <2>4, <1>5
<1> QED BY <1>6, <1>7, FS_Subset

\* A set of rows has a first one.
LEMMA FirstOfGroup ==
  ASSUME NEW g, g \subseteq Row, g # {}
  PROVE  FirstOf(g) \in g /\ \A q \in g : FirstOf(g).lseq <= q.lseq
<1> DEFINE S == {r.lseq : r \in g}
<1>1. S \subseteq Nat /\ S # {}
  BY DEF Row
<1>2. PICK m \in S : \A k \in S : ~(<<k, m>> \in OpToRel(<, Nat))
  BY <1>1, NatLessThanWellFounded, WFMin
<1>3. \A k \in S : m <= k
  <2>1. \A k \in S : k \in Nat /\ ~(k < m)
    BY <1>1, <1>2 DEF OpToRel
  <2>2. m \in Nat
    BY <1>1
  <2> QED BY <2>1, <2>2
<1>4. PICK r \in g : r.lseq = m
  OBVIOUS
<1>5. \A q \in g : r.lseq <= q.lseq
  BY <1>3, <1>4
<1> QED BY <1>5 DEF FirstOf

\* Deleting by id takes one row of the outbox.
LEMMA DeleteHeld ==
  ASSUME TypeOK, Kept, NEW r \in Enqueued, Delete(r)
  PROVE  Held' = Held \ {r} /\ outbox' \subseteq outbox
<1>1. \A x \in outbox : x.row \in Enqueued
  BY DEF Kept, Held
<1>2. \A x \in outbox : x.row.id = r.id <=> x.row = r
  BY <1>1, Apart
<1> QED BY <1>2 DEF Delete, Held

\* Updating rows leaves them what they are.
LEMMA UpdateHeld ==
  ASSUME TypeOK, NEW rows, NEW st \in {"pending", "failed"}, NEW late \in BOOLEAN,
         Update(rows, st, late)
  PROVE  /\ Held' = Held
         /\ outbox' \subseteq [row : Row, st : {"pending", "failed"}, late : BOOLEAN]
<1> DEFINE New(x) == IF x.row \in rows THEN [x EXCEPT !.st = st, !.late = late] ELSE x
<1>1. \A x \in outbox :
        /\ New(x) \in [row : Row, st : {"pending", "failed"}, late : BOOLEAN]
        /\ New(x).row = x.row
  BY DEF TypeOK
<1>2. outbox' = {New(x) : x \in outbox}
  BY DEF Update
<1> HIDE DEF New
<1> QED BY <1>1, <1>2 DEF Held

LEMMA HeldIs == ASSUME TypeOK PROVE InOutbox("pending") \cup InOutbox("failed") = Held
BY DEF TypeOK, InOutbox, Held
-----------------------------------------------------------------------------
\* Each action keeps the invariant.
LEMMA InitInv == Init => IInv
<1> SUFFICES ASSUME Init PROVE IInv
  OBVIOUS
<1>1. Enqueued = {} /\ Held = {} /\ ToSet(accepted) = {}
  BY DEF Init, Enqueued, Held, ToSet
<1>2. TypeOK
  BY DEF Init, TypeOK
<1>3. Kept /\ Sending /\ Acked /\ InOrder
  BY <1>1 DEF Init, Kept, Sending, Acked, InOrder
<1> QED BY <1>2, <1>3 DEF Init, IInv

\* A new transaction has rows of its own, and leads a new group.
LEMMA EnqueueInv ==
  ASSUME IInv, NEW t \in Transactions, Enqueue(t)
  PROVE  IInv'
<1> DEFINE n   == Len(committed) + 1
           New == {RowOf(t, n, i) : i \in DOMAIN t.rows}
<1>1. TypeOK /\ Len(committed) \in Nat /\ n \in Nat \ {0}
  BY CommittedType DEF IInv
<1>2. /\ committed' \in Seq(Transactions) /\ DOMAIN committed' = 1..n
      /\ committed'[n] = t
      /\ \A m \in 1..Len(committed) : committed'[m] = committed[m]
  BY <1>1 DEF Enqueue, TypeOK
<1>3. Enqueued' = Enqueued \cup New
  <2> HIDE DEF New
  <2>1. ASSUME NEW r
        PROVE  r \in Enqueued' <=>
                 \E m \in DOMAIN committed' : \E i \in DOMAIN committed'[m].rows :
                   r = RowOf(committed'[m], m, i)
    BY DEF Enqueued
  <2>2. DOMAIN committed' = DOMAIN committed \cup {n} /\ DOMAIN committed = 1..Len(committed)
    BY <1>1, <1>2, CommittedType
  <2>3. ASSUME NEW r
        PROVE  r \in New <=> \E i \in DOMAIN committed'[n].rows : r = RowOf(committed'[n], n, i)
    BY <1>2 DEF New
  <2> QED BY <1>2, <2>1, <2>2, <2>3, EnqueuedIs
<1>4. \A r \in New : r \in Row /\ (r.gid = n \/ r.gid = NoGroup)
  BY <1>1, RowOfType
<1>5. \A r \in Enqueued : r.gid # n
  <2> SUFFICES ASSUME NEW r \in Enqueued PROVE r.gid # n
    OBVIOUS
  <2>1. PICK m \in 1..Len(committed), i \in 1..9 :
          r.gid = IF committed[m].grouped THEN m ELSE NoGroup
    BY <1>1, EnqueuedRow
  <2> QED BY <1>1, <2>1, GroupPushAssumption
<1>6. \A r \in Enqueued, q \in Enqueued' : Precedes(q, r) => q \in Enqueued
  BY <1>3, <1>4, <1>5 DEF Precedes
<1>7. Held' = Held \cup New /\ outbox' \subseteq [row : Row, st : {"pending", "failed"}, late : BOOLEAN]
  <2>1. outbox' = outbox \cup {Stored(r) : r \in New}
    BY DEF Enqueue
  <2>2. \A r \in New : /\ Stored(r).row = r
                       /\ Stored(r) \in [row : Row, st : {"pending", "failed"}, late : BOOLEAN]
    BY <1>4 DEF Stored
  <2> HIDE DEF New
  <2> QED BY <1>1, <2>1, <2>2 DEF Held, TypeOK
<1> HIDE DEF New
<1>8. UNCHANGED <<accepted, dropped, at, todo, group>>
  BY DEF Enqueue
<1>9. TypeOK'
  BY <1>1, <1>2, <1>7, <1>8 DEF TypeOK
<1>10. Kept'
  BY <1>3, <1>7, <1>8 DEF IInv, Kept
<1>11. ToSet(accepted) \subseteq Enqueued
  BY DEF IInv, Kept
<1>12. InOrder'
  <2> SUFFICES ASSUME NEW i \in DOMAIN accepted, NEW q \in Enqueued', Precedes(q, accepted[i])
               PROVE  \E j \in 1..(i - 1) : accepted[j] = q
    BY <1>8 DEF InOrder, Precedes
  <2>1. accepted[i] \in Enqueued
    BY <1>11 DEF ToSet
  <2> QED BY <1>6, <2>1 DEF IInv, InOrder
<1>13. Sending'
  BY <1>3, <1>6, <1>8 DEF IInv, Sending, Precedes
<1>14. /\ group' \subseteq Enqueued' /\ (\A g \in todo : Listed(g))'
       /\ Acked'
  BY <1>3, <1>8 DEF IInv, Listed, Acked, FirstOf
<1> QED BY <1>8, <1>9, <1>10, <1>12, <1>13, <1>14 DEF IInv

\* What is listed, and what of it is folded.
LEMMA ListPendingInv ==
  ASSUME IInv, ListPending
  PROVE  IInv'
<1>1. PICK waiting \in SUBSET Late, listed \in SUBSET InOutbox("pending") :
        /\ todo' = SendGroups(listed \ Folded(listed))
        /\ group' = Folded(listed)
  BY DEF ListPending
<1>2. UNCHANGED <<outbox, committed, accepted, dropped>> /\ at' = "fold"
  BY DEF ListPending
<1>3. Enqueued' = Enqueued
  BY <1>2 DEF Enqueued
<1>4. listed \subseteq Enqueued /\ listed \subseteq Row
  BY <1>1, HeldIs, EnqueuedType DEF IInv, Kept
<1>5. Folded(listed) \subseteq listed
  BY DEF Folded
<1>7. \A g \in todo' : Listed(g)
  BY <1>1, <1>4 DEF SendGroups, OfGroup, Listed
<1>8. TypeOK'
  BY <1>1, <1>2, <1>4, <1>5, <1>7, EnqueuedType DEF IInv, TypeOK, Listed
<1>9. group' \subseteq Enqueued' /\ (\A g \in todo : Listed(g))'
  BY <1>1, <1>3, <1>4, <1>5, <1>7 DEF Listed
<1>10. Sending' /\ Acked'
  BY <1>2 DEF Sending, Acked
<1>11. Kept' /\ InOrder'
  BY <1>2, <1>3 DEF IInv, Kept, Held, InOrder, Precedes
<1> QED BY <1>8, <1>9, <1>10, <1>11 DEF IInv

\* What is folded was enqueued, and is void whatever is enqueued later.
LEMMA DropFoldedInv ==
  ASSUME IInv, DropFolded
  PROVE  IInv'
<1>1. PICK r \in group :
        Delete(r) /\ dropped' = dropped \cup {r} /\ group' = group \ {r}
  BY DEF DropFolded
<1>2. at = "fold" /\ UNCHANGED <<committed, accepted, at, todo>>
  BY DEF DropFolded
<1>3. r \in Enqueued /\ r \in Row
  BY EnqueuedType DEF IInv
<1>4. Enqueued' = Enqueued
  BY <1>2 DEF Enqueued
<1>5. Held' = Held \ {r} /\ outbox' \subseteq outbox
  BY <1>1, <1>3, DeleteHeld DEF IInv
<1>6. TypeOK'
  BY <1>1, <1>2, <1>3, <1>5 DEF IInv, TypeOK
<1>7. Kept'
  BY <1>1, <1>2, <1>3, <1>4, <1>5 DEF IInv, Kept
<1>8. /\ group' \subseteq Enqueued' /\ (\A g \in todo : Listed(g))'
      /\ Sending' /\ Acked' /\ InOrder'
  BY <1>1, <1>2, <1>4 DEF IInv, Listed, Sending, Acked, InOrder, Precedes
<1> QED BY <1>6, <1>7, <1>8 DEF IInv

\* A valid group has no gap: what precedes one of its rows is in it.
LEMMA NoGap ==
  ASSUME TypeOK, NEW g, Listed(g), ~Invalid(g),
         NEW r \in g, NEW q \in Enqueued, Precedes(q, r)
  PROVE  q \in g
<1>1. r \in Enqueued /\ r.gid # NoGroup /\ q.gid = r.gid /\ q.lseq < r.lseq
  BY DEF Listed, Precedes
<1>2. {x.lseq : x \in g} = 1..Cardinality(g)
  BY <1>1 DEF Invalid
<1>3. Cardinality(g) \in Nat
  BY <1>1, GroupFinite, FS_CardinalityType
<1>4. q.lseq \in Nat \ {0}
  <2>1. PICK n \in 1..Len(committed), i \in 1..9 :
          /\ q.gid = IF committed[n].grouped THEN n ELSE NoGroup
          /\ q.lseq = IF committed[n].grouped THEN i ELSE 0
    BY EnqueuedRow
  <2> QED BY <1>1, <2>1
<1>5. q.lseq \in 1..Cardinality(g)
  <2>1. r.lseq \in 1..Cardinality(g)
    BY <1>2
  <2> QED BY <1>1, <1>3, <1>4, <2>1
<1>6. PICK x \in g : x.lseq = q.lseq
  BY <1>2, <1>5
<1>7. x \in Enqueued /\ x.gid = q.gid
  BY <1>1 DEF Listed
<1> QED BY <1>1, <1>6, <1>7, Apart

LEMMA NextGroupInv ==
  ASSUME IInv, NextGroup
  PROVE  IInv'
<1>1. PICK g \in todo : ~Invalid(g) /\ todo' = todo \ {g} /\ group' = g
  BY DEF NextGroup
<1>2. UNCHANGED <<outbox, committed, accepted, dropped>> /\ at' = "send"
  BY DEF NextGroup
<1>3. Enqueued' = Enqueued
  BY <1>2 DEF Enqueued
<1>4. Listed(g) /\ g \subseteq Row
  BY <1>1, EnqueuedType DEF IInv, Listed
<1>5. Sending'
  BY <1>1, <1>2, <1>3, <1>4, NoGap DEF IInv, Sending, Precedes
<1>6. TypeOK'
  BY <1>1, <1>2, <1>4 DEF IInv, TypeOK
<1>7. /\ group' \subseteq Enqueued' /\ (\A h \in todo : Listed(h))'
      /\ Acked'
  BY <1>1, <1>2, <1>3, <1>4 DEF IInv, Listed, Acked
<1>8. Kept' /\ InOrder'
  BY <1>2, <1>3 DEF IInv, Kept, Held, InOrder, Precedes
<1> QED BY <1>5, <1>6, <1>7, <1>8 DEF IInv

LEMMA FailGroupInv ==
  ASSUME IInv, FailGroup
  PROVE  IInv'
<1>1. PICK g \in todo : todo' = todo \ {g} /\ group' = g
  BY DEF FailGroup
<1>2. UNCHANGED <<outbox, committed, accepted, dropped>> /\ at' = "fail"
  BY DEF FailGroup
<1>3. Enqueued' = Enqueued
  BY <1>2 DEF Enqueued
<1>4. Listed(g) /\ g \subseteq Row
  BY <1>1, EnqueuedType DEF IInv, Listed
<1>5. TypeOK'
  BY <1>1, <1>2, <1>4 DEF IInv, TypeOK
<1>6. group' \subseteq Enqueued' /\ (\A h \in todo : Listed(h))' /\ Sending' /\ Acked'
  BY <1>1, <1>2, <1>3, <1>4 DEF IInv, Listed, Sending, Acked
<1>7. Kept' /\ InOrder'
  BY <1>2, <1>3 DEF IInv, Kept, Held, InOrder, Precedes
<1> QED BY <1>5, <1>6, <1>7 DEF IInv

\* A row marked as failed stays where it is.
LEMMA MarkInvalidInv ==
  ASSUME IInv, MarkInvalid
  PROVE  IInv'
<1>1. /\ at = "fail" /\ group' \subseteq group /\ Update({FirstOf(group)}, "failed", FALSE)
      /\ UNCHANGED <<committed, accepted, dropped, at, todo>>
  BY DEF MarkInvalid
<1>2. Enqueued' = Enqueued
  BY <1>1 DEF Enqueued
<1>3. /\ Held' = Held
      /\ outbox' \subseteq [row : Row, st : {"pending", "failed"}, late : BOOLEAN]
  BY <1>1, UpdateHeld DEF IInv
<1>4. TypeOK' /\ Kept'
  BY <1>1, <1>2, <1>3 DEF IInv, TypeOK, Kept
<1>5. group' \subseteq Enqueued' /\ (\A h \in todo : Listed(h))' /\ Sending' /\ Acked'
  BY <1>1, <1>2 DEF IInv, Listed, Sending, Acked
<1>6. InOrder'
  BY <1>1, <1>2 DEF IInv, InOrder, Precedes
<1> QED BY <1>4, <1>5, <1>6 DEF IInv
-----------------------------------------------------------------------------
\* The first row of the rest of a group reaches the server after all that go
\* before it, answered or not.
LEMMA Accepting ==
  ASSUME IInv, at = "send", group # {},
         UNCHANGED accepted \/ ServerAccepts(FirstOf(group)),
         UNCHANGED committed
  PROVE  /\ FirstOf(group) \in group /\ FirstOf(group) \in Enqueued
         /\ accepted' \in Seq(Row)
         /\ ToSet(accepted) \subseteq ToSet(accepted')
         /\ ToSet(accepted') \subseteq ToSet(accepted) \cup {FirstOf(group)}
         /\ ServerAccepts(FirstOf(group)) => FirstOf(group) \in ToSet(accepted')
         /\ InOrder'
<1> DEFINE f == FirstOf(group)
<1>0. TypeOK /\ accepted \in Seq(Row) /\ Enqueued' = Enqueued
  BY DEF IInv, TypeOK, Enqueued
<1>1. /\ f \in group /\ f \in Enqueued /\ f \in Row
      /\ \A q \in group : f.lseq <= q.lseq
  BY FirstOfGroup, EnqueuedType DEF IInv, TypeOK
<1> HIDE DEF f
<1>2. CASE accepted' = accepted
  BY <1>0, <1>1, <1>2 DEF f, IInv, InOrder, Precedes, ServerAccepts, ToSet
<1>3. CASE f \in ToSet(accepted)
  BY <1>0, <1>1, <1>3 DEF f, IInv, InOrder, Precedes, ServerAccepts, ToSet
<1>4. CASE f \notin ToSet(accepted) /\ accepted' = Append(accepted, f)
  <2> DEFINE n == Len(accepted) + 1
  <2>1. /\ n \in Nat \ {0} /\ accepted' \in Seq(Row) /\ DOMAIN accepted' = 1..n
        /\ DOMAIN accepted = 1..(n - 1) /\ accepted'[n] = f
        /\ \A i \in 1..(n - 1) : accepted'[i] = accepted[i]
    BY <1>0, <1>1, <1>4
  <2> HIDE DEF n
  <2>2. \A q \in Enqueued : Precedes(q, f) => q \in ToSet(accepted)
    <3>1. \A q \in group : ~(q.lseq < f.lseq)
      BY <1>0, <1>1 DEF TypeOK, Row
    <3> QED BY <1>1, <3>1 DEF IInv, Sending, Precedes
  <2>3. \A q \in Enqueued : Precedes(q, f) => \E j \in 1..(n - 1) : accepted'[j] = q
    BY <2>1, <2>2 DEF ToSet
  <2>4. \A i \in 1..(n - 1) : \A q \in Enqueued :
          Precedes(q, accepted[i]) => \E j \in 1..(i - 1) : accepted'[j] = q
    BY <2>1 DEF IInv, InOrder
  <2>5. InOrder'
    <3> SUFFICES ASSUME NEW i \in 1..n, NEW q \in Enqueued, Precedes(q, accepted'[i])
                 PROVE  \E j \in 1..(i - 1) : accepted'[j] = q
      BY <1>0, <2>1 DEF InOrder, Precedes
    <3>1. CASE i = n
      BY <2>1, <2>3, <3>1
    <3>2. CASE i # n
      <4>1. i \in 1..(n - 1) /\ accepted'[i] = accepted[i]
        BY <2>1, <3>2
      <4> QED BY <2>4, <4>1
    <3> QED BY <3>1, <3>2
  <2>6. ToSet(accepted') = ToSet(accepted) \cup {f}
    BY <2>1 DEF ToSet
  <2> QED BY <1>1, <2>1, <2>5, <2>6 DEF f
<1> QED BY <1>2, <1>3, <1>4 DEF ServerAccepts, f

LEMMA SendOkInv ==
  ASSUME IInv, SendOk
  PROVE  IInv'
<1>1. /\ at = "send" /\ group # {} /\ ServerAccepts(FirstOf(group)) /\ at' = "ack"
      /\ UNCHANGED <<outbox, committed, dropped, todo, group>>
  BY DEF SendOk
<1>2. Enqueued' = Enqueued
  BY <1>1 DEF Enqueued
<1>3. /\ FirstOf(group) \in Enqueued /\ accepted' \in Seq(Row) /\ InOrder'
      /\ FirstOf(group) \in ToSet(accepted') /\ ToSet(accepted) \subseteq ToSet(accepted')
      /\ ToSet(accepted') \subseteq ToSet(accepted) \cup {FirstOf(group)}
  BY <1>1, Accepting
<1>4. TypeOK' /\ Kept'
  BY <1>1, <1>2, <1>3 DEF IInv, TypeOK, Kept, Held
<1>5. /\ group' \subseteq Enqueued' /\ (\A h \in todo : Listed(h))'
  BY <1>1, <1>2 DEF IInv, Listed
<1>6. Sending' /\ Acked'
  BY <1>1, <1>2, <1>3 DEF IInv, Sending, Precedes, Acked, FirstOf
<1> QED BY <1>3, <1>4, <1>5, <1>6 DEF IInv

\* Only a row the server has is deleted as acknowledged.
LEMMA AcknowledgeInv ==
  ASSUME IInv, Acknowledge
  PROVE  IInv'
<1> DEFINE f == FirstOf(group)
<1>1. /\ at = "ack" /\ Delete(f) /\ group' = group \ {f} /\ at' = "send"
      /\ UNCHANGED <<committed, accepted, dropped, todo>>
  BY DEF Acknowledge
<1>2. Enqueued' = Enqueued
  BY <1>1 DEF Enqueued
<1>3. f \in ToSet(accepted)
  BY <1>1 DEF IInv, Acked
<1>4. f \in Enqueued
  BY <1>3 DEF IInv, Kept
<1> HIDE DEF f
<1>5. Held' = Held \ {f} /\ outbox' \subseteq outbox
  BY <1>1, <1>4, DeleteHeld DEF IInv
<1>6. TypeOK' /\ Kept'
  BY <1>1, <1>2, <1>3, <1>5 DEF IInv, TypeOK, Kept
<1>7. Sending'
  BY <1>1, <1>2, <1>3 DEF IInv, Sending, Precedes
<1>8. /\ group' \subseteq Enqueued' /\ (\A h \in todo : Listed(h))' /\ Acked'
  BY <1>1, <1>2 DEF IInv, Listed, Acked
<1>9. InOrder'
  BY <1>1, <1>2 DEF IInv, InOrder, Precedes
<1> QED BY <1>6, <1>7, <1>8, <1>9 DEF IInv

LEMMA SendFailsInv ==
  ASSUME IInv, SendFails
  PROVE  IInv'
<1>1. /\ at = "send" /\ group # {} /\ group' = {}
      /\ UNCHANGED accepted \/ ServerAccepts(FirstOf(group))
      /\ Update({FirstOf(group)}, "pending", TRUE)
      /\ UNCHANGED <<committed, dropped, at, todo>>
  BY DEF SendFails
<1>2. Enqueued' = Enqueued
  BY <1>1 DEF Enqueued
<1>3. /\ FirstOf(group) \in Enqueued /\ accepted' \in Seq(Row) /\ InOrder'
      /\ ToSet(accepted) \subseteq ToSet(accepted')
      /\ ToSet(accepted') \subseteq ToSet(accepted) \cup {FirstOf(group)}
  BY <1>1, Accepting
<1>4. /\ Held' = Held
      /\ outbox' \subseteq [row : Row, st : {"pending", "failed"}, late : BOOLEAN]
  BY <1>1, UpdateHeld DEF IInv
<1>5. TypeOK' /\ Kept'
  BY <1>1, <1>2, <1>3, <1>4 DEF IInv, TypeOK, Kept
<1>6. /\ group' \subseteq Enqueued' /\ (\A h \in todo : Listed(h))'
      /\ Sending' /\ Acked'
  BY <1>1, <1>2 DEF IInv, Listed, Sending, Acked
<1> QED BY <1>3, <1>5, <1>6 DEF IInv

\* The steps that only move the loop on, or end it.
LEMMA LoopInv ==
  ASSUME IInv, FoldDone \/ PushDone \/ GroupDone \/ Kill
  PROVE  IInv'
<1>1. UNCHANGED <<outbox, committed, accepted, dropped>>
  BY DEF FoldDone, PushDone, GroupDone, Kill
<1>2. Enqueued' = Enqueued
  BY <1>1 DEF Enqueued
<1>3. /\ at' \in {"next", "idle"}
      /\ (todo' = todo /\ group' = group) \/ (todo' = {} /\ group' = {})
  BY DEF FoldDone, PushDone, GroupDone, Kill
<1>4. TypeOK' /\ Kept'
  BY <1>1, <1>2, <1>3 DEF IInv, TypeOK, Kept, Held
<1>5. /\ group' \subseteq Enqueued' /\ (\A h \in todo : Listed(h))'
      /\ Sending' /\ Acked'
  BY <1>1, <1>2, <1>3 DEF IInv, Listed, Sending, Acked
<1>6. InOrder'
  BY <1>1, <1>2 DEF IInv, InOrder, Precedes
<1> QED BY <1>4, <1>5, <1>6 DEF IInv

LEMMA Stutter == ASSUME IInv, UNCHANGED vars PROVE IInv'
<1>1. /\ UNCHANGED <<outbox, committed, accepted, dropped, at, todo, group>>
      /\ Enqueued' = Enqueued
  BY DEF vars, Enqueued
<1> QED
  BY <1>1 DEF IInv, TypeOK, Kept, Held, Listed, Sending, Acked,
              FirstOf, InOrder, Precedes
-----------------------------------------------------------------------------
\* The strengthening holds in every state.
THEOREM Invariance == Spec => []IInv
<1>1. Init => IInv
  BY InitInv
<1>2. IInv /\ [Next]_vars => IInv'
  <2> SUFFICES ASSUME IInv, [Next]_vars PROVE IInv'
    OBVIOUS
  <2>1. CASE \E t \in Transactions : Enqueue(t)
    BY <2>1, EnqueueInv
  <2>2. CASE ListPending \/ DropFolded
    BY <2>2, ListPendingInv, DropFoldedInv
  <2>3. CASE NextGroup \/ FailGroup \/ MarkInvalid
    BY <2>3, NextGroupInv, FailGroupInv, MarkInvalidInv
  <2>4. CASE SendOk \/ Acknowledge \/ SendFails
    BY <2>4, SendOkInv, AcknowledgeInv, SendFailsInv
  <2>5. CASE FoldDone \/ PushDone \/ GroupDone \/ Kill
    BY <2>5, LoopInv
  <2>6. CASE UNCHANGED vars
    BY <2>6, Stutter
  <2> QED BY <2>1, <2>2, <2>3, <2>4, <2>5, <2>6 DEF Next
<1> QED BY <1>1, <1>2, PTL DEF Spec

\* The outbox and the loop keep their types.
THEOREM TypeCorrect == Spec => []TypeOK
BY Invariance, PTL DEF IInv

\* No failure, lost answer, limit or kill loses a committed business row.
THEOREM NothingLostCorrect == Spec => []NothingLost
<1>1. IInv => NothingLost
  <2> SUFFICES ASSUME IInv PROVE NothingLost
    OBVIOUS
  <2> QED BY HeldIs DEF IInv, Kept, NothingLost
<1> QED BY <1>1, Invariance, PTL

\* A transaction group reaches the server in its order, from the first row on.
THEOREM GroupOrderCorrect == Spec => []GroupOrder
<1>1. IInv => GroupOrder
  BY DEF IInv, InOrder, Precedes, GroupOrder
<1> QED BY <1>1, Invariance, PTL
=============================================================================
