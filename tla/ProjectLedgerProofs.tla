------------------------ MODULE ProjectLedgerProofs ------------------------
(***************************************************************************)
(* BooksSound is an invariant of ProjectLedger for any projects, records,  *)
(* hours, rates and amounts, and any quantity the records amount to.       *)
(*                                                                         *)
(* The strengthening says that a project without write-offs has none of    *)
(* their money either: with it the count that a transaction checks bounds  *)
(* the sum it decides with.                                                *)
(***************************************************************************)
EXTENDS ProjectLedger, TLAPS

EmptyOff == \A p \in Projects : off[p].count = 0 => off[p] = NoneOff
IInv     == TypeOK /\ OneWriteOff /\ EmptyOff /\ SettledJustified

\* A project's receivable is an amount, and depends on its own rate only.
LEMMA ReceivableType ==
  ASSUME NEW recs \in [Records -> Timing \cup {None}],
         NEW rates \in [Projects -> Rates], NEW p \in Projects
  PROVE  Receivable(recs, rates, p) \in Nat
<1>1. {xh \in Records \X Hours : recs[xh[1]] = [project |-> p, hours |-> xh[2]]}
        \in SUBSET (Records \X Hours)
  OBVIOUS
<1>2. Quantity[{xh \in Records \X Hours : recs[xh[1]] = [project |-> p, hours |-> xh[2]]}] \in Nat
  BY <1>1, QuantityAssumption
<1>3. rates[p] \in Nat
  BY SetsAssumption
<1> QED
  BY <1>2, <1>3 DEF Receivable

LEMMA SameRate ==
  ASSUME NEW recs, NEW r1, NEW r2, NEW p, r1[p] = r2[p]
  PROVE  Receivable(recs, r1, p) = Receivable(recs, r2, p)
  BY DEF Receivable

\* A higher rate raises the receivable, a lower one does not.
LEMMA RateMonotone ==
  ASSUME NEW recs \in [Records -> Timing \cup {None}],
         NEW r1 \in [Projects -> Rates], NEW r2 \in [Projects -> Rates],
         NEW p \in Projects, r1[p] <= r2[p]
  PROVE  Receivable(recs, r1, p) <= Receivable(recs, r2, p)
<1> DEFINE Q == Quantity[{xh \in Records \X Hours : recs[xh[1]] = [project |-> p, hours |-> xh[2]]}]
<1>1. Q \in Nat
  <2>1. {xh \in Records \X Hours : recs[xh[1]] = [project |-> p, hours |-> xh[2]]}
          \in SUBSET (Records \X Hours)
    OBVIOUS
  <2> QED
    BY <2>1, QuantityAssumption
<1>2. r1[p] \in Nat /\ r2[p] \in Nat
  BY SetsAssumption
<1>3. \A a, b, q \in Nat : a <= b => a * q <= b * q
  OBVIOUS
<1>4. r1[p] * Q <= r2[p] * Q
  <2> HIDE DEF Q
  <2> QED
    BY <1>1, <1>2, <1>3
<1> QED
  BY <1>4 DEF Receivable

\* Writing a row that is neither before nor after of a project leaves its
\* receivable alone.
LEMMA OtherRows ==
  ASSUME NEW recs \in [Records -> Timing \cup {None}], NEW rates,
         NEW x \in Records, NEW row \in Timing \cup {None}, NEW p \in Projects,
         recs[x] # None => recs[x].project # p,
         row # None => row.project # p
  PROVE  Receivable([recs EXCEPT ![x] = row], rates, p) = Receivable(recs, rates, p)
<1> DEFINE new == [recs EXCEPT ![x] = row]
<1>1. ASSUME NEW xh \in Records \X Hours
      PROVE  new[xh[1]] = [project |-> p, hours |-> xh[2]]
               <=> recs[xh[1]] = [project |-> p, hours |-> xh[2]]
  <2>1. [project |-> p, hours |-> xh[2]] # None
    BY NoneAssumption
  <2>2. recs[x] # [project |-> p, hours |-> xh[2]] /\ row # [project |-> p, hours |-> xh[2]]
    BY <2>1
  <2> QED
    BY <2>2
<1> QED
  BY <1>1 DEF Receivable

\* Each action keeps the invariant.
LEMMA InitInv == Init => IInv
<1> SUFFICES ASSUME Init PROVE IInv
  OBVIOUS
<1>1. NoneOff \in WriteOffs
  BY BoundAssumption DEF NoneOff, WriteOffs
<1>2. TypeOK
  BY <1>1, BoundAssumption DEF Init, TypeOK, Money, Groups
<1>3. OneWriteOff /\ EmptyOff /\ SettledJustified
  BY DEF Init, OneWriteOff, EmptyOff, SettledJustified, NoneOff
<1> QED
  BY <1>2, <1>3 DEF IInv

\* What a dialog carries.
LEMMA DialogType ==
  ASSUME TypeOK, seen # None
  PROVE  seen.members \subseteq Projects /\ seen.no \in 0..MaxGroups
<1>1. seen \in Dialogs
  BY DEF TypeOK
<1> QED
  BY <1>1 DEF Dialogs

LEMMA AddsType ==
  ASSUME NEW o \in WriteOffs, NEW fen \in 0..MaxFen, NEW no \in 0..MaxGroups,
         o = NoneOff
  PROVE  /\ Adds(o, fen, no) \in WriteOffs
         /\ Adds(o, fen, no).count = 1 /\ Adds(o, fen, no).fen = fen
<1>1. o.count = 0 /\ o.fen = 0 /\ o.groups = {}
  BY DEF NoneOff
<1>2. {no} \ {0} \in SUBSET (1..MaxGroups)
  BY BoundAssumption
<1> QED
  BY <1>1, <1>2, BoundAssumption DEF Adds, WriteOffs

LEMMA SettleInv ==
  ASSUME IInv, NEW p \in Projects, NEW pay \in 0..MaxFen, NEW wo \in 0..MaxFen,
         Settle(p, pay, wo)
  PROVE  IInv'
<1> USE DEF IInv, Settle
<1>0. seen # None /\ TypeOK
  BY DEF Asked
<1>1. wo > 0 => off[p] = NoneOff
  BY DEF Room, EmptyOff
<1>2. wo > 0 => /\ Adds(off[p], wo, 0) \in WriteOffs
               /\ Adds(off[p], wo, 0).count = 1 /\ Adds(off[p], wo, 0).fen = off[p].fen + wo
  <2> SUFFICES ASSUME wo > 0
               PROVE  /\ Adds(off[p], wo, 0) \in WriteOffs
                      /\ Adds(off[p], wo, 0).count = 1
                      /\ Adds(off[p], wo, 0).fen = off[p].fen + wo
    OBVIOUS
  <2>1. off[p] \in WriteOffs /\ 0 \in 0..MaxGroups
    BY BoundAssumption DEF TypeOK
  <2>2. off[p] = NoneOff /\ off[p].fen = 0
    BY <1>1 DEF NoneOff
  <2> QED
    BY <2>1, <2>2, AddsType
<1>3. /\ off' \in [Projects -> WriteOffs]
      /\ off'[p].fen = off[p].fen + wo
      /\ \A q \in Projects \ {p} : off'[q] = off[q]
      /\ wo = 0 => off' = off
      /\ wo # 0 => off'[p].count = 1
  <2>1. CASE wo = 0
    BY <2>1 DEF TypeOK, WriteOffs
  <2>2. CASE wo # 0
    <3>1. off' = [off EXCEPT ![p] = Adds(off[p], wo, 0)] /\ wo > 0
      BY <2>2, BoundAssumption
    <3> QED
      BY <3>1, <1>2, <2>2 DEF TypeOK
  <2> QED
    BY <2>1, <2>2
<1>4. received' \in Money /\ received'[p] = received[p] + pay
      /\ \A q \in Projects \ {p} : received'[q] = received[q]
  BY BoundAssumption DEF TypeOK, Money
<1>5. settled' \in [Projects -> BOOLEAN] /\ \A q \in Projects \ {p} : settled'[q] = settled[q]
  BY DEF TypeOK
<1>6. unjudged' \subseteq Projects
  BY DEF Judged
<1>7. TypeOK'
  BY <1>3, <1>4, <1>5, <1>6 DEF TypeOK
<1>8. OneWriteOff'
  BY <1>3 DEF OneWriteOff
<1>9. EmptyOff'
  BY <1>3 DEF EmptyOff
<1>10. SettledJustified'
  <2> SUFFICES ASSUME NEW q \in Projects, settled'[q], q \notin unjudged'
               PROVE  (Remaining(q, Due(q)) <= 0)'
    BY DEF SettledJustified
  <2>1. Due(q) \in Nat /\ Due(q)' = Due(q)
    BY ReceivableType DEF Due, TypeOK
  <2>2. /\ received[q] \in Nat /\ off[q].fen \in Nat
        /\ received'[q] >= received[q] /\ off'[q].fen >= off[q].fen
        /\ received'[q] \in Nat /\ off'[q].fen \in Nat
    BY <1>3, <1>4, BoundAssumption DEF TypeOK, Money, WriteOffs
  <2>3. CASE settled[q] /\ q \notin unjudged
    <3>1. Remaining(q, Due(q)) <= 0
      BY <2>3 DEF SettledJustified
    <3> QED
      BY <2>1, <2>2, <3>1 DEF Remaining
  <2>4. CASE ~(settled[q] /\ q \notin unjudged)
    <3>1. q = p /\ Remaining(p, Shown(p)) = pay + wo /\ q \notin Stale({p})
      BY <2>4, <1>5 DEF Judged
    <3>2. Shown(p) = Due(p)
      BY <3>1 DEF Stale
    <3> QED
      BY <3>1, <3>2, <2>1, <2>2, <1>3, <1>4 DEF Remaining
  <2> QED
    BY <2>3, <2>4
<1> QED
  BY <1>7, <1>8, <1>9, <1>10

\* A settled project whose due does not rise and whose money does not fall stays
\* justified.
LEMMA StaysJustified ==
  ASSUME IInv, NEW q \in Projects, settled[q], q \notin unjudged,
         Due(q)' \in Nat, Due(q)' <= Due(q),
         received'[q] \in Nat, received'[q] >= received[q],
         off'[q].fen \in Nat, off'[q].fen >= off[q].fen
  PROVE  (Remaining(q, Due(q)) <= 0)'
<1>1. Remaining(q, Due(q)) <= 0 /\ TypeOK
  BY DEF IInv, SettledJustified
<1>2. Due(q) \in Nat
  BY <1>1, ReceivableType DEF Due, TypeOK
<1>3. received[q] \in Nat /\ off[q].fen \in Nat
  BY <1>1, BoundAssumption DEF TypeOK, Money, WriteOffs
<1> QED
  BY <1>1, <1>2, <1>3 DEF Remaining

LEMMA SettleMergedInv ==
  ASSUME IInv, NEW alloc \in Money, SettleMerged(alloc)
  PROVE  IInv'
<1> USE DEF IInv
<1> DEFINE S == seen.members
           A == {p \in S : alloc[p] > 0}
           Left(p) == Remaining(p, Shown(p)) - alloc[p]
           done == {p \in A : Left(p) <= 0} \cup
                   {p \in S : MapThenSumSet(Left, S) <= 0 /\ Left(p) <= 0}
<1>0. seen # None /\ S \subseteq Projects /\ seen.no \in 0..MaxGroups
  BY DialogType DEF SettleMerged, AskedMerged
<1>1. /\ \A p \in S : ~settled[p] /\ off[p].count = 0
      /\ off' = [p \in Projects |->
           IF p \in A THEN Adds(off[p], alloc[p], seen.no) ELSE off[p]]
      /\ settled' = [p \in Projects |-> settled[p] \/ p \in done]
      /\ unjudged' = {p \in Projects :
           settled'[p] /\ p \in (unjudged \ (done \ Stale(S))) \cup (done \cap Stale(S))}
      /\ UNCHANGED <<record, rate, received, group, ed, joining>> /\ seen' = None
  BY DEF SettleMerged, Room, Judged
<1>2. done \subseteq S
  OBVIOUS
<1> HIDE DEF done
<1>3. \A p \in Projects : alloc[p] \in 0..MaxFen
  BY DEF Money
<1>4. ASSUME NEW p \in A
      PROVE  off'[p] \in WriteOffs /\ off'[p].count = 1 /\ off'[p].fen = alloc[p]
             /\ off[p].fen = 0
  <2>1. p \in Projects /\ off[p] = NoneOff
    BY <1>0, <1>1 DEF EmptyOff
  <2>2. off[p] \in WriteOffs /\ off[p].fen = 0
    BY <2>1 DEF TypeOK, NoneOff
  <2>3. off'[p] = Adds(off[p], alloc[p], seen.no)
    BY <1>1, <2>1
  <2> QED
    BY <2>1, <2>2, <2>3, <1>0, <1>3, AddsType
<1>5. \A p \in Projects \ A : off'[p] = off[p]
  BY <1>1
<1>6. off' \in [Projects -> WriteOffs]
  <2>1. \A p \in Projects : off'[p] \in WriteOffs
    BY <1>4, <1>5 DEF TypeOK
  <2> QED
    BY <2>1, <1>1
<1>7. TypeOK'
  BY <1>1, <1>6 DEF TypeOK
<1>8. OneWriteOff'
  BY <1>4, <1>5 DEF OneWriteOff
<1>9. EmptyOff'
  BY <1>4, <1>5 DEF EmptyOff
<1>10. SettledJustified'
  <2> SUFFICES ASSUME NEW q \in Projects, settled'[q], q \notin unjudged'
               PROVE  (Remaining(q, Due(q)) <= 0)'
    BY DEF SettledJustified
  <2>1. Due(q) \in Nat /\ Due(q)' = Due(q)
    BY <1>1, ReceivableType DEF Due, TypeOK
  <2>2. received'[q] = received[q] /\ received[q] \in Nat /\ off[q].fen \in Nat
        /\ off'[q].fen \in Nat
    BY <1>1, <1>6, BoundAssumption DEF TypeOK, Money, WriteOffs
  <2>3. off'[q].fen = off[q].fen + (IF q \in A THEN alloc[q] ELSE 0)
    <3>1. CASE q \in A
      BY <3>1, <1>4, <1>3
    <3>2. CASE q \notin A
      BY <3>2, <1>5, <2>2
    <3> QED
      BY <3>1, <3>2
  <2>4. CASE q \in done
    <3>1. q \in S /\ q \notin Stale(S)
      BY <2>4, <1>1, <1>2
    <3>2. Shown(q) = Due(q)
      BY <3>1 DEF Stale
    <3>3. Left(q) <= 0
      BY <2>4 DEF done
    <3>4. alloc[q] = IF q \in A THEN alloc[q] ELSE 0
      BY <3>1, <1>3
    <3> QED
      BY <3>2, <3>3, <3>4, <2>1, <2>2, <2>3, <1>3 DEF Remaining
  <2>5. CASE q \notin done
    <3>1. settled[q] /\ q \notin unjudged
      BY <2>5, <1>1
    <3>2. off'[q].fen >= off[q].fen
      BY <2>2, <2>3, <1>3
    <3> QED
      BY <3>1, <3>2, <2>1, <2>2, StaysJustified
  <2> QED
    BY <2>4, <2>5
<1> QED
  BY <1>7, <1>8, <1>9, <1>10

LEMMA TakeBackInv ==
  ASSUME IInv, seen # None, NEW D \in SUBSET Projects, TakeBack(D)
  PROVE  IInv'
<1> USE DEF IInv, TakeBack
<1>1. NoneOff \in WriteOffs /\ NoneOff.count = 0 /\ NoneOff.fen = 0
  BY BoundAssumption DEF NoneOff, WriteOffs
<1>2. TypeOK'
  BY <1>1 DEF TypeOK, Judged
<1>3. OneWriteOff' /\ EmptyOff'
  BY <1>1 DEF OneWriteOff, EmptyOff
<1>4. SettledJustified'
  <2> SUFFICES ASSUME NEW q \in Projects, settled'[q], q \notin unjudged'
               PROVE  (Remaining(q, Due(q)) <= 0)'
    BY DEF SettledJustified
  <2>1. Due(q) \in Nat /\ Due(q)' = Due(q)
    BY ReceivableType DEF Due, TypeOK
  <2>2. received'[q] = received[q] /\ received[q] \in Nat
    BY BoundAssumption DEF TypeOK, Money
  <2>3. CASE q \in D
    <3>1. Shown(q) = Due(q)
      BY <2>3 DEF Judged, Stale
    <3>2. ~(Shown(q) - received[q] > 0) /\ off'[q].fen = 0
      BY <2>3, <1>1
    <3> QED
      BY <3>1, <3>2, <2>1, <2>2 DEF Remaining
  <2>4. CASE q \notin D
    <3>1. settled[q] /\ q \notin unjudged /\ off'[q] = off[q] /\ off[q].fen \in Nat
      BY <2>4, BoundAssumption DEF Judged, TypeOK, WriteOffs
    <3> QED
      BY <3>1, <2>1, <2>2, StaysJustified
  <2> QED
    BY <2>3, <2>4
<1> QED
  BY <1>2, <1>3, <1>4

LEMMA RevokeInv ==
  ASSUME IInv, RevokeSettlement
  PROVE  IInv'
<1> USE DEF IInv, RevokeSettlement
<1>1. TypeOK'
  BY DEF TypeOK, Judged
<1>2. OneWriteOff' /\ EmptyOff'
  BY DEF OneWriteOff, EmptyOff
<1>3. SettledJustified'
  BY DEF SettledJustified, Judged, Remaining, Due
<1> QED
  BY <1>1, <1>2, <1>3

LEMMA OutsideInv ==
  ASSUME IInv,
         \/ \E S \in SUBSET Projects : \E new \in [S -> 0..MaxFen] : WritePayments(S, new)
         \/ \E p \in Projects, r \in Rates : ChangeRate(p, r)
         \/ \E x \in Records, row \in Timing \cup {None} : ApplyRecord(x, row)
         \/ \E p \in Projects, status \in BOOLEAN : ApplyProject(p, status)
  PROVE  IInv'
<1> USE DEF IInv
<1>1. ASSUME NEW S \in SUBSET Projects, NEW new \in [S -> 0..MaxFen], WritePayments(S, new)
      PROVE  IInv'
  <2> USE <1>1 DEF WritePayments, flows
  <2>1. received' \in Money
    BY DEF TypeOK, Money
  <2>2. TypeOK' /\ OneWriteOff' /\ EmptyOff'
    BY <2>1 DEF TypeOK, OneWriteOff, EmptyOff, Judged
  <2>3. SettledJustified'
    <3> SUFFICES ASSUME NEW q \in Projects, settled'[q], q \notin unjudged'
                 PROVE  (Remaining(q, Due(q)) <= 0)'
      BY DEF SettledJustified
    <3>1. Due(q) \in Nat /\ Due(q)' = Due(q)
      BY ReceivableType DEF Due, TypeOK
    <3>2. settled[q] /\ q \notin unjudged
      BY DEF Judged
    <3>3. /\ received[q] \in Nat /\ received'[q] \in Nat
          /\ off'[q].fen = off[q].fen /\ off[q].fen \in Nat
      BY <2>1, BoundAssumption DEF TypeOK, Money, WriteOffs
    <3>4. received'[q] >= received[q]
      BY <3>3 DEF Judged
    <3> QED
      BY <3>1, <3>2, <3>3, <3>4, StaysJustified
  <2> QED
    BY <2>2, <2>3
<1>2. ASSUME NEW p \in Projects, NEW r \in Rates, ChangeRate(p, r)
      PROVE  IInv'
  <2> USE <1>2 DEF ChangeRate, flows
  <2>1. rate' \in [Projects -> Rates]
    BY DEF TypeOK
  <2>2. TypeOK' /\ OneWriteOff' /\ EmptyOff'
    BY <2>1 DEF TypeOK, OneWriteOff, EmptyOff, Judged
  <2>3. SettledJustified'
    <3> SUFFICES ASSUME NEW q \in Projects, settled'[q], q \notin unjudged'
                 PROVE  (Remaining(q, Due(q)) <= 0)'
      BY DEF SettledJustified
    <3>1. settled[q] /\ q \notin unjudged /\ (q = p => ~(r > rate[q]))
      BY DEF Judged
    <3>2. rate[q] \in Nat /\ rate'[q] \in Nat
      BY <2>1, SetsAssumption DEF TypeOK
    <3>3. rate'[q] <= rate[q]
      BY <3>1, <3>2 DEF TypeOK
    <3>4. Due(q)' \in Nat /\ Due(q)' <= Due(q)
      <4>1. Receivable(record, rate', q) <= Receivable(record, rate, q)
        BY <2>1, <3>3, RateMonotone DEF TypeOK
      <4>2. Receivable(record, rate', q) \in Nat
        BY <2>1, ReceivableType DEF TypeOK
      <4> QED
        BY <4>1, <4>2 DEF Due
    <3>5. /\ received[q] \in Nat /\ received'[q] = received[q]
          /\ off'[q].fen = off[q].fen /\ off[q].fen \in Nat
      BY BoundAssumption DEF TypeOK, Money, WriteOffs
    <3> QED
      BY <3>1, <3>4, <3>5, StaysJustified
  <2> QED
    BY <2>2, <2>3
<1>3. ASSUME NEW x \in Records, NEW row \in Timing \cup {None}, ApplyRecord(x, row)
      PROVE  IInv'
  <2> USE <1>3 DEF ApplyRecord, flows
  <2>1. record' \in [Records -> Timing \cup {None}]
    BY DEF TypeOK
  <2>2. TypeOK' /\ OneWriteOff' /\ EmptyOff'
    BY <2>1 DEF TypeOK, OneWriteOff, EmptyOff, Judged
  <2>3. SettledJustified'
    <3> SUFFICES ASSUME NEW q \in Projects, settled'[q], q \notin unjudged'
                 PROVE  (Remaining(q, Due(q)) <= 0)'
      BY DEF SettledJustified
    <3>1. settled[q] /\ q \notin unjudged /\ ~(Receivable(record', rate, q) > Due(q))
      BY DEF Judged
    <3>2. Receivable(record', rate, q) \in Nat /\ Due(q) \in Nat
      BY <2>1, ReceivableType DEF TypeOK, Due
    <3>3. Due(q)' \in Nat /\ Due(q)' <= Due(q)
      BY <3>1, <3>2 DEF Due
    <3>4. /\ received[q] \in Nat /\ received'[q] = received[q]
          /\ off'[q].fen = off[q].fen /\ off[q].fen \in Nat
      BY BoundAssumption DEF TypeOK, Money, WriteOffs
    <3> QED
      BY <3>1, <3>3, <3>4, StaysJustified
  <2> QED
    BY <2>2, <2>3
<1>4. ASSUME NEW p \in Projects, NEW status \in BOOLEAN, ApplyProject(p, status)
      PROVE  IInv'
  <2> USE <1>4 DEF ApplyProject, flows
  <2>1. TypeOK'
    BY DEF TypeOK, Judged
  <2>2. OneWriteOff' /\ EmptyOff'
    BY DEF OneWriteOff, EmptyOff
  <2>3. SettledJustified'
    BY DEF SettledJustified, Judged, Remaining, Due, TypeOK
  <2> QED
    BY <2>1, <2>2, <2>3
<1> QED
  BY <1>1, <1>2, <1>3, <1>4

LEMMA ExecuteSaveInv ==
  ASSUME IInv, NEW x \in Records, ExecuteSave(x)
  PROVE  IInv'
<1> USE DEF IInv
<1>0. /\ ed # None /\ record' = [record EXCEPT ![x] = ed.to]
      /\ (IF ed.id = None THEN record[x] = None ELSE x = ed.id /\ record[x] # None)
      /\ settled' = [p \in Projects |->
           settled[p] /\ ~(p \in Touched(x) /\ Revokes(record', p))]
      /\ unjudged' = {p \in Projects : settled'[p] /\
           p \in (unjudged \ {q \in Touched(x) : ed.rate[q] = rate[q]})
                  \cup (Touched(x) \ {q \in Touched(x) : ed.rate[q] = rate[q]})}
      /\ group' \in {[group EXCEPT !.members = {}], group}
      /\ ed' = None /\ UNCHANGED <<rate, received, off, seen, joining>>
  BY DEF ExecuteSave, Judged
<1>1. ed.to \in Timing /\ ed.rate \in [Projects -> Rates]
  <2>1. ed \in Saves
    BY <1>0 DEF TypeOK
  <2> QED
    BY <2>1 DEF Saves
<1>2. record' \in [Records -> Timing \cup {None}]
  BY <1>0, <1>1 DEF TypeOK
<1>3. group' \in Groups
  BY <1>0 DEF TypeOK, Groups
<1>4. TypeOK'
  BY <1>0, <1>2, <1>3 DEF TypeOK
<1>5. OneWriteOff' /\ EmptyOff'
  BY <1>0 DEF OneWriteOff, EmptyOff
<1>6. SettledJustified'
  <2> SUFFICES ASSUME NEW q \in Projects, settled'[q], q \notin unjudged'
               PROVE  (Remaining(q, Due(q)) <= 0)'
    BY DEF SettledJustified
  <2>1. /\ received[q] \in Nat /\ received'[q] = received[q]
        /\ off'[q].fen = off[q].fen /\ off[q].fen \in Nat
    BY <1>0, BoundAssumption DEF TypeOK, Money, WriteOffs
  <2>2. Due(q)' = Receivable(record', rate, q) /\ Due(q)' \in Nat
    BY <1>0, <1>2, ReceivableType DEF Due, TypeOK
  <2>3. CASE q \in Touched(x)
    <3>1. ed.rate[q] = rate[q] /\ ~Revokes(record', q)
      BY <1>0, <2>3
    <3>2. Receivable(record', ed.rate, q) = Receivable(record', rate, q)
      BY <3>1, SameRate
    <3>3. ~(Remaining(q, Receivable(record', rate, q)) > 0)
      BY <3>1, <3>2 DEF Revokes
    <3> QED
      BY <3>3, <2>1, <2>2 DEF Remaining
  <2>4. CASE q \notin Touched(x)
    <3>1. settled[q] /\ q \notin unjudged
      BY <1>0, <2>4
    <3>2. ed.to.project # q
      BY <2>4 DEF Touched
    <3>3. record[x] # None => record[x].project # q
      BY <1>0, <2>4 DEF Touched
    <3>4. Receivable(record', rate, q) = Receivable(record, rate, q)
      <4>1. record \in [Records -> Timing \cup {None}] /\ ed.to \in Timing \cup {None}
        BY <1>1 DEF TypeOK
      <4>2. record' = [record EXCEPT ![x] = ed.to]
        BY <1>0
      <4>3. ed.to # None => ed.to.project # q
        BY <3>2
      <4>4. Receivable([record EXCEPT ![x] = ed.to], rate, q) = Receivable(record, rate, q)
        <5> HIDE DEF IInv
        <5> QED
          BY ONLY <4>1, <4>3, <3>3, OtherRows, x \in Records, q \in Projects
      <4> QED
        BY <4>2, <4>4
    <3>5. Due(q)' = Due(q)
      BY <2>2, <3>4 DEF Due
    <3>6. Due(q) \in Nat
      BY <2>2, <3>5
    <3> QED
      BY <3>1, <3>5, <3>6, <2>1, StaysJustified
  <2> QED
    BY <2>3, <2>4
<1> QED
  BY <1>4, <1>5, <1>6

LEMMA DeleteRecordInv ==
  ASSUME IInv, NEW x \in Records, DeleteRecord(x)
  PROVE  IInv'
<1> USE DEF IInv
<1> DEFINE p == record[x].project
<1>0. /\ record[x] # None /\ record' = [record EXCEPT ![x] = None]
      /\ off' = [off EXCEPT ![p] = NoneOff]
      /\ settled' = [settled EXCEPT ![p] = FALSE]
      /\ unjudged' = {q \in Projects : settled'[q] /\ q \in unjudged}
      /\ UNCHANGED <<rate, received, seen, ed, joining>>
  BY DEF DeleteRecord, Judged, flows
<1>1. p \in Projects
  BY <1>0 DEF TypeOK, Timing
<1>2. group' \in Groups
  <2> DEFINE kept == {q \in group.members \ {p} : Traced(record', q)}
  <2>1. kept \in SUBSET Projects /\ group \in Groups
    BY DEF TypeOK, Groups
  <2>2. group' \in {group, [group EXCEPT !.members = {}], [group EXCEPT !.members = kept]}
    BY DEF DeleteRecord
  <2> HIDE DEF kept
  <2> QED
    BY <2>1, <2>2 DEF Groups
<1>3. record' \in [Records -> Timing \cup {None}]
  BY <1>0 DEF TypeOK
<1>4. NoneOff \in WriteOffs /\ NoneOff.count = 0 /\ NoneOff.fen = 0
  BY BoundAssumption DEF NoneOff, WriteOffs
<1>5. off' \in [Projects -> WriteOffs]
  BY <1>0, <1>4 DEF TypeOK
<1>6. TypeOK'
  BY <1>0, <1>2, <1>3, <1>5 DEF TypeOK
<1>7. OneWriteOff' /\ EmptyOff'
  BY <1>0, <1>4 DEF OneWriteOff, EmptyOff, TypeOK
<1>8. SettledJustified'
  <2> SUFFICES ASSUME NEW q \in Projects, settled'[q], q \notin unjudged'
               PROVE  (Remaining(q, Due(q)) <= 0)'
    BY DEF SettledJustified
  <2>1. q # p
    BY <1>0, <1>1 DEF TypeOK
  <2>2. settled[q] /\ q \notin unjudged
    BY <2>1, <1>0 DEF TypeOK
  <2>3. /\ received[q] \in Nat /\ received'[q] = received[q]
        /\ off'[q].fen = off[q].fen /\ off[q].fen \in Nat
    BY <2>1, <1>0, BoundAssumption DEF TypeOK, Money, WriteOffs
  <2>4. Receivable([record EXCEPT ![x] = None], rate, q) = Receivable(record, rate, q)
    <3>1. record \in [Records -> Timing \cup {None}] /\ None \in Timing \cup {None}
      BY DEF TypeOK
    <3>2. record[x] # None => record[x].project # q
      BY <2>1
    <3> QED
      BY ONLY <3>1, <3>2, OtherRows, x \in Records, q \in Projects
  <2>5. Due(q)' = Due(q) /\ Due(q) \in Nat
    BY <2>4, <1>0, ReceivableType DEF Due, TypeOK
  <2> QED
    BY <2>2, <2>3, <2>5, StaysJustified
<1> QED
  BY <1>6, <1>7, <1>8

\* The books, the settled status and the history are left alone.
LEMMA FlowInv ==
  ASSUME IInv, TypeOK', unjudged' = unjudged,
         record' = record, rate' = rate, received' = received, off' = off,
         settled' = settled
  PROVE  IInv'
  BY DEF IInv, OneWriteOff, EmptyOff, SettledJustified, Remaining, Due

LEMMA OpenInv ==
  ASSUME IInv, NEW no \in 0..MaxGroups, NEW S \in SUBSET Projects, Open(no, S)
  PROVE  IInv'
<1> DEFINE shown == [p \in Projects |-> IF p \in S THEN Due(p) ELSE 0]
<1>1. \A p \in Projects : Due(p) \in Nat
  BY ReceivableType DEF Due, IInv, TypeOK
<1>2. shown \in [Projects -> Nat]
  BY <1>1
<1>3. seen' = [no |-> no, members |-> S, receivable |-> shown]
  BY DEF Open
<1> HIDE DEF shown
<1>4. seen' \in Dialogs
  BY <1>2, <1>3 DEF Dialogs
<1>5. UNCHANGED <<record, rate, received, off, settled, group, ed, joining, unjudged>>
  BY DEF Open, books
<1>6. TypeOK'
  BY <1>4, <1>5 DEF TypeOK, IInv
<1> QED
  BY <1>5, <1>6, FlowInv

LEMMA PrepareInv ==
  ASSUME IInv, NEW x \in Records \cup {None}, NEW t \in Timing, PrepareForSave(x, t)
  PROVE  IInv'
<1>1. UNCHANGED <<record, rate, received, off, settled, group, seen, joining, unjudged>>
      /\ ed' = [id |-> x, to |-> t, rate |-> rate]
  BY DEF PrepareForSave, books
<1>2. ed' \in Saves
  BY <1>1 DEF Saves, IInv, TypeOK
<1>3. TypeOK'
  BY <1>1, <1>2 DEF TypeOK, IInv
<1> QED
  BY <1>1, <1>3, FlowInv

LEMMA GroupInv ==
  ASSUME IInv,
         \/ \E S \in SUBSET Projects : CheckMerge(S)
         \/ CreateGroup
         \/ DissolveGroup
         \/ Abandon
  PROVE  IInv'
<1>1. UNCHANGED <<record, rate, received, off, settled, unjudged>>
  BY DEF CheckMerge, CreateGroup, DissolveGroup, Abandon, books, flows
<1>2. joining' \subseteq Projects
  BY DEF CheckMerge, CreateGroup, DissolveGroup, Abandon, flows, IInv, TypeOK
<1>3. seen' \in {seen, None} /\ ed' \in {ed, None}
  BY DEF CheckMerge, CreateGroup, DissolveGroup, Abandon, flows
<1>4. group' \in Groups
  <2>1. CASE CreateGroup
    <3>1. group.no + 1 \in 0..MaxGroups
      BY <2>1, BoundAssumption DEF CreateGroup, IInv, TypeOK, Groups
    <3> QED
      BY <2>1, <3>1 DEF CreateGroup, IInv, TypeOK, Groups
  <2>2. CASE ~CreateGroup
    BY <2>2 DEF CheckMerge, DissolveGroup, Abandon, books, IInv, TypeOK, Groups
  <2> QED
    BY <2>1, <2>2
<1>5. TypeOK'
  BY <1>1, <1>2, <1>3, <1>4 DEF TypeOK, IInv
<1> QED
  BY <1>1, <1>5, FlowInv

LEMMA StepInv == IInv /\ [Next]_vars => IInv'
<1> SUFFICES ASSUME IInv, [Next]_vars PROVE IInv'
  OBVIOUS
<1> USE DEF IInv
<1>1. ASSUME NEW p \in Projects, OpenProject(p) PROVE IInv'
  <2>1. 0 \in 0..MaxGroups /\ {p} \in SUBSET Projects
    BY BoundAssumption
  <2> QED
    BY <1>1, <2>1, OpenInv DEF OpenProject
<1>2. ASSUME OpenMerged PROVE IInv'
  <2>1. group.no \in 0..MaxGroups /\ group.members \in SUBSET Projects
    BY DEF TypeOK, Groups
  <2> QED
    BY <1>2, <2>1, OpenInv DEF OpenMerged
<1>3. ASSUME NEW p \in Projects, DeleteWriteOff(p) PROVE IInv'
  BY <1>3, TakeBackInv DEF DeleteWriteOff, Asked
<1>4. ASSUME NEW p \in Projects, NEW pay \in 0..MaxFen, NEW wo \in 0..MaxFen,
             Settle(p, pay, wo)
      PROVE  IInv'
  BY <1>4, SettleInv
<1>5. ASSUME NEW alloc \in Money, SettleMerged(alloc) PROVE IInv'
  BY <1>5, SettleMergedInv
<1>6. ASSUME DeleteMergedWriteOffs PROVE IInv'
  <2> DEFINE D == {p \in seen.members : seen.no \in off[p].groups}
  <2>1. seen # None /\ TakeBack(D)
    BY <1>6 DEF DeleteMergedWriteOffs, AskedMerged
  <2>2. D \in SUBSET Projects
    BY <2>1, DialogType
  <2> HIDE DEF D
  <2> QED
    BY <2>1, <2>2, TakeBackInv
<1>7. ASSUME RevokeSettlement PROVE IInv'
  BY <1>7, RevokeInv
<1>8. ASSUME NEW S \in {{p} : p \in Projects} \cup {group.members},
             NEW new \in [S -> 0..MaxFen], WritePayments(S, new)
      PROVE  IInv'
  <2>1. S \in SUBSET Projects
    BY DEF TypeOK, Groups
  <2> QED
    BY <1>8, <2>1, OutsideInv
<1>9. ASSUME NEW p \in Projects, NEW r \in Rates, ChangeRate(p, r) PROVE IInv'
  BY <1>9, OutsideInv
<1>10. ASSUME NEW x \in Records, NEW row \in Timing \cup {None}, ApplyRecord(x, row)
       PROVE  IInv'
  BY <1>10, OutsideInv
<1>11. ASSUME NEW p \in Projects, NEW status \in BOOLEAN, ApplyProject(p, status)
       PROVE  IInv'
  BY <1>11, OutsideInv
<1>12. ASSUME NEW x \in Records \cup {None}, NEW t \in Timing, PrepareForSave(x, t)
       PROVE  IInv'
  BY <1>12, PrepareInv
<1>13. ASSUME NEW x \in Records, ExecuteSave(x) PROVE IInv'
  BY <1>13, ExecuteSaveInv
<1>14. ASSUME NEW x \in Records, DeleteRecord(x) PROVE IInv'
  BY <1>14, DeleteRecordInv
<1>15. ASSUME NEW S \in SUBSET Projects, CheckMerge(S) PROVE IInv'
  BY <1>15, GroupInv
<1>16. ASSUME CreateGroup \/ DissolveGroup \/ Abandon PROVE IInv'
  BY <1>16, GroupInv
<1>17. ASSUME UNCHANGED vars PROVE IInv'
  BY <1>17 DEF vars, TypeOK, OneWriteOff, EmptyOff, SettledJustified, Remaining, Due
<1> HIDE DEF IInv
<1> QED
  BY <1>1, <1>2, <1>3, <1>4, <1>5, <1>6, <1>7, <1>8, <1>9, <1>10, <1>11, <1>12,
     <1>13, <1>14, <1>15, <1>16, <1>17 DEF Next

\* The invariant and its strengthening hold in every reachable state.
THEOREM Invariance == Spec => []IInv
  BY InitInv, StepInv, PTL DEF Spec

\* The tables, the dialogs and the prepared saves keep their types.
THEOREM TypeCorrect == Spec => []TypeOK
<1>1. IInv => TypeOK
  BY DEF IInv
<1> QED
  BY <1>1, Invariance, PTL

\* For any set of projects and records: one write-off per project, and no settled
\* project that a judging transaction left with something to receive.
THEOREM BooksSoundCorrect == Spec => []BooksSound
<1>1. IInv => BooksSound
  BY DEF IInv, BooksSound
<1> QED
  BY <1>1, Invariance, PTL
=============================================================================
