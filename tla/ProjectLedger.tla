--------------------------- MODULE ProjectLedger ---------------------------
(***************************************************************************)
(* The books of a device's projects: timing records, rates, payments,      *)
(* write-offs, merge groups and the settled status, with the transactions  *)
(* that change them (lib/infrastructure/local/account and .../timing).     *)
(*                                                                         *)
(* What a transaction decides with is not always read inside it.  seen is  *)
(* what the settlement dialog shows, ed the save of a timing record        *)
(* between prepareForSave and its transaction, joining the projects a      *)
(* merge group is about to be created for.  unjudged is history: the       *)
(* settled projects whose last change was not judged, or was judged with   *)
(* numbers that were no longer true.                                       *)
(*                                                                         *)
(* settled_at and settled_snapshot follow the status; amounts are fen.     *)
(***************************************************************************)
EXTENDS Integers, FiniteSets, FiniteSetsExt

CONSTANTS
  Projects,
  Records,    \* ids of timing records
  Hours,
  Rates,
  Quantity,   \* what a set of <<record, hours>> amounts to (calcMoney)
  MaxFen,     \* bound of a project's payments and of a write-off
  MaxGroups,  \* bound of the merge groups created
  MaxFlows,   \* bound of the dialogs, saves and merges under way
  None

ASSUME SetsAssumption  == Hours \subseteq Nat \ {0} /\ Rates \subseteq Nat \ {0}
ASSUME QuantityAssumption ==
  Quantity \in [SUBSET (Records \X Hours) -> Nat] /\ Quantity[{}] = 0
ASSUME NoneAssumption ==
  None \notin Records \cup [project : Projects, hours : Hours]
ASSUME BoundAssumption == MaxFen \in Nat /\ MaxGroups \in Nat /\ MaxFlows \in Nat

VARIABLES record, rate, received, off, settled, group, seen, ed, joining, unjudged

books == <<record, rate, received, off, settled, group>>
flows == <<seen, ed, joining>>
vars  == <<record, rate, received, off, settled, group, seen, ed, joining, unjudged>>

Timing   == [project : Projects, hours : Hours]
\* A project's write-offs: how many, their sum, the merge groups their ids name.
WriteOffs == [count : Nat, fen : 0..MaxFen, groups : SUBSET (1..MaxGroups)]
NoneOff   == [count |-> 0, fen |-> 0, groups |-> {}]
\* The active merge group (members {}: none) and the number it was given.
Groups   == [no : 0..MaxGroups, members : SUBSET Projects]
\* The dialog of a project (no = 0) or of a merged one, with the receivables.
Dialogs  == [no : 0..MaxGroups, members : SUBSET Projects,
             receivable : [Projects -> Nat]]
\* A save: of an existing record or (None) a new one, with the rates read.
Saves    == [id : Records \cup {None}, to : Timing, rate : [Projects -> Rates]]

\* The receivable of a project: what its records amount to at its rate.
Receivable(recs, rates, p) ==
  rates[p] * Quantity[{xh \in Records \X Hours : recs[xh[1]] = [project |-> p, hours |-> xh[2]]}]

Due(p)      == Receivable(record, rate, p)
\* What is left to receive of a project with that receivable.
Remaining(p, receivable) == receivable - received[p] - off[p].fen

\* Room for one more flow.
Free == Cardinality({i \in 1..3 : flows[i] # <<None, None, {}>>[i]}) < MaxFlows

\* History: J was judged with true numbers, W changed or was settled without.
Judged(J, W) ==
  unjudged' = {p \in Projects : settled'[p] /\ p \in (unjudged \ J) \cup W}
-----------------------------------------------------------------------------
Init ==
  /\ record   = [x \in Records |-> None]
  /\ rate     \in [Projects -> Rates]
  /\ received = [p \in Projects |-> 0]
  /\ off      = [p \in Projects |-> NoneOff]
  /\ settled  = [p \in Projects |-> FALSE]
  /\ group    = [no |-> 0, members |-> {}]
  /\ seen     = None
  /\ ed       = None
  /\ joining  = {}
  /\ unjudged = {}

\* The screen loads a project, or the merged one of the active group.
Open(no, S) ==
  /\ seen = None /\ Free
  /\ seen' = [no |-> no, members |-> S,
              receivable |-> [p \in Projects |-> IF p \in S THEN Due(p) ELSE 0]]
  /\ UNCHANGED <<books, ed, joining, unjudged>>

OpenProject(p) == Open(0, {p})
OpenMerged     == group.members # {} /\ Open(group.no, group.members)

\* A dialog's action on project p, respectively on a merged project.
Asked(p)    == seen # None /\ seen.no = 0 /\ seen.members = {p}
AskedMerged == seen # None /\ seen.no # 0
Shown(p)    == seen.receivable[p]
Stale(S)    == {p \in S : Shown(p) # Due(p)}

\* One more write-off, for merge group no (0: none).
Adds(o, fen, no) ==
  [count |-> o.count + 1, fen |-> o.fen + fen, groups |-> o.groups \cup ({no} \ {0})]

\* Variant: a second write-off is let in.
RoomForAny(p) == p \in Projects

Room(p) == off[p].count = 0

\* settle: a payment, a write-off or both; settled when nothing remains.
Settle(p, pay, wo) ==
  /\ Asked(p) /\ Shown(p) > 0 /\ pay + wo > 0
  /\ pay + wo <= Remaining(p, Shown(p))
  /\ wo > 0 => Room(p)
  /\ received[p] + pay <= MaxFen
  /\ received' = [received EXCEPT ![p] = @ + pay]
  /\ off' = IF wo = 0 THEN off ELSE [off EXCEPT ![p] = Adds(@, wo, 0)]
  /\ LET covered == Remaining(p, Shown(p)) = pay + wo IN
     /\ settled' = [settled EXCEPT ![p] = @ \/ covered]
     /\ IF covered THEN Judged({p} \ Stale({p}), Stale({p})) ELSE Judged({}, {})
  /\ seen' = None
  /\ UNCHANGED <<record, rate, group, ed, joining>>

\* settleMerged: write-offs allocated to members, each of which is settled when
\* nothing of it remains; when nothing of the whole remains, the other members
\* nothing of which remains are settled too.
SettleMerged(alloc) ==
  /\ AskedMerged
  /\ LET S    == seen.members
         A    == {p \in S : alloc[p] > 0}
         Left(p) == Remaining(p, Shown(p)) - alloc[p]
         done == {p \in A : Left(p) <= 0} \cup
                 {p \in S : MapThenSumSet(Left, S) <= 0 /\ Left(p) <= 0}
     IN
     /\ A # {} /\ \A p \in Projects \ S : alloc[p] = 0
     /\ \A p \in S : ~settled[p] /\ Room(p)
     /\ \A p \in A : Left(p) >= 0
     /\ off' = [p \in Projects |->
          IF p \in A THEN Adds(off[p], alloc[p], seen.no) ELSE off[p]]
     /\ settled' = [p \in Projects |-> settled[p] \/ p \in done]
     /\ Judged(done \ Stale(S), done \cap Stale(S))
  /\ seen' = None
  /\ UNCHANGED <<record, rate, received, group, ed, joining>>

\* The write-offs of the projects in D go; a settled one of them with something
\* left to receive, by the receivable the request carries, is active again.
TakeBack(D) ==
  /\ off' = [p \in Projects |-> IF p \in D THEN NoneOff ELSE off[p]]
  /\ settled' = [p \in Projects |->
       settled[p] /\ ~(p \in D /\ Shown(p) - received[p] > 0)]
  /\ Judged(D \ Stale(D), Stale(D))
  /\ seen' = None
  /\ UNCHANGED <<record, rate, received, group, ed, joining>>

DeleteWriteOff(p) ==
  /\ Asked(p) /\ Shown(p) > 0 /\ off[p].count = 1
  /\ TakeBack({p})

\* The write-offs of that merge group, the only ones of their projects.
DeleteMergedWriteOffs ==
  /\ AskedMerged
  /\ LET D == {p \in seen.members : seen.no \in off[p].groups} IN
     /\ D # {} /\ \A p \in D : off[p].count = 1
     /\ TakeBack(D)

\* revokeSettlementStatus, of a project or of the members of a merged one.
RevokeSettlement ==
  /\ seen # None
  /\ \A p \in seen.members : off[p].count = 0
  /\ settled' = [p \in Projects |-> settled[p] /\ p \notin seen.members]
  /\ Judged({}, {})
  /\ seen' = None
  /\ UNCHANGED <<record, rate, received, off, group, ed, joining>>

\* Payments of a project, or a batch over the members of the group, are created,
\* changed or deleted: received[p] becomes new[p].
WritePayments(S, new) ==
  /\ received' = [p \in Projects |-> IF p \in S THEN new[p] ELSE received[p]]
  /\ settled' = settled
  /\ Judged({}, {p \in S : new[p] < received[p]})
  /\ UNCHANGED <<record, rate, off, group, flows>>

\* A rate of the project is stored, here or by a pull.
ChangeRate(p, r) ==
  /\ rate' = [rate EXCEPT ![p] = r]
  /\ settled' = settled
  /\ Judged({}, {q \in {p} : r > rate[q]})
  /\ UNCHANGED <<record, received, off, group, flows>>

\* A pull writes the row another device pushed, and nothing else.
ApplyRecord(x, row) ==
  /\ record' = [record EXCEPT ![x] = row]
  /\ settled' = settled
  /\ Judged({}, {p \in Projects : Receivable(record', rate, p) > Due(p)})
  /\ UNCHANGED <<rate, received, off, group, flows>>

ApplyProject(p, status) ==
  /\ settled' = [settled EXCEPT ![p] = status]
  /\ Judged({}, {p})
  /\ UNCHANGED <<record, rate, received, off, group, flows>>

\* prepareForSave reads the rates outside the transaction.
PrepareForSave(x, t) ==
  /\ ed = None /\ Free
  /\ x # None => record[x] # None
  /\ ed' = [id |-> x, to |-> t, rate |-> rate]
  /\ UNCHANGED <<books, seen, joining, unjudged>>

\* Variant: only the project the record leaves.
TouchedOld(x) == IF ed.id = None THEN {} ELSE {record[x].project}

\* The projects a save touches: the record's old and new one and, when they
\* differ, all members of a group that one of them is in.
Touched(x) ==
  LET old == IF ed.id = None THEN {} ELSE {record[x].project}
      P   == old \cup {ed.to.project} IN
  IF Cardinality(P) = 2 /\ P \cap group.members # {} THEN P \cup group.members ELSE P

\* shouldRevokeSettlement, with the rates that were prepared.
Revokes(recs, p) ==
  LET due == Receivable(recs, ed.rate, p) IN
  \/ due = 0 /\ received[p] = 0 /\ off[p].fen = 0
  \/ Remaining(p, due) > 0

\* executeWithExecutor: the record, the groups of both projects and the status
\* of the projects touched, in one transaction.
ExecuteSave(x) ==
  /\ ed # None
  /\ IF ed.id = None THEN record[x] = None ELSE x = ed.id /\ record[x] # None
  /\ record' = [record EXCEPT ![x] = ed.to]
  /\ group' = IF ed.id # None /\ record[x].project # ed.to.project
                 /\ {record[x].project, ed.to.project} \cap group.members # {}
              THEN [group EXCEPT !.members = {}] ELSE group
  /\ settled' = [p \in Projects |->
       settled[p] /\ ~(p \in Touched(x) /\ Revokes(record', p))]
  /\ LET fresh == {p \in Touched(x) : ed.rate[p] = rate[p]} IN
     Judged(fresh, Touched(x) \ fresh)
  /\ ed' = None
  /\ UNCHANGED <<rate, received, off, seen, joining>>

\* Members that leave anything behind (external work left out).
Traced(recs, p) ==
  (\E x \in Records : recs[x] # None /\ recs[x].project = p)
    \/ received[p] > 0 \/ off[p].count > 0 \/ settled[p]

\* executeDeleteWithImpact: refused for the last record of a project with
\* payments; takes the write-offs and the settled status along.
DeleteRecord(x) ==
  /\ record[x] # None
  /\ LET p    == record[x].project
         last == \A y \in Records \ {x} : record[y] = None \/ record[y].project # p
         kept == {q \in group.members \ {p} : Traced(record', q)} IN
     /\ ~(last /\ received[p] > 0)
     /\ record' = [record EXCEPT ![x] = None]
     /\ off' = [off EXCEPT ![p] = NoneOff]
     /\ settled' = [settled EXCEPT ![p] = FALSE]
     /\ group' = IF last /\ p \in group.members
                 THEN [group EXCEPT !.members = IF Cardinality(kept) < 2 THEN {} ELSE kept]
                 ELSE group
  /\ Judged({}, {})
  /\ UNCHANGED <<rate, received, flows>>

\* createMergeGroup checks outside the transaction that creates the group.
CheckMerge(S) ==
  /\ joining = {} /\ Free
  /\ Cardinality(S) >= 2
  /\ \A p \in S : ~settled[p] /\ p \notin group.members
  /\ joining' = S
  /\ UNCHANGED <<books, seen, ed, unjudged>>

\* One active group at a time is modelled; MaxGroups bounds their number.
CreateGroup ==
  /\ joining # {} /\ group.members = {} /\ group.no < MaxGroups
  /\ group' = [no |-> group.no + 1, members |-> joining]
  /\ joining' = {}
  /\ UNCHANGED <<record, rate, received, off, settled, seen, ed, unjudged>>

DissolveGroup ==
  /\ group.members # {}
  /\ group' = [group EXCEPT !.members = {}]
  /\ UNCHANGED <<record, rate, received, off, settled, flows, unjudged>>

\* A dialog is closed, a save or a merge fails, or the app is killed: what was
\* read outside a transaction is gone.
Abandon ==
  /\ \/ seen # None /\ seen' = None /\ UNCHANGED <<ed, joining>>
     \/ ed # None /\ ed' = None /\ UNCHANGED <<seen, joining>>
     \/ joining # {} /\ joining' = {} /\ UNCHANGED <<seen, ed>>
  /\ UNCHANGED <<books, unjudged>>

Money == [Projects -> 0..MaxFen]

Next ==
  \/ \E p \in Projects : OpenProject(p) \/ DeleteWriteOff(p)
  \/ OpenMerged
  \/ \E p \in Projects, pay \in 0..MaxFen, wo \in 0..MaxFen : Settle(p, pay, wo)
  \/ \E alloc \in Money : SettleMerged(alloc)
  \/ DeleteMergedWriteOffs
  \/ RevokeSettlement
  \/ \E S \in {{p} : p \in Projects} \cup {group.members} :
       \E new \in [S -> 0..MaxFen] : WritePayments(S, new)
  \/ \E p \in Projects, r \in Rates : ChangeRate(p, r)
  \/ \E x \in Records, row \in Timing \cup {None} : ApplyRecord(x, row)
  \/ \E p \in Projects, status \in BOOLEAN : ApplyProject(p, status)
  \/ \E x \in Records \cup {None}, t \in Timing : PrepareForSave(x, t)
  \/ \E x \in Records : ExecuteSave(x) \/ DeleteRecord(x)
  \/ \E S \in SUBSET Projects : CheckMerge(S)
  \/ CreateGroup
  \/ DissolveGroup
  \/ Abandon

Spec == Init /\ [][Next]_vars
-----------------------------------------------------------------------------
\* The books' tables and the flows' notes have their types.
TypeOK ==
  /\ record   \in [Records -> Timing \cup {None}]
  /\ rate     \in [Projects -> Rates]
  /\ received \in Money
  /\ off      \in [Projects -> WriteOffs]
  /\ settled  \in [Projects -> BOOLEAN]
  /\ group    \in Groups
  /\ seen     \in Dialogs \cup {None}
  /\ ed       \in Saves \cup {None}
  /\ joining  \subseteq Projects
  /\ unjudged \subseteq Projects

\* No project has two write-offs, whichever way they were made.
OneWriteOff == \A p \in Projects : off[p].count <= 1

\* A project is settled with something left to receive only when its payments, its
\* rate or a pulled row were changed since, or a dialog or a save judged it with
\* numbers that were out of date: no transaction that judges leaves one out.
SettledJustified ==
  \A p \in Projects : settled[p] /\ p \notin unjudged => Remaining(p, Due(p)) <= 0

BooksSound == OneWriteOff /\ SettledJustified
=============================================================================
