------------------------------ MODULE LogReplica ------------------------------
(***************************************************************************)
(* What sync promises of a device that only pulls: beside a log that       *)
(* grows at its end, readers go through the log row by row, each at its    *)
(* own pace and from its beginning.  A reader leaves out no row and takes  *)
(* none twice.  A row either becomes the reader's record of that entity,   *)
(* or, if the entity was deleted before and the row brings it back, is set *)
(* aside for the owner.  There are no pages, versions or runs here.        *)
(***************************************************************************)
EXTENDS Naturals, Sequences

CONSTANTS Ids, Bodies, None, Readers

VARIABLES
  log,    \* the rows: an entity and what it is from then on
  pos,    \* how many rows a reader has gone through
  held,   \* a reader's records
  aside   \* the numbers of the rows it has set aside

vars == <<log, pos, held, aside>>

\* A row without a body deletes the entity.
Rows == [ent : Ids, body : Bodies \cup {None}]

Init ==
  /\ log = <<>>
  /\ pos = [r \in Readers |-> 0]
  /\ held \in [Readers -> [Ids -> Bodies \cup {None}]]
  /\ aside = [r \in Readers |-> {}]

\* Somebody's change is logged.
AddRow ==
  /\ \E c \in Rows : log' = Append(log, c)
  /\ UNCHANGED <<pos, held, aside>>

Due(r) == log[pos[r] + 1]

GoOn(r) ==
  /\ pos[r] < Len(log)
  /\ pos' = [pos EXCEPT ![r] = @ + 1]
  /\ UNCHANGED log

Take(r) ==
  /\ GoOn(r)
  /\ held' = [held EXCEPT ![r][Due(r).ent] = Due(r).body]
  /\ UNCHANGED aside

BringsBack(r) ==
  /\ Due(r).body # None
  /\ \E i \in 1..pos[r] : log[i] = [ent |-> Due(r).ent, body |-> None]

SetAside(r) ==
  /\ GoOn(r)
  /\ BringsBack(r)
  /\ aside' = [aside EXCEPT ![r] = @ \cup {pos[r] + 1}]
  /\ UNCHANGED held

Next == AddRow \/ \E r \in Readers : Take(r) \/ SetAside(r)

Spec == Init /\ [][Next]_vars
=============================================================================
