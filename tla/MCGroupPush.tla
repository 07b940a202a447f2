---------------------------- MODULE MCGroupPush ----------------------------
(* Transactions in the shapes the repositories enqueue: a timing record     *)
(* saved, edited and deleted by itself, and one whose edit reopens two      *)
(* settled projects.                                                        *)
EXTENDS GroupPush

CONSTANTS proj, site, rec

R(e, o) == [ent |-> e, op |-> o]
One(e, o)   == [rows |-> <<R(e, o)>>, grouped |-> FALSE]
Group(rows) == [rows |-> rows, grouped |-> TRUE]

Reopen   == Group(<<R(rec, "update"), R(proj, "update"), R(site, "update")>>)

\* The life of a record ...
MCLife == {One(rec, "create"), One(rec, "update"), One(rec, "delete")}

\* ... with an edit that reopens its projects.
MCRecord == MCLife \cup {Reopen}
=============================================================================
