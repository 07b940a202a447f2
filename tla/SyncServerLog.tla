---------------------------- MODULE SyncServerLog ----------------------------
(***************************************************************************)
(* SyncServer implements PushLog: the refinement mapping.  The abstract    *)
(* log of an account is its committed rows by server_seq; a push is asked  *)
(* for from its arrival to its answer.  Its transaction is one step of the *)
(* abstract log, the commit.                                               *)
(***************************************************************************)
EXTENDS SyncServer

\* A history variable: the batch a thread was asked to push, of which todo
\* keeps only what is left.
VARIABLE batchOf

lvars == <<vars, batchOf>>

LogInit == Init /\ batchOf = [h \in Handlers |-> <<>>]

LogNext ==
  /\ Next
  /\ batchOf' = [h \in Handlers |->
       CASE pc[h] = "idle" /\ pc'[h] = "begin" -> todo'[h]
         [] pc'[h] \in {"idle", "done"}        -> <<>>
         [] OTHER                              -> batchOf[h]]

LogSpec == LogInit /\ [][LogNext]_lvars
FairLogSpec == LogSpec /\ Fairness

\* The abstract log of a table: its rows by server_seq.
Entries  == [ent : Entities, hash : Hashes, del : BOOLEAN]
Entry(r) == [ent |-> r.ent, hash |-> r.hash, del |-> r.del]
LogOf(S) == [n \in 1..MaxSeq(S) |-> Entry(CHOOSE r \in S : r.seq = n)]

\* A page as a stretch of the log, its first row at since + 1.
StretchOf(S, since) == LogOf({[r EXCEPT !.seq = @ - since] : r \in S})

AnswerOf(r) ==
  CASE r.kind = "push"  -> [kind |-> "push", accepted |-> r.accepted, conflicts |-> r.conflicts]
    [] r.kind = "pull"  -> [kind |-> "pull", entries |-> StretchOf(r.page, r.since), next |-> r.next]
    [] r.kind = "error" -> [kind |-> "error"]

\* What None is none of: a push that is asked for, an answer.
Asked   == [acct : Accounts, batch : Batches]
Answers ==
  {[kind |-> "error"]}
    \cup [kind : {"push"}, accepted : SUBSET Accepted, conflicts : SUBSET Conflict]
    \cup [kind : {"pull"}, entries : Seq(Entries), next : Nat]

ASSUME NoneIsNothing == None \notin Asked \cup Answers

Log == INSTANCE PushLog WITH
  log    <- [a \in Accounts |-> LogOf(changes[a])],
  asked  <- [h \in Handlers |-> IF pc[h] \in {"begin", "writing"}
                                THEN [acct |-> acct[h], batch |-> batchOf[h]]
                                ELSE None],
  answer <- [h \in Handlers |-> IF pc[h] = "done" THEN AnswerOf(reply[h]) ELSE None]

\* The backend implements the log it promises: seen from outside, a push of
\* several inserts in a transaction, among other threads, rollbacks and
\* crashes, is one step that applies all of its batch to the log as it then
\* is, or none of it, and the answer says exactly what that step did.
ImplementsLog == Log!Spec
=============================================================================
