------------------------------ MODULE PushLog ------------------------------
(***************************************************************************)
(* What the cloud sync backend promises its clients, without tables,       *)
(* transactions or threads: an account's log is one sequence.  A push      *)
(* takes effect in one step, as a whole or not at all, and its answer is   *)
(* what that step did; a pull is a stretch of the log as it is.  SyncServer *)
(* implements this (SyncServerLog!ImplementsLog).                          *)
(*                                                                         *)
(* There are no heads and no stored numbers here: the server_seq of an     *)
(* entry is its position, the version of an entity the number of its       *)
(* entries.                                                                *)
(***************************************************************************)
EXTENDS Naturals, Sequences, FiniteSets

CONSTANTS Handlers, Accounts, Batches, MaxBatch, Sinces, None

VARIABLES
  log,      \* log[a]: the changes of account a, oldest first
  asked,    \* asked[h]: the push h works on, or None
  answer    \* answer[h]: what h has answered, or None

vars == <<log, asked, answer>>

Entry(c) == [ent |-> c.ent, hash |-> c.hash, del |-> c.del]

\* The version entity e has after the first n entries of L.
VersionAt(L, n, e) == Cardinality({k \in 1..n : L[k].ent = e})

Error == [kind |-> "error"]
Pushed(o) == [kind |-> "push", accepted |-> o.accepted, conflicts |-> o.conflicts]
Pulled(entries, next) == [kind |-> "pull", entries |-> entries, next |-> next]

\* Where the payload of c is already logged for its entity, and how it is
\* acknowledged.
Known(L, c) == {n \in DOMAIN L : L[n].ent = c.ent /\ L[n].hash = c.hash}
Acks(L, c)  == {[ent |-> c.ent, seq |-> n, ver |-> VersionAt(L, n, c.ent)] : n \in Known(L, c)}

\* What the outcome o of the changes before it and change c come to: a
\* payload already logged for the entity is acknowledged where it stands,
\* one based on another version than the last is a conflict, any other is
\* appended.
Consider(o, c) ==
  LET L   == o.log
      ver == VersionAt(L, Len(L), c.ent)
  IN CASE Known(L, c) # {} ->
            [o EXCEPT !.accepted = @ \cup Acks(L, c)]
       [] Known(L, c) = {} /\ c.base # ver ->
            [o EXCEPT !.conflicts = @ \cup {[ent |-> c.ent, ver |-> ver]}]
       [] OTHER ->
            [log       |-> Append(L, Entry(c)),
             accepted  |-> o.accepted \cup {[ent |-> c.ent, seq |-> Len(L) + 1, ver |-> ver + 1]},
             conflicts |-> o.conflicts]

\* Outcomes(L, batch)[n] is what the first n changes come to over log L.
Outcomes(L, batch) ==
  LET done[n \in 0..Len(batch)] ==
        IF n = 0 THEN [log |-> L, accepted |-> {}, conflicts |-> {}]
        ELSE Consider(done[n - 1], batch[n])
  IN done

Outcome(L, batch) == Outcomes(L, batch)[Len(batch)]
-----------------------------------------------------------------------------
Init ==
  /\ log = [a \in Accounts |-> <<>>]
  /\ asked = [h \in Handlers |-> None]
  /\ answer = [h \in Handlers |-> None]

Idle(h) == asked[h] = None /\ answer[h] = None

AskPush(h, a, batch) ==
  /\ Idle(h)
  /\ asked' = [asked EXCEPT ![h] = [acct |-> a, batch |-> batch]]
  /\ UNCHANGED <<log, answer>>

\* The whole batch takes effect, and the answer says what it did.
Push(h) ==
  /\ asked[h] # None
  /\ Len(asked[h].batch) <= MaxBatch
  /\ LET a == asked[h].acct
         o == Outcome(log[a], asked[h].batch) IN
       /\ log' = [log EXCEPT ![a] = o.log]
       /\ answer' = [answer EXCEPT ![h] = Pushed(o)]
  /\ asked' = [asked EXCEPT ![h] = None]

\* Nothing of it does.
Refuse(h) ==
  /\ asked[h] # None
  /\ asked' = [asked EXCEPT ![h] = None]
  /\ answer' = [answer EXCEPT ![h] = Error]
  /\ UNCHANGED log

\* The entries after since, up to some cursor: all of them or a first part,
\* and never an empty part while there are any.
Pull(h, a, since) ==
  /\ Idle(h)
  /\ \E next \in since..(IF since < Len(log[a]) THEN Len(log[a]) ELSE since) :
       /\ since < Len(log[a]) => since < next
       /\ answer' = [answer EXCEPT ![h] =
                       Pulled(SubSeq(log[a], since + 1, next), next)]
  /\ UNCHANGED <<log, asked>>

Finish(h) ==
  /\ answer[h] # None
  /\ answer' = [answer EXCEPT ![h] = None]
  /\ UNCHANGED <<log, asked>>

\* Whatever was not answered is lost; the log is not.
Crash ==
  /\ asked' = [h \in Handlers |-> None]
  /\ answer' = [h \in Handlers |-> None]
  /\ UNCHANGED log

Next ==
  \/ \E h \in Handlers :
       \/ Push(h) \/ Refuse(h) \/ Finish(h)
       \/ \E a \in Accounts :
            \/ \E b \in Batches : AskPush(h, a, b)
            \/ \E since \in Sinces : Pull(h, a, since)
  \/ Crash

Spec == Init /\ [][Next]_vars
=============================================================================
