----------------------- MODULE EntitlementStoreProofs -----------------------
(***************************************************************************)
(* Proofs about EntitlementStore, for every set of threads, tokens,        *)
(* products and states of a subscription.                                  *)
(*                                                                         *)
(* No lock protects a row between reading, asking Apple and writing, so    *)
(* the argument never says that a row is recent: what a thread carries     *)
(* was granted by Apple once (Earned), which stays true however long the   *)
(* thread sleeps, and Apple was in that state while the request ran        *)
(* (Witnessed).  The last section is about what Apple is taken to answer,  *)
(* for every list of statuses and every failure.                           *)
(***************************************************************************)
EXTENDS EntitlementLookup, TLAPS

Facts == INSTANCE AppleLookupProofs WITH Bundle <- App, Allowed <- Products

\* A row grants its token only what Apple has granted that token, and a row
\* Apple cannot be asked for grants nothing.
Earned(t, r) ==
  r # None => /\ Tier(r) \in granted[t] \cup {None}
              /\ ~r.known => Tier(r) = None

\* What Apple entitles a token to now it has granted.
AppleNoted == \A t \in Owners :
  apple[t] # None => Entitles(apple[t]) \in granted[t] \cup {None}

Answers(q) ==
  \/ Tier(q.row) \in {Entitles(a) : a \in q.during} \cup {None}
  \/ \E a \in q.during : a = None \/ a.product # q.row.product

\* A request has seen the state Apple is in, and answers for the row it holds.
Witnessed(q) ==
  q # Idle =>
    /\ apple[q.token] \in q.during
    /\ Earned(q.token, q.row)
    /\ q.pc = "verify" => q.product \in Products
    /\ q.pc = "refresh" => q.row # None
    /\ q.pc = "store" => /\ q.row # None
                         /\ Tier(q.row) \in {Entitles(a) : a \in q.during} \cup {None}
    /\ q.pc = "answered" /\ q.row # None => Answers(q)

IInv ==
  /\ TypeOK
  /\ AppleNoted
  /\ \A t \in Tokens : Earned(t, store[t])
  /\ \A h \in Handlers : Witnessed(req[h])
-----------------------------------------------------------------------------
\* A request is idle or has all its fields.
LEMMA RequestFields ==
  ASSUME TypeOK, NEW h \in Handlers, req[h].pc # "idle"
  PROVE  req[h] \in Request /\ req[h] # Idle /\ req[h].token \in Owners
BY TokensAssumption DEF TypeOK, Idle, Request

\* None is not a row, and neither is the idle request a request.
LEMMA Apart ==
  /\ \A q \in Request : q # Idle /\ q.pc # "idle"
  /\ Idle.pc = "idle"
BY DEF Request, Idle

\* The record made of a subscription grants what the subscription entitles to,
\* and the record of a failed verification grants nothing.
LEMMA MappedTier ==
  /\ \A a \in States : /\ Mapped(a) \in Stored /\ Mapped(a).known
                       /\ Tier(Mapped(a)) = Entitles(a)
  /\ \A p \in Products : Failed(p) \in Stored /\ Tier(Failed(p)) = None
<1>1. ASSUME NEW a \in States
      PROVE  /\ Mapped(a) \in Stored /\ Mapped(a).known
             /\ Tier(Mapped(a)) = Entitles(a)
  <2>1. a \in Subscription /\ a # None
    BY StatesAssumption, NoneAssumption
  <2>2. a.status \in 1..5 /\ a.product \in Products /\ a.revoked \in BOOLEAN
    BY <2>1 DEF Subscription
  <2>3. CASE a.revoked
    BY <2>1, <2>2, <2>3 DEF Mapped, Outcome, Outcomes, Stored, Tier, Entitles
  <2>4. CASE ~a.revoked
    <3>1. \/ a.status = 1 /\ Outcome(a) = "active"
          \/ a.status = 2 /\ Outcome(a) = "expired"
          \/ a.status = 3 /\ Outcome(a) = "billingRetry"
          \/ a.status = 4 /\ Outcome(a) = "grace"
          \/ a.status = 5 /\ Outcome(a) = "revoked"
      BY <2>2, <2>4 DEF Outcome
    <3> QED BY <2>1, <2>2, <2>4, <3>1 DEF Mapped, Outcomes, Stored, Tier, Entitles
  <2> QED BY <2>2, <2>3, <2>4
<1>2. ASSUME NEW p \in Products
      PROVE  Failed(p) \in Stored /\ Tier(Failed(p)) = None
  BY DEF Failed, Stored, Tier
<1> QED BY <1>1, <1>2
-----------------------------------------------------------------------------
\* A step of one thread keeps the invariant when what it now holds and what it
\* wrote are right.
LEMMA ThreadStep ==
  ASSUME IInv, NEW h \in Handlers, NEW q \in Request \cup {Idle},
         req' = [req EXCEPT ![h] = q], UNCHANGED atApple,
         verifies' \in 0..MaxVerifies,
         store' \in [Tokens -> Stored \cup {None}],
         \A t \in Tokens : Earned(t, store'[t]),
         Witnessed(q)
  PROVE  IInv'
<1>1. UNCHANGED <<apple, changes, bought, granted>>
  BY DEF atApple
<1>2. TypeOK' /\ AppleNoted'
  BY <1>1 DEF IInv, TypeOK, AppleNoted, Entitles
<1>3. (\A t \in Tokens : Earned(t, store[t]))'
  BY <1>1 DEF Earned, Tier
<1>4. ASSUME NEW g \in Handlers PROVE Witnessed(req[g])'
  <2>1. req'[g] = IF g = h THEN q ELSE req[g]
    BY DEF IInv, TypeOK
  <2>2. Witnessed(req[g]) /\ Witnessed(q)
    BY DEF IInv
  <2> QED BY <1>1, <2>1, <2>2 DEF Witnessed, Earned, Answers, Tier, Entitles
<1> QED BY <1>2, <1>3, <1>4 DEF IInv

\* Going on with row r, which Apple stands for, keeps the invariant.
LEMMA GotoStep ==
  ASSUME IInv, NEW h \in Handlers, req[h].pc # "idle",
         NEW p \in {"store", "answered", "error"}, NEW r \in Stored \cup {None},
         Goto(h, p, r), UNCHANGED <<atApple, verifies>>,
         store' \in [Tokens -> Stored \cup {None}],
         \A t \in Tokens : Earned(t, store'[t]),
         Earned(req[h].token, r),
         p = "store" => /\ r # None
                        /\ Tier(r) \in {Entitles(a) : a \in req[h].during} \cup {None},
         p = "answered" /\ r # None =>
           \/ Tier(r) \in {Entitles(a) : a \in req[h].during} \cup {None}
           \/ \E a \in req[h].during : a = None \/ a.product # r.product
  PROVE  IInv'
<1>1. req[h] \in Request /\ req[h] # Idle
  BY RequestFields DEF IInv
<1>2. PICK q : q = [req[h] EXCEPT !.pc = p, !.row = r]
  OBVIOUS
<1>3. /\ q \in Request /\ q.pc = p /\ q.row = r
      /\ q.token = req[h].token /\ q.during = req[h].during
  BY <1>1, <1>2 DEF Request
<1>4. apple[q.token] \in q.during
  BY <1>1, <1>3 DEF IInv, Witnessed
<1>5. Witnessed(q)
  BY <1>3, <1>4 DEF Witnessed, Answers
<1>6. req' = [req EXCEPT ![h] = q] /\ verifies' \in 0..MaxVerifies
  BY <1>2 DEF Goto, IInv, TypeOK
<1> QED BY <1>3, <1>5, <1>6, ThreadStep

\* The steps in which a request comes keep the invariant.
LEMMA ArrivalSteps ==
  ASSUME IInv, NEW h \in Handlers, NEW t \in Tokens,
         Current(h, t) \/ \E o \in Owners \cup {None}, p \in Products : Verify(h, t, o, p)
  PROVE  IInv'
<1>1. t \in Owners /\ apple[t] \in States \cup {None}
  BY TokensAssumption DEF IInv, TypeOK
<1>2. store[t] \in Stored \cup {None} /\ Earned(t, store[t])
  BY DEF IInv, TypeOK
<1>3. CASE Current(h, t)
  <2>1. PICK q : q = [pc |-> IF store[t] = None THEN "answered" ELSE "refresh", token |-> t,
                      owner |-> None, product |-> None, row |-> store[t],
                      during |-> {apple[t]}]
    OBVIOUS
  <2>2. /\ q \in Request /\ q.token = t /\ q.row = store[t] /\ q.during = {apple[t]}
        /\ q.pc = IF store[t] = None THEN "answered" ELSE "refresh"
    BY <1>1, <1>2, <2>1 DEF Request
  <2>3. Witnessed(q)
    BY <1>2, <2>2 DEF Witnessed
  <2>4. req' = [req EXCEPT ![h] = q] /\ UNCHANGED <<atApple, store, verifies>>
    BY <1>3, <2>1 DEF Current
  <2> QED BY <2>2, <2>3, <2>4, ThreadStep DEF IInv, TypeOK
<1>4. CASE \E o \in Owners \cup {None}, p \in Products : Verify(h, t, o, p)
  <2>1. PICK o \in Owners \cup {None}, p \in Products : Verify(h, t, o, p)
    BY <1>4
  <2>2. PICK q : q = [pc |-> "verify", token |-> t, owner |-> o, product |-> p,
                      row |-> None, during |-> {apple[t]}]
    OBVIOUS
  <2>3. /\ q \in Request /\ q.token = t /\ q.product = p /\ q.row = None
        /\ q.pc = "verify" /\ q.during = {apple[t]}
    BY <1>1, <2>2 DEF Request
  <2>4. Witnessed(q)
    BY <2>3 DEF Witnessed, Earned
  <2>5. req' = [req EXCEPT ![h] = q] /\ UNCHANGED <<atApple, store>>
    BY <2>1, <2>2 DEF Verify
  <2>6. verifies' \in 0..MaxVerifies
    BY <2>1, BoundAssumption DEF Verify, IInv, TypeOK
  <2> QED BY <2>3, <2>4, <2>5, <2>6, ThreadStep DEF IInv, TypeOK
<1> QED BY <1>3, <1>4

\* The steps of a request that asks Apple keep the invariant: the state it is
\* answered from is the one Apple is in at that moment.
LEMMA AskSteps ==
  ASSUME IInv, NEW h \in Handlers, AppleDown(h) \/ Asked(h)
  PROVE  IInv'
<1> DEFINE t == req[h].token
<1>1. req[h].pc \in {"verify", "refresh"}
  BY DEF AppleDown, Asked, VerifyMaps, VerifyFails, RefreshMaps, RefreshKeeps, At
<1>2. /\ req[h] \in Request /\ req[h] # Idle /\ req[h].pc # "idle" /\ t \in Owners
      /\ apple[t] \in States \cup {None}
  BY <1>1, RequestFields DEF IInv, TypeOK
<1>3. apple[t] \in req[h].during /\ Earned(t, req[h].row)
  BY <1>2 DEF IInv, Witnessed
<1>4. store \in [Tokens -> Stored \cup {None}] /\ \A k \in Tokens : Earned(k, store[k])
  BY DEF IInv, TypeOK
<1>5. ASSUME apple[t] # None
      PROVE  /\ Mapped(apple[t]) \in Stored /\ Earned(t, Mapped(apple[t]))
             /\ Tier(Mapped(apple[t])) = Entitles(apple[t])
  BY <1>2, <1>5, MappedTier DEF IInv, AppleNoted, Earned
<1>6. None \notin Stored
  BY NoneAssumption
<1>7. CASE AppleDown(h)
  <2>1. Goto(h, "error", None) /\ UNCHANGED <<atApple, store, verifies>>
    BY <1>7 DEF AppleDown
  <2> QED BY <1>2, <1>4, <2>1, GotoStep DEF Earned
<1>8. CASE VerifyMaps(h)
  <2>1. /\ Goto(h, "store", Mapped(apple[t])) /\ apple[t] # None
        /\ UNCHANGED <<atApple, store, verifies>>
    BY <1>8 DEF VerifyMaps, Matches, Candidate
  <2> QED BY <1>2, <1>3, <1>4, <1>5, <1>6, <2>1, GotoStep
<1>9. CASE VerifyFails(h)
  <2> DEFINE r == Failed(req[h].product)
  <2>1. Goto(h, "store", r) /\ UNCHANGED <<atApple, store, verifies>>
    BY <1>9 DEF VerifyFails
  <2>2. r \in Stored /\ Tier(r) = None
    BY <1>2, <1>9, MappedTier DEF IInv, Witnessed, VerifyFails, At
  <2> QED BY <1>2, <1>4, <1>6, <2>1, <2>2, GotoStep DEF Earned
<1>10. CASE RefreshMaps(h)
  <2>1. /\ Goto(h, "store", Mapped(apple[t])) /\ apple[t] # None
        /\ UNCHANGED <<atApple, store, verifies>>
    BY <1>10 DEF RefreshMaps, Candidate
  <2> QED BY <1>2, <1>3, <1>4, <1>5, <1>6, <2>1, GotoStep
<1>11. CASE RefreshKeeps(h)
  <2>1. /\ Goto(h, "answered", req[h].row) /\ UNCHANGED <<atApple, store, verifies>>
        /\ ~(req[h].row.known /\ Candidate(apple[t], req[h].row.product))
        /\ req[h].pc = "refresh"
    BY <1>11 DEF RefreshKeeps, At
  <2>2. req[h].row \in Stored
    BY <1>2, <2>1 DEF IInv, Witnessed, Request
  <2>3. \/ Tier(req[h].row) = None
        \/ apple[t] = None \/ apple[t].product # req[h].row.product
    BY <1>3, <1>6, <2>1, <2>2 DEF Earned, Candidate
  <2> QED BY <1>2, <1>3, <1>4, <2>1, <2>2, <2>3, GotoStep
<1> QED BY <1>7, <1>8, <1>9, <1>10, <1>11 DEF Asked

\* Writing the row, or failing to, and ending a request keep the invariant.
LEMMA WriteSteps ==
  ASSUME IInv, NEW h \in Handlers, Upsert(h) \/ UpsertFails(h) \/ Finish(h)
  PROVE  IInv'
<1> DEFINE t == req[h].token
<1>1. req[h] \in Request /\ req[h] # Idle /\ req[h].pc # "idle" /\ t \in Tokens
  <2>1. req[h].pc # "idle"
    BY DEF Upsert, UpsertFails, Finish, At
  <2> QED BY <2>1, RequestFields DEF IInv, Request
<1>2. store \in [Tokens -> Stored \cup {None}] /\ \A k \in Tokens : Earned(k, store[k])
  BY DEF IInv, TypeOK
<1>3. CASE Upsert(h)
  <2> DEFINE r == req[h].row
  <2>1. /\ store' = [store EXCEPT ![t] = r] /\ Goto(h, "answered", r)
        /\ UNCHANGED <<atApple, verifies>> /\ req[h].pc = "store"
    BY <1>3 DEF Upsert, At
  <2>2. /\ r \in Stored /\ Earned(t, r)
        /\ Tier(r) \in {Entitles(a) : a \in req[h].during} \cup {None}
    BY <1>1, <2>1 DEF IInv, Witnessed, Request
  <2>3. store' \in [Tokens -> Stored \cup {None}]
    BY <1>2, <2>1, <2>2
  <2>4. \A k \in Tokens : Earned(k, store'[k])
    BY <1>1, <1>2, <2>1, <2>2
  <2> HIDE DEF r
  <2> QED BY <1>1, <2>1, <2>2, <2>3, <2>4, GotoStep
<1>4. CASE UpsertFails(h)
  <2>1. Goto(h, "error", None) /\ UNCHANGED <<atApple, store, verifies>>
    BY <1>4 DEF UpsertFails
  <2> QED BY <1>1, <1>2, <2>1, GotoStep DEF Earned
<1>5. CASE Finish(h)
  <2>1. req' = [req EXCEPT ![h] = Idle] /\ UNCHANGED <<atApple, store, verifies>>
    BY <1>5 DEF Finish
  <2>2. Witnessed(Idle)
    BY DEF Witnessed
  <2> QED BY <1>2, <2>1, <2>2, ThreadStep DEF IInv, TypeOK
<1> QED BY <1>3, <1>4, <1>5

\* A change at Apple keeps the invariant: what was granted stays granted, and
\* every request of the token sees the new state.
LEMMA AppleStep ==
  ASSUME IInv, NEW t \in Owners, NEW a \in States, AppleChanges(t, a)
  PROVE  IInv'
<1>1. /\ apple' = [apple EXCEPT ![t] = a]
      /\ granted' = [granted EXCEPT ![t] = @ \cup {Entitles(a)}]
      /\ bought' = [bought EXCEPT ![t] = @ \cup {a.product}]
      /\ req' = [h \in Handlers |->
                  IF req[h] # Idle /\ req[h].token = t
                  THEN [req[h] EXCEPT !.during = @ \cup {a}] ELSE req[h]]
      /\ UNCHANGED <<store, verifies>>
  BY DEF AppleChanges
<1>2. changes' \in 0..MaxChanges
  BY BoundAssumption DEF AppleChanges, IInv, TypeOK
<1>3. a.product \in Products /\ Entitles(a) \in Products \cup {None}
  BY StatesAssumption DEF Subscription, Entitles
<1>4. \A o \in Owners : granted[o] \subseteq granted'[o]
  BY <1>1 DEF IInv, TypeOK
<1>5. ASSUME NEW o \in Owners, NEW r, Earned(o, r) PROVE Earned(o, r)'
  BY <1>4, <1>5 DEF Earned, Tier
<1>6. ASSUME NEW h \in Handlers
      PROVE  \/ req'[h] = Idle /\ req[h] = Idle
             \/ /\ req[h] \in Request /\ req[h] # Idle /\ req'[h] \in Request
                /\ req'[h].token = req[h].token /\ req'[h].row = req[h].row
                /\ req'[h].pc = req[h].pc /\ req'[h].product = req[h].product
                /\ req[h].during \subseteq req'[h].during
                /\ req[h].token = t => a \in req'[h].during
  <2>1. CASE req[h] = Idle
    BY <1>1, <2>1
  <2>2. CASE req[h] # Idle
    <3>1. req[h] \in Request
      BY <2>2 DEF IInv, TypeOK
    <3>2. CASE req[h].token = t
      BY <1>1, <2>2, <3>1, <3>2 DEF Request
    <3>3. CASE req[h].token # t
      BY <1>1, <2>2, <3>1, <3>3
    <3> QED BY <3>2, <3>3
  <2> QED BY <2>1, <2>2
<1>7. TypeOK'
  <2>1. req' \in [Handlers -> Request \cup {Idle}]
    BY <1>1, <1>6
  <2> QED BY <1>1, <1>2, <1>3, <2>1 DEF IInv, TypeOK
<1>8. AppleNoted'
  BY <1>1 DEF IInv, TypeOK, AppleNoted, Entitles
<1>9. (\A k \in Tokens : Earned(k, store[k]))'
  BY <1>1, <1>5, TokensAssumption DEF IInv
<1>10. ASSUME NEW h \in Handlers, req'[h] # Idle PROVE Witnessed(req[h])'
  <2>1. /\ req[h] \in Request /\ req[h] # Idle /\ req'[h] \in Request
        /\ req'[h].token = req[h].token /\ req'[h].row = req[h].row
        /\ req'[h].pc = req[h].pc /\ req'[h].product = req[h].product
        /\ req[h].during \subseteq req'[h].during
        /\ req[h].token = t => a \in req'[h].during
    BY <1>6, <1>10
  <2>2. Witnessed(req[h]) /\ req[h].token \in Owners
    BY <2>1, TokensAssumption DEF IInv, Request
  <2>3. apple'[req'[h].token] \in req'[h].during
    BY <1>1, <2>1, <2>2 DEF Witnessed, IInv, TypeOK
  <2>4. Earned(req[h].token, req[h].row)'
    BY <1>5, <2>1, <2>2 DEF Witnessed, Earned, Tier
  <2>5. {Entitles(b) : b \in req[h].during} \subseteq {Entitles(b) : b \in req'[h].during}
    BY <2>1
  <2> QED BY <2>1, <2>2, <2>3, <2>4, <2>5 DEF Witnessed, Answers, Tier, Entitles
<1> QED BY <1>7, <1>8, <1>9, <1>10 DEF IInv, Witnessed

\* The inductive invariant holds in every state of the backend.
THEOREM Invariance == Spec => []IInv
<1>1. Init => IInv
  BY BoundAssumption DEF Init, IInv, TypeOK, AppleNoted, Earned, Witnessed
<1>2. IInv /\ [Next]_vars => IInv'
  <2> SUFFICES ASSUME IInv, [Next]_vars PROVE IInv'
    OBVIOUS
  <2>1. ASSUME NEW t \in Owners, NEW a \in States, AppleChanges(t, a) PROVE IInv'
    BY <2>1, AppleStep
  <2>2. ASSUME NEW h \in Handlers, NEW t \in Tokens,
               Current(h, t) \/ \E o \in Owners \cup {None}, p \in Products : Verify(h, t, o, p)
        PROVE  IInv'
    BY <2>2, ArrivalSteps
  <2>3. ASSUME NEW h \in Handlers,
               AppleDown(h) \/ Asked(h) \/ Upsert(h) \/ UpsertFails(h) \/ Finish(h)
        PROVE  IInv'
    BY <2>3, AskSteps, WriteSteps
  <2>4. CASE UNCHANGED vars
    BY <2>4 DEF vars, IInv, TypeOK, AppleNoted, Earned, Witnessed, Answers, Tier, Entitles
  <2> QED BY <2>1, <2>2, <2>3, <2>4 DEF Next
<1> QED BY <1>1, <1>2, PTL DEF Spec

\* The type invariant of the entitlements holds in every state.
THEOREM TypeCorrect == Spec => []TypeOK
BY Invariance, PTL DEF IInv

\* Whatever threads write over one another, no row grants a token what Apple
\* never granted to it.
THEOREM GrantOwnedCorrect == Spec => []GrantOwned
<1>1. IInv => GrantOwned
  BY DEF IInv, GrantOwned, Earned
<1> QED BY <1>1, Invariance, PTL

\* An answer grants what Apple granted while the request ran, except for a row
\* whose product Apple has replaced.
THEOREM GrantTrueCorrect == Spec => []GrantTrue
<1>1. IInv => GrantTrue
  <2> SUFFICES ASSUME IInv, NEW h \in Handlers, req[h] # Idle, At(h, "answered"),
                      req[h].row # None
               PROVE  \/ Tier(req[h].row) \in {Entitles(a) : a \in req[h].during} \cup {None}
                      \/ OtherProduct(h)
    BY DEF GrantTrue
  <2> QED BY DEF IInv, Witnessed, Answers, At, OtherProduct
<1> QED BY <1>1, Invariance, PTL
-----------------------------------------------------------------------------
(* What Apple is taken to answer.  Trouble spoils a verdict or leaves it as *)
(* a calm Apple would have it (AppleLookupProofs), and a calm Apple's list   *)
(* comes down to its latest item.                                           *)

\* The same operators by the names of the two instances.
LEMMA SameLookups ==
  ASSUME NEW x, NEW known, NEW t, NEW p, NEW items, NEW api, NEW tr
  PROVE  /\ Facts!VerifyPurchase(x, t, p, items, api, tr)
              = Lookups!VerifyPurchase(x, t, p, items, api, tr)
         /\ Facts!RefreshCurrentEntitlement(known, t, p, items, api, tr)
              = Lookups!RefreshCurrentEntitlement(known, t, p, items, api, tr)
BY DEF Facts!VerifyPurchase, Lookups!VerifyPurchase, Facts!RefreshCurrentEntitlement,
       Lookups!RefreshCurrentEntitlement, Facts!Lookup, Lookups!Lookup,
       Facts!MapBestStatus, Lookups!MapBestStatus, Facts!ItemVerdict, Lookups!ItemVerdict,
       Facts!VerifyTransaction, Lookups!VerifyTransaction, Facts!VerifyIn, Lookups!VerifyIn,
       Facts!VerifyRenewal, Lookups!VerifyRenewal, Facts!Ours, Lookups!Ours,
       Facts!Errors, Lookups!Errors, Facts!Best, Lookups!Best,
       Facts!SortsBelow, Lookups!SortsBelow, Facts!MapState, Lookups!MapState,
       Facts!ExpiresAt, Lookups!ExpiresAt, Facts!MatchesRequest, Lookups!MatchesRequest

\* No trouble at any call.
Quiet(items) == [i \in {0} \cup DOMAIN items |-> [e \in Lookups!Environments |-> "none"]]

LEMMA SpoiltOrQuiet ==
  ASSUME NEW x, NEW known \in BOOLEAN, NEW t, NEW p, NEW items \in StatusLists, NEW api,
         NEW tr \in Failures
  PROVE  /\ \/ Lookups!VerifyPurchase(x, t, p, items, api, tr)
                 = Lookups!VerifyPurchase(x, t, p, items, "up", Quiet(items))
            \/ Lookups!VerifyPurchase(x, t, p, items, api, tr).verdict = "unavailable"
         /\ \/ Lookups!RefreshCurrentEntitlement(known, t, p, items, api, tr)
                 = Lookups!RefreshCurrentEntitlement(known, t, p, items, "up", Quiet(items))
            \/ Lookups!RefreshCurrentEntitlement(known, t, p, items, api, tr).verdict
                 = "unavailable"
<1>1. DOMAIN items \subseteq Nat
  BY ListsAssumption
<1>2. \A i \in Facts!Calls(items) : Facts!Possible(tr[i]) /\ Facts!Calm(Quiet(items)[i])
  BY FailuresAssumption DEF Facts!Calls, Facts!Possible, Facts!Calm, Facts!Environments,
     Lookups!Environments, Facts!Troubles, Lookups!Troubles, Quiet
<1>3. \/ Facts!VerifyPurchase(x, t, p, items, api, tr)
           = Facts!VerifyPurchase(x, t, p, items, "up", Quiet(items))
      \/ Facts!VerifyPurchase(x, t, p, items, api, tr).verdict = "unavailable"
  BY <1>1, <1>2, Facts!PurchaseNeutral
<1>4. \/ Facts!RefreshCurrentEntitlement(known, t, p, items, api, tr)
           = Facts!RefreshCurrentEntitlement(known, t, p, items, "up", Quiet(items))
      \/ Facts!RefreshCurrentEntitlement(known, t, p, items, api, tr).verdict = "unavailable"
  BY <1>1, <1>2, Facts!RefreshNeutral
<1> QED BY <1>3, <1>4, SameLookups

\* A calm Apple's signature is accepted, whichever environment it is of.
LEMMA QuietTransaction ==
  ASSUME NEW e \in Lookups!Environments, NEW x, NEW t, NEW p, SignedFor(x, e, t, p),
         NEW tr, \A d \in Lookups!Environments : tr[d] = "none"
  PROVE  Lookups!VerifyTransaction(x, tr) = "ok"
<1>1. tr["Sandbox"] = "none" /\ tr["Production"] = "none"
  BY DEF Lookups!Environments
<1> QED BY <1>1 DEF SignedFor, Lookups!Environments, Lookups!VerifyTransaction, Lookups!VerifyIn

\* An item of token t is a candidate if it is of the product and, in a
\* purchase, of the original transaction asked for; others are passed over.
LEMMA QuietItem ==
  ASSUME NEW e \in Lookups!Environments, NEW items, NEW t, NEW p \in Products,
         AllFor(items, e, t, p), NEW i \in DOMAIN items, NEW q, NEW orig
  PROVE  Lookups!ItemVerdict(items[i], t, q, orig, Quiet(items)[i])
           = IF (orig # None /\ items[i].transaction.orig # orig) \/ p # q
             THEN "skip" ELSE "candidate"
<1> DEFINE tr == Quiet(items)[i]
           x  == items[i].transaction
<1>1. \A d \in Lookups!Environments : tr[d] = "none"
  BY DEF Quiet
<1>2. items[i].status # 0 /\ SignedFor(x, e, t, p)
  BY DEF AllFor
<1> HIDE DEF tr
<1>3. Lookups!VerifyTransaction(x, tr) = "ok"
  BY <1>1, <1>2, QuietTransaction
<1>4. Lookups!VerifyRenewal(items[i].renewal, x.signer, tr) = "ok"
  BY <1>1, <1>2 DEF AllFor, SignedFor, Lookups!VerifyRenewal
<1>5. x.product = p /\ Lookups!Ours(x, t)
  BY <1>2 DEF SignedFor, Lookups!Ours
<1> QED BY <1>2, <1>3, <1>4, <1>5 DEF Lookups!ItemVerdict, tr

\* max() finds the latest item.
LEMMA BestIsLatest ==
  ASSUME NEW items \in StatusLists, NEW n, Latest(items, n),
         NEW C \in SUBSET (DOMAIN items), n \in C
  PROVE  Lookups!Best(items, C) = n
<1>1. n \in DOMAIN items /\ \A i \in DOMAIN items \ {n} : Lookups!SortsBelow(items, i, n)
  BY DEF Latest
<1>2. \A i \in DOMAIN items : /\ items[i].transaction.expires \in Nat
                             /\ items[i].transaction.id \in Nat
  BY ListsAssumption
<1>3. ASSUME NEW j \in C
      PROVE  ~Lookups!SortsBelow(items, n, j) /\ (j < n => Lookups!SortsBelow(items, j, n))
  <2>1. CASE j = n
    <3>1. n \in Nat
      BY <1>1, ListsAssumption
    <3> QED BY <1>1, <1>2, <2>1, <3>1 DEF Lookups!SortsBelow
  <2>2. CASE j # n
    <3>1. j \in DOMAIN items /\ Lookups!SortsBelow(items, j, n)
      BY <1>1, <2>2
    <3> QED BY <1>1, <1>2, <3>1 DEF Lookups!SortsBelow
  <2> QED BY <2>1, <2>2
<1>4. \A i \in C : (\A j \in C : ~Lookups!SortsBelow(items, i, j)
                                /\ (j < i => Lookups!SortsBelow(items, j, i))) => i = n
  BY <1>1
<1> QED BY <1>3, <1>4 DEF Lookups!Best

\* What a calm Apple's list for a subscription comes to.
LEMMA QuietLookup ==
  ASSUME NEW e \in Lookups!Environments, NEW items \in StatusLists, NEW t,
         NEW a \in States \cup {None}, Lists(items, e, t, a), NEW p, NEW orig,
         orig # None => \A n \in DOMAIN items : Latest(items, n) => items[n].transaction.orig = orig
  PROVE  LET v == Lookups!Lookup(items, "up", t, p, orig, Quiet(items))
         IN IF Candidate(a, p)
            THEN v.verdict = "row" /\ v.outcome = Outcome(a) /\ v.product = a.product
            ELSE v.verdict = "none"
<1> DEFINE V(i) == Lookups!ItemVerdict(items[i], t, p, orig, Quiet(items)[i])
           C    == {i \in DOMAIN items : V(i) = "candidate"}
           v    == Lookups!Lookup(items, "up", t, p, orig, Quiet(items))
<1>1. CASE a = None
  <2>1. DOMAIN items = {}
    BY <1>1 DEF Lists
  <2>2. v = [verdict |-> "none"]
    BY <2>1 DEF Lookups!Lookup, Lookups!MapBestStatus
  <2> QED BY <1>1, <2>2 DEF Candidate
<1>2. CASE a # None
  <2>1. a \in Subscription
    BY <1>2, StatesAssumption
  <2>2. a.product \in Products /\ a.status \in 1..5 /\ a.revoked \in BOOLEAN
    BY <2>1 DEF Subscription
  <2>3. AllFor(items, e, t, a.product)
    BY <1>2 DEF Lists
  <2>4. PICK n \in DOMAIN items : /\ Latest(items, n) /\ items[n].status = a.status
                                  /\ items[n].transaction.revoked = a.revoked
    BY <1>2 DEF Lists
  <2>5. \A i \in DOMAIN items :
          V(i) = IF (orig # None /\ items[i].transaction.orig # orig) \/ a.product # p
                 THEN "skip" ELSE "candidate"
    BY <2>2, <2>3, QuietItem
  <2>6. \A i \in DOMAIN items : V(i) \notin Lookups!Errors
    BY <2>5 DEF Lookups!Errors
  <2>7. v = IF C = {} THEN [verdict |-> "none"]
            ELSE Lookups!MapState(items[Lookups!Best(items, C)])
    <3>1. ~\E i \in DOMAIN items : items[i].missing
      BY <2>3 DEF AllFor
    <3> QED BY <2>6, <3>1 DEF Lookups!Lookup, Lookups!MapBestStatus
  <2>8. CASE a.product # p
    <3>1. C = {}
      BY <2>5, <2>8
    <3> QED BY <1>2, <2>7, <2>8, <3>1 DEF Candidate
  <2>9. CASE a.product = p
    <3>1. n \in C
      BY <2>4, <2>5, <2>9
    <3>2. Lookups!Best(items, C) = n
      BY <2>4, <3>1, BestIsLatest
    <3>3. v = Lookups!MapState(items[n])
      BY <2>7, <3>1, <3>2
    <3>4. items[n].transaction.product = a.product
      BY <2>3, <2>4 DEF AllFor, SignedFor
    <3>5. v.verdict = "row" /\ v.product = a.product /\ v.outcome = Outcome(a)
      BY <2>2, <2>4, <3>3, <3>4 DEF Lookups!MapState, Outcome
    <3> QED BY <1>2, <2>9, <3>5 DEF Candidate
  <2> QED BY <2>8, <2>9
<1> QED BY <1>1, <1>2

LEMMA VerifyAgrees ==
  ASSUME TypeOK, NEW h \in Handlers, req[h] # Idle, req[h].product \in Products,
         NEW e \in Lookups!Environments, NEW x \in Transactions, NEW items \in StatusLists,
         Carries(req[h], x, items, e), NEW api, NEW tr \in Failures
  PROVE  AgreesInVerify(h, x, items, api, tr)
<1> DEFINE o == req[h].owner
           t == req[h].token
           p == req[h].product
           v == Lookups!VerifyPurchase(x, t, p, items, "up", Quiet(items))
           r == IF Matches(h) /\ Candidate(apple[o], p) THEN Mapped(apple[o]) ELSE Failed(p)
<1>1. /\ req[h] \in Request /\ t \in Tokens /\ t # None /\ o \in Owners \cup {None}
      /\ o # None => apple[o] \in States \cup {None}
  BY TokensAssumption, NoneAssumption DEF TypeOK, Request
<1>2. Failed(p).outcome = "failed"
  BY DEF Failed
<1>3. ASSUME o = None PROVE Agree(v, r)
  <2>1. Quiet(items)[0] = [d \in Lookups!Environments |-> "none"]
    BY DEF Quiet
  <2>2. x.signer # "Sandbox" /\ x.signer # "Production"
    BY <1>3 DEF Carries, Lookups!Environments
  <2>3. Lookups!VerifyTransaction(x, Quiet(items)[0]) = "failed"
    BY <2>1, <2>2 DEF Lookups!VerifyTransaction, Lookups!VerifyIn, Lookups!Environments
  <2>4. v = [verdict |-> "failed"] /\ r = Failed(p)
    BY <1>1, <1>3, <2>3 DEF Lookups!VerifyPurchase, Matches
  <2> QED BY <1>2, <2>4 DEF Agree
<1>4. ASSUME o # None PROVE Agree(v, r)
  <2>1. /\ SignedFor(x, e, o, p) /\ Lists(items, e, o, apple[o])
        /\ \A n \in DOMAIN items : Latest(items, n) => items[n].transaction.orig = x.orig
    BY <1>4 DEF Carries
  <2>2. \A d \in Lookups!Environments : Quiet(items)[0][d] = "none"
    BY DEF Quiet
  <2>3. Lookups!VerifyTransaction(x, Quiet(items)[0]) = "ok"
    BY <2>1, <2>2, QuietTransaction
  <2>4. Lookups!MatchesRequest(x, t, p) <=> o = t
    BY <2>1 DEF SignedFor, Lookups!MatchesRequest
  <2>5. CASE o # t
    <3>1. v = [verdict |-> "failed"] /\ r = Failed(p)
      BY <2>3, <2>4, <2>5 DEF Lookups!VerifyPurchase, Matches
    <3> QED BY <1>2, <3>1 DEF Agree
  <2>6. CASE o = t
    <3> DEFINE w == Lookups!Lookup(items, "up", t, p, x.orig, Quiet(items))
    <3>1. IF Candidate(apple[o], p)
          THEN w.verdict = "row" /\ w.outcome = Outcome(apple[o]) /\ w.product = apple[o].product
          ELSE w.verdict = "none"
      BY <1>1, <1>4, <2>1, <2>6, QuietLookup
    <3>2. v = IF w.verdict = "none" THEN [verdict |-> "failed"] ELSE w
      BY <2>3, <2>4, <2>6 DEF Lookups!VerifyPurchase
    <3> HIDE DEF w
    <3> QED BY <1>2, <2>6, <3>1, <3>2 DEF Agree, Matches, Mapped
  <2> QED BY <2>5, <2>6
<1>5. Lookups!VerifyPurchase(x, t, p, items, api, tr) = v
      \/ Lookups!VerifyPurchase(x, t, p, items, api, tr).verdict = "unavailable"
  BY SpoiltOrQuiet
<1> HIDE DEF v
<1> QED BY <1>3, <1>4, <1>5 DEF AgreesInVerify, Agree

LEMMA RefreshAgrees ==
  ASSUME TypeOK, NEW h \in Handlers, req[h] # Idle, req[h].row \in Stored,
         NEW e \in Lookups!Environments, NEW items \in StatusLists,
         Lists(items, e, req[h].token, apple[req[h].token]), NEW api, NEW tr \in Failures
  PROVE  AgreesInRefresh(h, items, api, tr)
<1> DEFINE t == req[h].token
           r == req[h].row
           v == Lookups!RefreshCurrentEntitlement(r.known, t, r.product, items, "up", Quiet(items))
           w == Lookups!Lookup(items, "up", t, r.product, None, Quiet(items))
<1>1. apple[t] \in States \cup {None} /\ r.known \in BOOLEAN
  BY TokensAssumption DEF TypeOK, Request, Stored
<1>2. IF Candidate(apple[t], r.product)
      THEN w.verdict = "row" /\ w.outcome = Outcome(apple[t]) /\ w.product = apple[t].product
      ELSE w.verdict = "none"
  BY <1>1, QuietLookup
<1>3. v = IF ~r.known \/ w.verdict = "none" THEN [verdict |-> "kept"] ELSE w
  BY DEF Lookups!RefreshCurrentEntitlement
<1> HIDE DEF w
<1>4. IF r.known /\ Candidate(apple[t], r.product)
      THEN Agree(v, Mapped(apple[t])) ELSE v.verdict = "kept"
  BY <1>1, <1>2, <1>3 DEF Agree, Mapped
<1> HIDE DEF v
<1>5. \/ Lookups!RefreshCurrentEntitlement(r.known, t, r.product, items, api, tr) = v
      \/ Lookups!RefreshCurrentEntitlement(r.known, t, r.product, items, api, tr).verdict
           = "unavailable"
  BY <1>1, SpoiltOrQuiet DEF v
<1> QED BY <1>4, <1>5 DEF AgreesInRefresh, Agree

\* Whatever list Apple sends for the subscription it has, of any length, in
\* either environment, beside any other requests, and whichever calls fail,
\* AppStoreServerAppleVerifier comes to the verdict the store goes on with, or
\* to unavailability.
THEOREM VerdictsAgree == Spec => [](\A h \in Handlers : AgreesFor(h))
<1>1. IInv => \A h \in Handlers : AgreesFor(h)
  <2> SUFFICES ASSUME IInv, NEW h \in Handlers PROVE AgreesFor(h)
    OBVIOUS
  <2>1. TypeOK /\ Witnessed(req[h])
    BY DEF IInv
  <2>2. ASSUME At(h, "verify") PROVE req[h] # Idle /\ req[h].product \in Products
    BY <2>1, <2>2, Apart DEF At, Witnessed
  <2>3. ASSUME At(h, "refresh") PROVE req[h] # Idle /\ req[h].row \in Stored
    <3>1. req[h] # Idle
      BY <2>3, Apart DEF At
    <3>2. req[h] \in Request /\ req[h].row # None
      BY <2>1, <2>3, <3>1 DEF At, Witnessed, TypeOK
    <3> QED BY <3>1, <3>2 DEF Request
  <2> QED BY <2>1, <2>2, <2>3, VerifyAgrees, RefreshAgrees DEF AgreesFor
<1> QED BY <1>1, Invariance, PTL

\* So what AppleLookup and EntitlementStore say of Apple is the same.
THEOREM LookupAgreesCorrect == Spec => []LookupAgrees
<1>1. (\A h \in Handlers : AgreesFor(h)) => LookupAgrees
  BY DEF LookupAgrees
<1> QED BY <1>1, VerdictsAgree, PTL
=============================================================================
