-------------------------- MODULE EntitlementStore --------------------------
(***************************************************************************)
(* The entitlements of the IAP verification backend                        *)
(* (server/iap_verification_backend): one row per app account token,       *)
(* written by threads that ask Apple first and hold no lock while they do. *)
(*                                                                         *)
(* apple[t] is the subscription Apple knows for token t, which changes on  *)
(* its own; store[t] is the row of iap_entitlements.  A row without a      *)
(* transaction id or environment is not known to Apple (known = FALSE).    *)
(* bought and granted (what Apple ever sold and granted to a token) and    *)
(* the field during of a request are history.                              *)
(***************************************************************************)
EXTENDS Integers, FiniteSets

CONSTANTS
  Handlers,     \* request threads
  Tokens,       \* app account tokens that ask this server
  Owners,       \* app account tokens Apple has customers for
  Products,     \* allowed products; a product names its tier
  States,       \* the states of a subscription
  MaxChanges,   \* bound of the changes at Apple
  MaxVerifies,  \* bound of the verify-purchase requests
  None

Subscription == [product : Products, status : 1..5, revoked : BOOLEAN]

Outcomes == {"active", "expired", "billingRetry", "grace", "revoked"}
Stored   == [outcome : Outcomes \cup {"failed"}, product : Products, known : BOOLEAN]

ASSUME StatesAssumption == States \subseteq Subscription
ASSUME TokensAssumption == Tokens \subseteq Owners
ASSUME BoundAssumption  == MaxChanges \in Nat /\ MaxVerifies \in Nat
ASSUME NoneAssumption   == None \notin Products \cup Owners \cup States \cup Stored

VARIABLES apple, store, req, changes, verifies, bought, granted

vars   == <<apple, store, req, changes, verifies, bought, granted>>
atApple == <<apple, changes, bought, granted>>

\* Variant: a revocation date is overlooked.
OutcomeOfStatus(a) ==
  <<"active", "expired", "billingRetry", "grace", "revoked">>[a.status]

\* The outcome of map_apple_subscription_state.
Outcome(a) ==
  IF a.revoked THEN "revoked"
  ELSE <<"active", "expired", "billingRetry", "grace", "revoked">>[a.status]

\* What the map makes of a subscription, and verification_failed_record.
Mapped(a) == [outcome |-> Outcome(a), product |-> a.product, known |-> TRUE]
Failed(p) == [outcome |-> "failed", product |-> p, known |-> FALSE]

\* OUTCOME_TO_TIER of a row.
Tier(r) == IF r.outcome \in {"active", "grace"} THEN r.product ELSE None

\* The product a subscription entitles to, in Apple's own terms.
Entitles(a) ==
  IF a # None /\ ~a.revoked /\ a.status \in {1, 4} THEN a.product ELSE None

Idle == [pc |-> "idle"]

\* A request for token t: the owner and product of its signed transaction, the
\* row it holds or answers with, and the states Apple was in meanwhile.
Request == [pc : {"verify", "refresh", "store", "answered", "error"},
            token : Tokens, owner : Owners \cup {None}, product : Products \cup {None},
            row : Stored \cup {None}, during : SUBSET (States \cup {None})]

At(h, p)      == req[h].pc = p
Goto(h, p, r) == req' = [req EXCEPT ![h].pc = p, ![h].row = r]
-----------------------------------------------------------------------------
Init ==
  /\ apple    = [t \in Owners |-> None]
  /\ store    = [t \in Tokens |-> None]
  /\ req      = [h \in Handlers |-> Idle]
  /\ changes  = 0
  /\ verifies = 0
  /\ bought   = [t \in Owners |-> {}]
  /\ granted  = [t \in Owners |-> {}]

\* A purchase, a renewal, an upgrade, a refund, the end of a period.
AppleChanges(t, a) ==
  /\ changes < MaxChanges
  /\ a # apple[t]
  /\ apple[t] = None => Entitles(a) # None
  /\ changes' = changes + 1
  /\ apple'   = [apple EXCEPT ![t] = a]
  /\ bought'  = [bought EXCEPT ![t] = @ \cup {a.product}]
  /\ granted' = [granted EXCEPT ![t] = @ \cup {Entitles(a)}]
  /\ req'     = [h \in Handlers |->
                  IF req[h] # Idle /\ req[h].token = t
                  THEN [req[h] EXCEPT !.during = @ \cup {a}] ELSE req[h]]
  /\ UNCHANGED <<store, verifies>>

\* POST verify-purchase of token t with a transaction Apple signed for token o,
\* or with one it did not sign (o = None).
Verify(h, t, o, p) ==
  /\ req[h] = Idle
  /\ verifies < MaxVerifies
  /\ o # None => p \in bought[o]
  /\ verifies' = verifies + 1
  /\ req' = [req EXCEPT ![h] =
       [pc |-> "verify", token |-> t, owner |-> o, product |-> p,
        row |-> None, during |-> {apple[t]}]]
  /\ UNCHANGED <<atApple, store>>

\* GET current-entitlement: the row is read; without one nothing is granted.
Current(h, t) ==
  /\ req[h] = Idle
  /\ req' = [req EXCEPT ![h] =
       [pc |-> IF store[t] = None THEN "answered" ELSE "refresh", token |-> t,
        owner |-> None, product |-> None, row |-> store[t], during |-> {apple[t]}]]
  /\ UNCHANGED <<atApple, store, verifies>>

\* Variant: an outage is written down.
AppleDownStored(h) ==
  /\ req[h].pc \in {"verify", "refresh"}
  /\ store' = [store EXCEPT ![req[h].token] = [outcome |-> "unavailable"]]
  /\ Goto(h, "error", None)
  /\ UNCHANGED <<atApple, verifies>>

\* AppleVerificationUnavailable: nothing is granted and nothing written; and in
\* a refresh AppleVerificationFailed, which ends in a 500.  The death of the
\* process leaves no more behind than this step and UpsertFails do.
AppleDown(h) ==
  /\ req[h].pc \in {"verify", "refresh"}
  /\ Goto(h, "error", None)
  /\ UNCHANGED <<atApple, store, verifies>>

\* Variant: the account token of the transaction is not compared.
AnyOwner(h) == req[h].owner # None

\* _validate_transaction_matches_request.
Matches(h) == req[h].owner = req[h].token

\* The status among Apple's answer that has the product asked for.
Candidate(a, p) == a # None /\ a.product = p

VerifyMaps(h) ==
  /\ At(h, "verify")
  /\ Matches(h)
  /\ Candidate(apple[req[h].owner], req[h].product)
  /\ Goto(h, "store", Mapped(apple[req[h].owner]))
  /\ UNCHANGED <<atApple, store, verifies>>

VerifyFails(h) ==
  /\ At(h, "verify")
  /\ ~(Matches(h) /\ Candidate(apple[req[h].owner], req[h].product))
  /\ Goto(h, "store", Failed(req[h].product))
  /\ UNCHANGED <<atApple, store, verifies>>

RefreshMaps(h) ==
  /\ At(h, "refresh")
  /\ req[h].row.known
  /\ Candidate(apple[req[h].token], req[h].row.product)
  /\ Goto(h, "store", Mapped(apple[req[h].token]))
  /\ UNCHANGED <<atApple, store, verifies>>

\* The row is answered as it is: Apple cannot be asked for it, or knows the
\* token with another product only.
RefreshKeeps(h) ==
  /\ At(h, "refresh")
  /\ ~(req[h].row.known /\ Candidate(apple[req[h].token], req[h].row.product))
  /\ Goto(h, "answered", req[h].row)
  /\ UNCHANGED <<atApple, store, verifies>>

\* Variant: a row that exists is left alone.
InsertOnly(h) ==
  /\ At(h, "store")
  /\ store' = [store EXCEPT ![req[h].token] = IF @ = None THEN req[h].row ELSE @]
  /\ Goto(h, "answered", req[h].row)
  /\ UNCHANGED <<atApple, verifies>>

\* upsert_entitlement, then the answer.
Upsert(h) ==
  /\ At(h, "store")
  /\ store' = [store EXCEPT ![req[h].token] = req[h].row]
  /\ Goto(h, "answered", req[h].row)
  /\ UNCHANGED <<atApple, verifies>>

UpsertFails(h) ==
  /\ At(h, "store")
  /\ Goto(h, "error", None)
  /\ UNCHANGED <<atApple, store, verifies>>

Finish(h) ==
  /\ req[h].pc \in {"answered", "error"}
  /\ req' = [req EXCEPT ![h] = Idle]
  /\ UNCHANGED <<atApple, store, verifies>>

Asked(h)  == VerifyMaps(h) \/ VerifyFails(h) \/ RefreshMaps(h) \/ RefreshKeeps(h)

Next ==
  \/ \E t \in Owners, a \in States : AppleChanges(t, a)
  \/ \E h \in Handlers, t \in Tokens :
       \/ Current(h, t)
       \/ \E o \in Owners \cup {None}, p \in Products : Verify(h, t, o, p)
  \/ \E h \in Handlers :
       \/ AppleDown(h) \/ Asked(h) \/ Upsert(h) \/ UpsertFails(h) \/ Finish(h)

Spec == Init /\ [][Next]_vars

\* The app asks for its entitlement whenever it starts; of the requests that
\* keep coming for a token, some find Apple answering and some get to write.
Fairness ==
  /\ WF_vars(\E h \in Handlers : Finish(h))
  /\ \A t \in Tokens :
       LET Of(h) == req[h] # Idle /\ req[h].token = t IN
       /\ SF_vars(\E h \in Handlers : Current(h, t))
       /\ SF_vars(\E h \in Handlers : Of(h) /\ Asked(h))
       /\ SF_vars(\E h \in Handlers : Of(h) /\ Upsert(h))

FairSpec == Spec /\ Fairness
-----------------------------------------------------------------------------
TypeOK ==
  /\ apple \in [Owners -> States \cup {None}]
  /\ store \in [Tokens -> Stored \cup {None}]
  /\ req \in [Handlers -> Request \cup {Idle}]
  /\ changes \in 0..MaxChanges /\ verifies \in 0..MaxVerifies
  /\ bought \in [Owners -> SUBSET Products]
  /\ granted \in [Owners -> SUBSET (Products \cup {None})]

\* Whatever threads write over one another, the row of a token grants nothing
\* that Apple never granted to that token.
GrantOwned == \A t \in Tokens :
  store[t] # None => Tier(store[t]) \in granted[t] \cup {None}

\* The product is one Apple no longer sells the token.
OtherProduct(h) == \E a \in req[h].during : a = None \/ a.product # req[h].row.product

\* What an answer grants is what Apple granted at some moment of the request,
\* except that a row whose product Apple has replaced is answered as it is.
GrantTrue ==
  \A h \in Handlers :
    req[h] # Idle /\ At(h, "answered") /\ req[h].row # None =>
      \/ Tier(req[h].row) \in {Entitles(a) : a \in req[h].during} \cup {None}
      \/ OtherProduct(h)

\* docs/iap_verification_backend_contract.md asks to verify with Apple before an
\* active entitlement is returned: when an answer grants something, so did Apple
\* at some moment of the request.
GrantCurrent ==
  \A h \in Handlers :
    req[h] # Idle /\ At(h, "answered") /\ req[h].row # None /\ Tier(req[h].row) # None =>
      \E a \in req[h].during : Entitles(a) # None

\* Threads may leave an older state of Apple in the row; requests that keep
\* coming make it agree with Apple, unless the row lost its transaction or
\* Apple has another product for the token.
Agrees(t) ==
  \/ store[t] = None
  \/ ~store[t].known
  \/ store[t].product # apple[t].product
  \/ store[t] = Mapped(apple[t])
Heals == \A t \in Tokens : <>[]Agrees(t)
=============================================================================
