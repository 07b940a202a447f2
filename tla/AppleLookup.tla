---------------------------- MODULE AppleLookup ----------------------------
(***************************************************************************)
(* What the IAP backend makes of Apple's signed payloads and of Apple's    *)
(* list of subscription statuses (apple_verifier.py), as operators.        *)
(*                                                                         *)
(* A transaction is a payload [signer, malformed, orig, id, product,       *)
(* bundle, token, expires, revoked]: signer is the environment Apple       *)
(* signed it for, or None for a payload it did not sign; expires is 0 for  *)
(* none.  A status item is [status, transaction, renewal, missing]:        *)
(* status 0 stands for one normalize_apple_status does not know, renewal   *)
(* is None or [signer, malformed, graceEnd], missing says that the item    *)
(* has no signedTransactionInfo.                                           *)
(*                                                                         *)
(* trouble[i][e] is what happens to the verifier of environment e at       *)
(* status item i, or at the transaction of the request for i = 0: nothing, *)
(* a retryable failure (its certificate check did not get through), or     *)
(* any other exception.                                                    *)
(***************************************************************************)
EXTENDS Integers, Sequences

CONSTANTS Bundle, Allowed, None

Environments == {"Sandbox", "Production"}
Troubles     == {"none", "retry", "crash"}

\* An attempt with the verifier of environment e.  Inside the attempt a payload
\* that lacks a field is an exception like any other.
VerifyIn(e, p, tr) ==
  IF tr[e] = "crash" THEN "unavailable"
  ELSE IF tr[e] = "retry" THEN "retry"
  ELSE IF p.signer # e THEN "wrong"
  ELSE IF p.malformed THEN "unavailable" ELSE "ok"

\* Variant: a retryable failure is as good as a wrong environment.
VerifyEagerly(p, tr) ==
  LET s == VerifyIn("Sandbox", p, tr)
      q == VerifyIn("Production", p, tr)
  IN IF s \in {"ok", "unavailable"} THEN s
     ELSE IF q \in {"ok", "unavailable"} THEN q ELSE "failed"

\* _verify_with_any_environment: Sandbox, then Production.
VerifyTransaction(p, tr) ==
  LET s == VerifyIn("Sandbox", p, tr)
      q == VerifyIn("Production", p, tr)
  IN IF s \in {"ok", "unavailable"} THEN s
     ELSE IF q \in {"ok", "unavailable"} THEN q
     ELSE IF "retry" \in {s, q} THEN "unavailable" ELSE "failed"

\* verify_renewal_info, in the environment of the transaction.
VerifyRenewal(r, e, tr) ==
  IF r = None THEN "ok"
  ELSE IF tr[e] # "none" THEN "unavailable"
  ELSE IF r.signer # e \/ r.malformed THEN "failed" ELSE "ok"

\* _validate_status_transaction.
Ours(t, token) == t.bundle = Bundle /\ t.product \in Allowed /\ t.token = token

\* What the loop of _map_best_status does with an item: raise, pass over it or
\* take it.  orig is the original transaction of the request, None in a refresh.
ItemVerdict(it, token, product, orig, tr) ==
  LET t == it.transaction
      v == VerifyTransaction(t, tr)
      r == VerifyRenewal(it.renewal, t.signer, tr)
  IN IF it.status = 0 THEN "failed"
     ELSE IF v # "ok" THEN v
     ELSE IF r # "ok" THEN r
     ELSE IF (orig # None /\ t.orig # orig) \/ t.product # product THEN "skip"
     ELSE IF Ours(t, token) THEN "candidate" ELSE "failed"

Errors == {"failed", "unavailable"}

\* transaction_sort_key: item i of the list goes before item j.  Transaction
\* ids are strings: a number here is an id's place in their order.
SortsBelow(items, i, j) ==
  LET a == items[i].transaction
      b == items[j].transaction
  IN a.expires < b.expires \/ (a.expires = b.expires /\ a.id < b.id)

\* Variant: the first of the candidates.
FirstCandidate(items, C) == CHOOSE i \in C : \A j \in C : i <= j

\* max() takes the first of the largest.
Best(items, C) ==
  CHOOSE i \in C : \A j \in C :
    ~SortsBelow(items, i, j) /\ (j < i => SortsBelow(items, j, i))

\* expires_at_for_status: in grace the renewal says when it ends.
ExpiresAt(it) ==
  IF it.status = 4 /\ it.renewal # None /\ it.renewal.graceEnd # 0
  THEN it.renewal.graceEnd ELSE it.transaction.expires

\* map_apple_subscription_state.
MapState(it) ==
  LET t == it.transaction
  IN IF ~t.revoked /\ it.status \notin 1..5 THEN [verdict |-> "failed"]
     ELSE [verdict |-> "row",
           outcome |-> IF t.revoked THEN "revoked"
                       ELSE <<"active", "expired", "billingRetry", "grace", "revoked">>[it.status],
           product |-> t.product, orig |-> t.orig, id |-> t.id,
           environment |-> t.signer, expires |-> ExpiresAt(it)]

\* _map_best_status, which stops at the first item that raises.
MapBestStatus(items, token, product, orig, trouble) ==
  LET V(i) == ItemVerdict(items[i], token, product, orig, trouble[i])
      bad  == {i \in DOMAIN items : V(i) \in Errors}
      C    == {i \in DOMAIN items : V(i) = "candidate"}
  IN IF bad # {} THEN [verdict |-> V(CHOOSE i \in bad : \A j \in bad : i <= j)]
     ELSE IF C = {} THEN [verdict |-> "none"]
     ELSE MapState(items[Best(items, C)])

\* get_all_subscription_statuses: the API is "up" and answers with the items, or
\* is not.
Lookup(items, api, token, product, orig, trouble) ==
  IF api # "up" THEN [verdict |-> "unavailable"]
  ELSE IF \E i \in DOMAIN items : items[i].missing THEN [verdict |-> "failed"]
  ELSE MapBestStatus(items, token, product, orig, trouble)

\* _validate_transaction_matches_request.
MatchesRequest(t, token, product) ==
  /\ t.bundle = Bundle /\ t.product = product /\ t.product \in Allowed
  /\ t.token = token /\ t.orig # None /\ t.id # None

\* verify_purchase with signed transaction t.
VerifyPurchase(t, token, product, items, api, trouble) ==
  LET v == VerifyTransaction(t, trouble[0])
      found == Lookup(items, api, token, product, t.orig, trouble)
  IN IF v # "ok" THEN [verdict |-> v]
     ELSE IF ~MatchesRequest(t, token, product) THEN [verdict |-> "failed"]
     ELSE IF found.verdict = "none" THEN [verdict |-> "failed"] ELSE found

\* refresh_current_entitlement of a row of token; known: it has a transaction
\* id and an environment.
RefreshCurrentEntitlement(known, token, product, items, api, trouble) ==
  LET found == Lookup(items, api, token, product, None, trouble)
  IN IF ~known \/ found.verdict = "none" THEN [verdict |-> "kept"] ELSE found
=============================================================================
