------------------------- MODULE EntitlementLookup -------------------------
(***************************************************************************)
(* EntitlementStore knows Apple as one subscription of each token.  What   *)
(* the backend sees of it is a signed transaction in the request and a     *)
(* list of status items, which AppleLookup judges.  Here is what of these  *)
(* Apple may send for a subscription, and that the verdicts are those      *)
(* EntitlementStore takes.                                                 *)
(***************************************************************************)
EXTENDS EntitlementStore, Sequences

CONSTANTS
  App,           \* the bundle id
  Transactions,  \* signed transactions a request may carry
  StatusLists,   \* lists of status items Apple may answer with
  Failures       \* what may go wrong at the calls of a request

Lookups == INSTANCE AppleLookup WITH Bundle <- App, Allowed <- Products

\* Call 0 is the request's transaction, call i the i-th item of the list.
ASSUME FailuresAssumption ==
  \A f \in Failures, items \in StatusLists : \A i \in {0} \cup DOMAIN items :
    \A e \in Lookups!Environments : f[i][e] \in Lookups!Troubles
ASSUME ListsAssumption ==
  \A items \in StatusLists :
    /\ DOMAIN items \subseteq Nat
    /\ \A i \in DOMAIN items :
         items[i].transaction.expires \in Nat /\ items[i].transaction.id \in Nat

\* Apple signed transaction x in environment e, for token t and product p.
SignedFor(x, e, t, p) ==
  /\ x.signer = e /\ ~x.malformed
  /\ x.bundle = App /\ x.token = t /\ x.product = p
  /\ x.orig # None /\ x.id # None

\* The items of a list are of token t and product p, with their renewals.
AllFor(items, e, t, p) == \A i \in DOMAIN items :
  /\ ~items[i].missing /\ items[i].status \in 1..5
  /\ SignedFor(items[i].transaction, e, t, p)
  /\ items[i].renewal # None =>
       items[i].renewal.signer = e /\ ~items[i].renewal.malformed

\* The n-th item is the latest, the others have lapsed or been bought again.
Latest(items, n) ==
  n \in DOMAIN items /\ \A i \in DOMAIN items \ {n} : Lookups!SortsBelow(items, i, n)

\* Apple's list for subscription a of token t: a is its latest item.
Lists(items, e, t, a) ==
  IF a = None THEN items = <<>>
  ELSE /\ AllFor(items, e, t, a.product)
       /\ \E n \in DOMAIN items :
            /\ Latest(items, n)
            /\ items[n].status = a.status
            /\ items[n].transaction.revoked = a.revoked

\* x is the transaction of request q, and items Apple's list for its owner; for
\* a transaction nobody signed Apple is not asked.
Carries(q, x, items, e) ==
  IF q.owner = None THEN x.signer \notin Lookups!Environments /\ items = <<>>
  ELSE /\ SignedFor(x, e, q.owner, q.product)
       /\ Lists(items, e, q.owner, apple[q.owner])
       /\ \A n \in DOMAIN items : Latest(items, n) => items[n].transaction.orig = x.orig

\* AppleLookup says v where EntitlementStore has the row r: the same, or that
\* Apple is unavailable.
Agree(v, r) ==
  \/ v.verdict = "unavailable"
  \/ v.verdict = "row"    /\ r.known /\ r.outcome = v.outcome /\ r.product = v.product
  \/ v.verdict = "failed" /\ r.outcome = "failed"

AgreesInVerify(h, x, items, api, tr) ==
  LET p == req[h].product
      r == IF Matches(h) /\ Candidate(apple[req[h].owner], p)
           THEN Mapped(apple[req[h].owner]) ELSE Failed(p)
  IN Agree(Lookups!VerifyPurchase(x, req[h].token, p, items, api, tr), r)

AgreesInRefresh(h, items, api, tr) ==
  LET t == req[h].token
      r == req[h].row
      v == Lookups!RefreshCurrentEntitlement(r.known, t, r.product, items, api, tr)
  IN IF r.known /\ Candidate(apple[t], r.product)
     THEN Agree(v, Mapped(apple[t]))
     ELSE v.verdict \in {"kept", "unavailable"}

\* What holds of the request of thread h: whatever Apple sends for the
\* subscription it has, and whatever fails, the verdict is the one expected.
AgreesFor(h) ==
  /\ At(h, "verify") =>
       \A e \in Lookups!Environments, x \in Transactions, items \in StatusLists :
         Carries(req[h], x, items, e) =>
           \A api \in {"up", "down"}, tr \in Failures :
             AgreesInVerify(h, x, items, api, tr)
  /\ At(h, "refresh") =>
       \A e \in Lookups!Environments, items \in StatusLists :
         Lists(items, e, req[h].token, apple[req[h].token]) =>
           \A api \in {"up", "down"}, tr \in Failures :
             AgreesInRefresh(h, items, api, tr)

\* However Apple's lists, environments and failures come out, the verdict of
\* AppStoreServerAppleVerifier is the one EntitlementStore takes it to be, or
\* that Apple is unavailable: a failure of Apple never passes for an invalid
\* purchase, and a lapsed subscription in the list does not hide the current one.
\* Only threads that are alone are looked at, which spares TLC the same request
\* beside every other; VerdictsAgree is about all of them.
LookupAgrees ==
  \A h \in Handlers : (\A g \in Handlers \ {h} : req[g] = Idle) => AgreesFor(h)
=============================================================================
