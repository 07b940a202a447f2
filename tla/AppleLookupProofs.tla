------------------------- MODULE AppleLookupProofs -------------------------
(***************************************************************************)
(* Proofs about AppleLookup, for lists of any length and any failures of   *)
(* Apple: what a failure can do to a verdict is to make it "unavailable".  *)
(* The contract (docs/iap_verification_backend_contract.md) rests on it:   *)
(* verificationFailed completes a purchase, an outage must not.            *)
(*                                                                         *)
(* The argument goes from one attempt to one item to the list.  A list is  *)
(* decided by its first error; a failure may add an earlier one, which is  *)
(* then unavailability, and takes no other away.                           *)
(***************************************************************************)
EXTENDS AppleLookup, TLAPS, WellFoundedInduction

\* tr is trouble with the two verifiers, and calm is none.
Possible(tr) == \A e \in Environments : tr[e] \in Troubles
Calm(tr)     == \A e \in Environments : tr[e] = "none"

\* Verdict v stands where a calm Apple would have had w.
Spoilt(v, w) == v = w \/ v = "unavailable"
-----------------------------------------------------------------------------
\* Both environments are tried, and one that cannot answer leaves no verdict
\* but unavailability, unless the other accepts the payload.
LEMMA TransactionNeutral ==
  ASSUME NEW p, NEW tr, NEW calm, Possible(tr), Calm(calm)
  PROVE  Spoilt(VerifyTransaction(p, tr), VerifyTransaction(p, calm))
<1>1. /\ tr["Sandbox"] \in Troubles /\ calm["Sandbox"] = "none"
      /\ tr["Production"] \in Troubles /\ calm["Production"] = "none"
  BY DEF Possible, Calm, Environments
<1>2. CASE p.signer = "Sandbox"
  BY <1>1, <1>2 DEF VerifyTransaction, VerifyIn, Spoilt, Troubles
<1>3. CASE p.signer = "Production"
  BY <1>1, <1>3 DEF VerifyTransaction, VerifyIn, Spoilt, Troubles
<1>4. CASE p.signer \notin Environments
  BY <1>1, <1>4 DEF VerifyTransaction, VerifyIn, Spoilt, Troubles, Environments
<1> QED BY <1>2, <1>3, <1>4 DEF Environments

\* A payload that is accepted was signed by Apple, in one of its environments.
LEMMA AcceptedIsSigned ==
  ASSUME NEW p, NEW tr, VerifyTransaction(p, tr) = "ok"
  PROVE  p.signer \in Environments /\ ~p.malformed
BY DEF VerifyTransaction, VerifyIn, Environments

\* A renewal is verified in one environment only.
LEMMA RenewalNeutral ==
  ASSUME NEW r, NEW e \in Environments, NEW tr, NEW calm, Possible(tr), Calm(calm)
  PROVE  Spoilt(VerifyRenewal(r, e, tr), VerifyRenewal(r, e, calm))
BY DEF VerifyRenewal, Spoilt, Possible, Calm

\* So an item is judged as by a calm Apple, or Apple is unavailable.
LEMMA ItemNeutral ==
  ASSUME NEW it, NEW token, NEW product, NEW orig, NEW tr, NEW calm,
         Possible(tr), Calm(calm)
  PROVE  Spoilt(ItemVerdict(it, token, product, orig, tr),
                ItemVerdict(it, token, product, orig, calm))
<1>1. Spoilt(VerifyTransaction(it.transaction, tr), VerifyTransaction(it.transaction, calm))
  BY TransactionNeutral
<1>2. CASE VerifyTransaction(it.transaction, tr) = "ok"
  <2>1. Spoilt(VerifyRenewal(it.renewal, it.transaction.signer, tr),
               VerifyRenewal(it.renewal, it.transaction.signer, calm))
    BY <1>2, AcceptedIsSigned, RenewalNeutral
  <2>2. VerifyTransaction(it.transaction, calm) = "ok"
    BY <1>1, <1>2 DEF Spoilt
  <2> QED BY <1>2, <2>1, <2>2 DEF ItemVerdict, Spoilt
<1>3. CASE VerifyTransaction(it.transaction, tr) # "ok"
  BY <1>1, <1>3 DEF ItemVerdict, Spoilt
<1> QED BY <1>2, <1>3
-----------------------------------------------------------------------------
\* A set of positions that is not empty has a first one.
LEMMA FirstExists ==
  ASSUME NEW S \in SUBSET Nat, S # {}
  PROVE  \E i \in S : \A j \in S : i <= j
<1>1. PICK i \in S : \A j \in S : ~(<<j, i>> \in OpToRel(<, Nat))
  BY NatLessThanWellFounded, WFMin
<1>2. \A j \in S : ~(j < i)
  BY <1>1 DEF OpToRel
<1> QED BY <1>2

\* A list is judged as by a calm Apple, or Apple is unavailable.
LEMMA ListNeutral ==
  ASSUME NEW items, DOMAIN items \subseteq Nat,
         NEW token, NEW product, NEW orig, NEW trouble, NEW calm,
         \A i \in DOMAIN items : Possible(trouble[i]) /\ Calm(calm[i])
  PROVE  \/ MapBestStatus(items, token, product, orig, trouble)
              = MapBestStatus(items, token, product, orig, calm)
         \/ MapBestStatus(items, token, product, orig, trouble).verdict = "unavailable"
<1> DEFINE V(i)  == ItemVerdict(items[i], token, product, orig, trouble[i])
           W(i)  == ItemVerdict(items[i], token, product, orig, calm[i])
           badV  == {i \in DOMAIN items : V(i) \in Errors}
           badW  == {i \in DOMAIN items : W(i) \in Errors}
           candV == {i \in DOMAIN items : V(i) = "candidate"}
           candW == {i \in DOMAIN items : W(i) = "candidate"}
<1>1. \A i \in DOMAIN items : V(i) = W(i) \/ V(i) = "unavailable"
  BY ItemNeutral DEF Spoilt
<1>2. badW \subseteq badV
  BY <1>1 DEF Errors
<1>3. CASE badV = {}
  <2>1. \A i \in DOMAIN items : V(i) = W(i)
    BY <1>1, <1>3 DEF Errors
  <2>2. candV = candW /\ badW = {}
    BY <1>2, <1>3, <2>1
  <2> QED BY <1>3, <2>2 DEF MapBestStatus
<1>4. CASE badV # {}
  <2>1. PICK f \in badV : \A j \in badV : f <= j
    BY <1>4, FirstExists
  <2>2. (CHOOSE i \in badV : \A j \in badV : i <= j) = f
    <3>1. \A i \in badV : (\A j \in badV : i <= j) => i = f
      BY <2>1
    <3> QED BY <2>1, <3>1
  <2>3. MapBestStatus(items, token, product, orig, trouble) = [verdict |-> V(f)]
    BY <1>4, <2>2 DEF MapBestStatus
  <2>4. CASE V(f) = "unavailable"
    BY <2>3, <2>4
  <2>5. CASE V(f) # "unavailable"
    <3>1. V(f) = W(f) /\ f \in badW
      BY <1>1, <2>1, <2>5
    <3>2. \A j \in badW : f <= j
      BY <1>2, <2>1
    <3>3. (CHOOSE i \in badW : \A j \in badW : i <= j) = f
      <4>1. \A i \in badW : (\A j \in badW : i <= j) => i = f
        BY <3>1, <3>2
      <4> QED BY <3>1, <3>2, <4>1
    <3>4. MapBestStatus(items, token, product, orig, calm) = [verdict |-> W(f)]
      BY <3>1, <3>3 DEF MapBestStatus
    <3> QED BY <2>3, <3>1, <3>4
  <2> QED BY <2>4, <2>5
<1> QED BY <1>3, <1>4
-----------------------------------------------------------------------------
\* Troubles at the calls of a request, in place of a calm Apple.
Calls(items) == {0} \cup DOMAIN items

\* Whatever fails at Apple, and at whichever call, a lookup ends as with a calm
\* Apple or as unavailable.
LEMMA LookupNeutral ==
  ASSUME NEW items, DOMAIN items \subseteq Nat, NEW api,
         NEW token, NEW product, NEW orig, NEW trouble, NEW calm,
         \A i \in Calls(items) : Possible(trouble[i]) /\ Calm(calm[i])
  PROVE  \/ Lookup(items, api, token, product, orig, trouble)
              = Lookup(items, "up", token, product, orig, calm)
         \/ Lookup(items, api, token, product, orig, trouble).verdict = "unavailable"
<1>1. \A i \in DOMAIN items : Possible(trouble[i]) /\ Calm(calm[i])
  BY DEF Calls
<1>2. \/ MapBestStatus(items, token, product, orig, trouble)
           = MapBestStatus(items, token, product, orig, calm)
      \/ MapBestStatus(items, token, product, orig, trouble).verdict = "unavailable"
  BY <1>1, ListNeutral
<1>3. CASE api # "up"
  BY <1>3 DEF Lookup
<1>4. CASE api = "up" /\ \E i \in DOMAIN items : items[i].missing
  BY <1>4 DEF Lookup
<1>5. CASE api = "up" /\ ~\E i \in DOMAIN items : items[i].missing
  BY <1>2, <1>5 DEF Lookup
<1> QED BY <1>3, <1>4, <1>5

\* verificationFailed, which completes a purchase without unlocking anything, is
\* answered in an outage only when a calm Apple would have had it answered: a
\* purchase is verified as by a calm Apple, or answered as unavailable.
THEOREM PurchaseNeutral ==
  ASSUME NEW t, NEW token, NEW product, NEW items, DOMAIN items \subseteq Nat,
         NEW api, NEW trouble, NEW calm,
         \A i \in Calls(items) : Possible(trouble[i]) /\ Calm(calm[i])
  PROVE  \/ VerifyPurchase(t, token, product, items, api, trouble)
              = VerifyPurchase(t, token, product, items, "up", calm)
         \/ VerifyPurchase(t, token, product, items, api, trouble).verdict = "unavailable"
<1>1. Possible(trouble[0]) /\ Calm(calm[0])
  BY DEF Calls
<1>2. Spoilt(VerifyTransaction(t, trouble[0]), VerifyTransaction(t, calm[0]))
  BY <1>1, TransactionNeutral
<1>3. \/ Lookup(items, api, token, product, t.orig, trouble)
           = Lookup(items, "up", token, product, t.orig, calm)
      \/ Lookup(items, api, token, product, t.orig, trouble).verdict = "unavailable"
  BY LookupNeutral
<1>4. CASE VerifyTransaction(t, trouble[0]) # "ok"
  BY <1>2, <1>4 DEF VerifyPurchase, Spoilt
<1>5. CASE VerifyTransaction(t, trouble[0]) = "ok"
  <2>1. VerifyTransaction(t, calm[0]) = "ok"
    BY <1>2, <1>5 DEF Spoilt
  <2> QED BY <1>3, <1>5, <2>1 DEF VerifyPurchase
<1> QED BY <1>4, <1>5

\* A refresh ends as with a calm Apple or as unavailable, so that an outage
\* neither takes an entitlement away nor leaves one Apple has ended.
THEOREM RefreshNeutral ==
  ASSUME NEW known \in BOOLEAN, NEW token, NEW product, NEW items,
         DOMAIN items \subseteq Nat, NEW api, NEW trouble, NEW calm,
         \A i \in Calls(items) : Possible(trouble[i]) /\ Calm(calm[i])
  PROVE  \/ RefreshCurrentEntitlement(known, token, product, items, api, trouble)
              = RefreshCurrentEntitlement(known, token, product, items, "up", calm)
         \/ RefreshCurrentEntitlement(known, token, product, items, api, trouble).verdict
              = "unavailable"
<1>1. \/ Lookup(items, api, token, product, None, trouble)
           = Lookup(items, "up", token, product, None, calm)
      \/ Lookup(items, api, token, product, None, trouble).verdict = "unavailable"
  BY LookupNeutral
<1> QED BY <1>1 DEF RefreshCurrentEntitlement
-----------------------------------------------------------------------------
\* Whichever candidate max() picks, the row made of it grants only what Apple
\* signed, in one of its environments, for this app, this account token and the
\* product asked for, with a status that is active or in grace and no revocation.
THEOREM CandidateGrant ==
  ASSUME NEW it, NEW token, NEW product, NEW orig, NEW tr,
         ItemVerdict(it, token, product, orig, tr) = "candidate",
         MapState(it).verdict = "row", MapState(it).outcome \in {"active", "grace"}
  PROVE  /\ it.transaction.signer \in Environments /\ ~it.transaction.malformed
         /\ Ours(it.transaction, token) /\ it.transaction.product = product
         /\ ~it.transaction.revoked /\ it.status \in {1, 4}
         /\ MapState(it).product = product
<1>1. /\ it.status # 0 /\ VerifyTransaction(it.transaction, tr) = "ok"
      /\ it.transaction.product = product /\ Ours(it.transaction, token)
  BY DEF ItemVerdict, VerifyTransaction, VerifyIn, VerifyRenewal
<1>2. it.transaction.signer \in Environments /\ ~it.transaction.malformed
  BY <1>1, AcceptedIsSigned
<1>3. ~it.transaction.revoked /\ it.status \in 1..5
  BY DEF MapState
<1>4. /\ MapState(it).product = it.transaction.product
      /\ MapState(it).outcome
           = <<"active", "expired", "billingRetry", "grace", "revoked">>[it.status]
  BY <1>3 DEF MapState
<1>5. it.status \in {1, 4}
  BY <1>3, <1>4
<1> QED BY <1>1, <1>2, <1>3, <1>4, <1>5
=============================================================================
