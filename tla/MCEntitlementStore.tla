------------------------- MODULE MCEntitlementStore -------------------------
(* Two threads serve one token, another token has a subscription too; Apple  *)
(* sells two products, and a subscription is active, in grace, expired or    *)
(* refunded.                                                                 *)
EXTENDS EntitlementLookup

CONSTANTS h1, h2, t1, t2, pro, max, app

Sub(p, s, r) == [product |-> p, status |-> s, revoked |-> r]
MCStates == { Sub(pro, 1, FALSE), Sub(pro, 2, FALSE), Sub(max, 4, FALSE),
              Sub(max, 1, TRUE) }

\* A transaction signed in environment e for token t (e = None: by nobody), the
\* n-th of original transaction o.
Signed(e, t, o, n, p, r) ==
  [signer |-> e, malformed |-> FALSE, orig |-> o, id |-> n, product |-> p,
   bundle |-> app, token |-> t, expires |-> n, revoked |-> r]

MCTransactions ==
  { Signed(None, t1, 2, 1, pro, FALSE) } \cup
  { Signed(e, t, 2, 1, p, FALSE) : e \in Lookups!Environments, t \in Owners, p \in Products }

\* The subscription and, before or after it, one of the same product that has
\* lapsed and was bought again; or nothing.
ListsOf(s, t, e, ren) ==
  LET Item(n, x) == [status |-> n, transaction |-> x, renewal |-> ren, missing |-> FALSE]
      now    == Item(s.status, Signed(e, t, 2, 2, s.product, s.revoked))
      lapsed == Item(2, Signed(e, t, 1, 1, s.product, FALSE))
  IN {<<now>>, <<lapsed, now>>, <<now, lapsed>>}

Renewals(e) == {None, [signer |-> e, malformed |-> FALSE, graceEnd |-> 3]}

MCStatusLists ==
  {<<>>} \cup UNION { UNION { ListsOf(s, t, e, ren) : ren \in Renewals(e) } :
                        s \in States, t \in Owners, e \in Lookups!Environments }

\* No trouble at all, or trouble with one environment at one call.
Calm == [e \in Lookups!Environments |-> "none"]
MCFailures ==
  { [i \in 0..2 |-> IF i = c THEN [Calm EXCEPT ![e] = k] ELSE Calm] :
      c \in 0..2, e \in Lookups!Environments, k \in Lookups!Troubles }
=============================================================================
