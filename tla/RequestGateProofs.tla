------------------------- MODULE RequestGateProofs -------------------------
(***************************************************************************)
(* Proofs about RequestGate, for every set of threads, tokens and          *)
(* accounts, every configuration and any number of policy files.           *)
(*                                                                         *)
(* The authorities are asked one after the other while time passes and     *)
(* logins end.  What makes the answers right all the same is that a token  *)
(* refused by the development tokens and by the secret stays refused by    *)
(* them (part of Judged), so that the service's refusal is a moment at     *)
(* which no authority vouches.  For the cache, a thread that has read a    *)
(* file with the time it goes by has read its policy (part of Judged), and *)
(* a thread alone between the two writes has written its own time (Alone). *)
(***************************************************************************)
EXTENDS RequestGate, TLAPS

\* What thread h at place p with request q knows.
Judged(h, p, q) ==
  /\ q.account # None => q.account \in vouched[h]
  /\ q.status = 401 => h \in doubted
  /\ p # "done" => /\ Vouchers(q.token, clock, session) \subseteq vouched[h]
                   /\ Vouchers(q.token, clock, session) = {} => h \in doubted
  /\ p = "service" => /\ q.token # None /\ "service" \in conf
                      /\ ~IsDevToken(q.token) /\ ~GoodJwt(q.token)
  /\ q.mtime <= file.mtime
  /\ p \in {"noteMtime", "notePolicy"} /\ file.there /\ q.mtime = file.mtime
       => q.minimum = file.minimum

\* Without a race one thread at most is between the writes to the cache, and
\* the time in the cache is its own.
Alone ==
  ~raced => \A h \in Handlers : At(h, "notePolicy") =>
    /\ cache.mtime = req[h].mtime
    /\ \A g \in Handlers : At(g, "notePolicy") => g = h

\* The file has been there once, and no time in the cache is later.
Times == 1 <= file.mtime /\ cache.mtime <= file.mtime

IInv ==
  /\ TypeOK
  /\ \A h \in Handlers : Judged(h, pc[h], req[h])
  /\ Times /\ Alone /\ CacheTrue
-----------------------------------------------------------------------------
\* A request that has just arrived, and what is left of one answered with s,
\* are requests.
LEMMA ArrivedType ==
  ASSUME NEW v \in Versions, NEW t \in Tokens \cup {None},
         NEW s \in Statuses
  PROVE  /\ [Arrived(v, t) EXCEPT !.status = s] \in Request
         /\ Arrived(v, t) \in Request
<1>1. 0 \in Minimums /\ 0 \in Statuses
  BY VersionsAssumption DEF Statuses
<1> QED BY <1>1 DEF Arrived, Request

\* The authorities name accounts.
LEMMA VouchersType ==
  ASSUME NEW t, NEW c, NEW s
  PROVE  Vouchers(t, c, s) \subseteq Accounts
BY DEF Vouchers

\* Whom a request is served for under each authority, the authority vouches for.
LEMMA Vouched ==
  ASSUME TypeOK, NEW t \in Tokens \cup {None}
  PROVE  /\ IsDevToken(t) => DevAccount[t] \in Vouchers(t, clock, session)
         /\ GoodJwt(t) => JwtAccount[t] \in Vouchers(t, clock, session)
         /\ t # None /\ "service" \in conf /\ session[t] # None
              => session[t] \in Vouchers(t, clock, session)
BY TokensAssumption DEF TypeOK, Vouchers, IsDevToken, GoodJwt

\* When every authority was asked in vain, none vouches.
LEMMA NobodyVouches ==
  ASSUME TypeOK, NEW t \in Tokens \cup {None},
         ~IsDevToken(t), ~GoodJwt(t),
         t = None \/ "service" \notin conf \/ session[t] = None
  PROVE  Vouchers(t, clock, session) = {}
BY TokensAssumption, NoneAssumption DEF TypeOK, Vouchers, IsDevToken, GoodJwt
-----------------------------------------------------------------------------
\* A step of one thread that leaves the cache alone keeps the invariant when
\* what the thread now knows is right and it is not at the second write.
LEMMA ThreadStep ==
  ASSUME IInv, NEW h \in Handlers, NEW p \in Places \ {"notePolicy"}, NEW q \in Request,
         pc[h] # "notePolicy",
         pc' = [pc EXCEPT ![h] = p], req' = [req EXCEPT ![h] = q],
         UNCHANGED <<outside, cache, raced>>, devices' \in [Accounts -> Nat],
         Judged(h, p, q)
  PROVE  IInv'
<1>1. UNCHANGED <<clock, conf, session, file, vouched, doubted, cache, raced>>
  BY DEF outside
<1>2. \A g \in Handlers : /\ req'[g] = IF g = h THEN q ELSE req[g]
                          /\ pc'[g] = IF g = h THEN p ELSE pc[g]
  BY DEF IInv, TypeOK
<1>3. TypeOK'
  BY <1>1 DEF IInv, TypeOK
<1>4. ASSUME NEW g \in Handlers
      PROVE  Judged(g, pc[g], req[g])'
  <2>1. Judged(g, pc[g], req[g])
    BY DEF IInv
  <2> QED BY <1>1, <1>2, <2>1 DEF Judged, Vouchers, IsDevToken, GoodJwt
<1>5. Times' /\ Alone'
  BY <1>1, <1>2 DEF IInv, Times, Alone, At
<1>6. CacheTrue'
  BY <1>1, <1>2 DEF IInv, CacheTrue, Settled, At
<1> QED BY <1>3, <1>4, <1>5, <1>6 DEF IInv

\* An answer keeps the invariant when a 401 is doubted.
LEMMA AnswerStep ==
  ASSUME IInv, NEW h \in Handlers, NEW s \in Statuses,
         pc[h] # "notePolicy", Answer(h, s),
         UNCHANGED <<outside, cache, raced>>, devices' \in [Accounts -> Nat],
         s = 401 => h \in doubted
  PROVE  IInv'
<1>1. [Arrived(0, None) EXCEPT !.status = s] \in Request
  <2>1. 0 \in Versions /\ None \in Tokens \cup {None}
    BY VersionsAssumption
  <2> QED BY <2>1, ArrivedType
<1>2. PICK q \in Request : q = [Arrived(0, None) EXCEPT !.status = s]
  BY <1>1
<1>3. q.account = None /\ q.status = s /\ q.mtime = 0
  BY <1>2 DEF Arrived
<1>4. 0 <= file.mtime
  BY DEF IInv, TypeOK, File
<1>5. Judged(h, "done", q)
  BY <1>3, <1>4 DEF Judged
<1>6. pc' = [pc EXCEPT ![h] = "done"] /\ req' = [req EXCEPT ![h] = q]
  BY <1>2 DEF Answer, Goto
<1>7. "done" \in Places \ {"notePolicy"}
  BY DEF Places
<1>8. UNCHANGED <<outside, cache, raced>> /\ pc[h] # "notePolicy"
  OBVIOUS
<1> QED BY <1>5, <1>6, <1>7, <1>8, ThreadStep

\* Accepting an account the authorities vouch for keeps the invariant.
LEMMA AcceptStep ==
  ASSUME IInv, NEW h \in Handlers, NEW a \in Accounts,
         pc[h] \in {"auth", "service"}, Accept(h, a),
         a \in Vouchers(req[h].token, clock, session),
         UNCHANGED <<outside, cache, raced, devices>>
  PROVE  IInv'
<1>1. req[h] \in Request
  BY DEF IInv, TypeOK
<1>2. PICK q : q = [req[h] EXCEPT !.account = a]
  OBVIOUS
<1>3. q \in Request
  BY <1>1, <1>2 DEF Request
<1>4. /\ q.account = a /\ q.status = req[h].status /\ q.token = req[h].token
      /\ q.mtime = req[h].mtime
  BY <1>1, <1>2 DEF Request
<1>5. Judged(h, pc[h], req[h])
  BY DEF IInv
<1>6. Judged(h, "serve", q)
  BY <1>4, <1>5 DEF Judged
<1>7. pc' = [pc EXCEPT ![h] = "serve"] /\ req' = [req EXCEPT ![h] = q]
  BY <1>2 DEF Accept, Goto
<1>8. "serve" \in Places \ {"notePolicy"} /\ pc[h] # "notePolicy"
  BY DEF Places
<1>9. UNCHANGED <<outside, cache, raced>> /\ devices' \in [Accounts -> Nat]
  BY DEF IInv, TypeOK
<1> QED BY <1>3, <1>6, <1>7, <1>8, <1>9, ThreadStep

\* What the gate decides keeps the invariant.
LEMMA JudgeStep ==
  ASSUME IInv, NEW h \in Handlers, NEW m, pc[h] = "cached", Judge(h, m),
         UNCHANGED <<outside, cache, raced, devices>>
  PROVE  IInv'
<1>1. req[h] \in Request /\ req[h].token \in Tokens \cup {None}
  BY DEF IInv, TypeOK, Request
<1>2. PICK q : q = [Arrived(0, req[h].token) EXCEPT
                      !.status = IF req[h].version < m THEN 426 ELSE 0]
  OBVIOUS
<1>3. q \in Request
  <2>1. 426 \in Statuses /\ 0 \in Statuses /\ 0 \in Versions
    BY VersionsAssumption DEF Statuses
  <2> QED BY <1>1, <1>2, <2>1, ArrivedType
<1>4. q.account = None /\ q.token = req[h].token /\ q.status # 401 /\ q.mtime = 0
  BY <1>2 DEF Arrived
<1>5. PICK p : p = IF req[h].version < m THEN "done" ELSE "auth"
  OBVIOUS
<1>6. p \in Places \ {"notePolicy"} /\ p \in {"done", "auth"} /\ pc[h] # "notePolicy"
  BY <1>5 DEF Places
<1>7. Judged(h, pc[h], req[h]) /\ 0 <= file.mtime
  BY DEF IInv, TypeOK, File
<1>8. Judged(h, p, q)
  BY <1>4, <1>6, <1>7 DEF Judged
<1>9. pc' = [pc EXCEPT ![h] = p] /\ req' = [req EXCEPT ![h] = q]
  BY <1>2, <1>5 DEF Judge, Goto
<1>10. UNCHANGED <<outside, cache, raced>> /\ devices' \in [Accounts -> Nat]
  BY DEF IInv, TypeOK
<1> QED BY <1>3, <1>6, <1>8, <1>9, <1>10, ThreadStep

\* The steps of the gate that leave the cache alone keep the invariant.
LEMMA GateSteps ==
  ASSUME IInv, NEW h \in Handlers,
         Stat(h) \/ Compare(h) \/ UseCached(h) \/ ReadFile(h)
  PROVE  IInv'
<1>1. req[h] \in Request /\ Judged(h, pc[h], req[h]) /\ file \in File
  BY DEF IInv, TypeOK
<1>2. devices \in [Accounts -> Nat] /\ req = [req EXCEPT ![h] = req[h]]
  BY DEF IInv, TypeOK
<1>3. CASE Stat(h)
  <2>1. PICK q : q = [req[h] EXCEPT !.mtime = file.mtime]
    OBVIOUS
  <2>2. q \in Request
    BY <1>1, <2>1 DEF Request, File
  <2>3. /\ q.account = req[h].account /\ q.token = req[h].token
        /\ q.status = req[h].status /\ q.mtime = file.mtime
    BY <1>1, <2>1 DEF Request
  <2>4. PICK p : p = IF file.there THEN "compare" ELSE "auth"
    OBVIOUS
  <2>5. p \in Places \ {"notePolicy"} /\ p \in {"compare", "auth"}
    BY <2>4 DEF Places
  <2>6. file.mtime <= file.mtime
    BY <1>1 DEF File
  <2>7. pc[h] = "stat"
    BY <1>3 DEF Stat, At
  <2>8. Judged(h, p, q)
    BY <1>1, <2>3, <2>5, <2>6, <2>7 DEF Judged
  <2>9. /\ pc' = [pc EXCEPT ![h] = p] /\ req' = [req EXCEPT ![h] = q]
        /\ UNCHANGED <<outside, cache, raced>> /\ devices' \in [Accounts -> Nat]
    BY <1>2, <1>3, <2>1, <2>4 DEF Stat, Goto
  <2> QED BY <2>2, <2>5, <2>7, <2>8, <2>9, ThreadStep
<1>4. CASE Compare(h)
  <2>1. PICK p : p = IF cache.mtime = req[h].mtime THEN "cached" ELSE "read"
    OBVIOUS
  <2>2. p \in Places \ {"notePolicy"} /\ p \in {"cached", "read"}
    BY <2>1 DEF Places
  <2>3. pc[h] = "compare"
    BY <1>4 DEF Compare, At
  <2>4. Judged(h, p, req[h])
    BY <1>1, <2>2, <2>3 DEF Judged
  <2>5. /\ pc' = [pc EXCEPT ![h] = p] /\ req' = [req EXCEPT ![h] = req[h]]
        /\ UNCHANGED <<outside, cache, raced>> /\ devices' \in [Accounts -> Nat]
    BY <1>2, <1>4, <2>1 DEF Compare, Goto
  <2> QED BY <1>1, <2>2, <2>3, <2>4, <2>5, ThreadStep
<1>5. CASE UseCached(h)
  <2>1. /\ pc[h] = "cached" /\ Judge(h, cache.minimum)
        /\ UNCHANGED <<outside, cache, raced, devices>>
    BY <1>5 DEF UseCached, At
  <2> QED BY <2>1, JudgeStep
<1>6. CASE ReadFile(h)
  <2>1. PICK q : q = [req[h] EXCEPT !.minimum = IF file.there THEN file.minimum ELSE 0]
    OBVIOUS
  <2>2. q \in Request
    BY <1>1, <2>1, VersionsAssumption DEF Request, File
  <2>3. /\ q.account = req[h].account /\ q.token = req[h].token
        /\ q.status = req[h].status /\ q.mtime = req[h].mtime
        /\ file.there => q.minimum = file.minimum
    BY <1>1, <2>1 DEF Request
  <2>4. pc[h] = "read" /\ "noteMtime" \in Places \ {"notePolicy"}
    BY <1>6 DEF ReadFile, At, Places
  <2>5. Judged(h, "noteMtime", q)
    BY <1>1, <2>3, <2>4 DEF Judged
  <2>6. /\ pc' = [pc EXCEPT ![h] = "noteMtime"] /\ req' = [req EXCEPT ![h] = q]
        /\ UNCHANGED <<outside, cache, raced>> /\ devices' \in [Accounts -> Nat]
    BY <1>2, <1>6, <2>1 DEF ReadFile, Goto
  <2> QED BY <2>2, <2>4, <2>5, <2>6, ThreadStep
<1> QED BY <1>3, <1>4, <1>5, <1>6

\* The two writes to the cache keep the invariant.
LEMMA CacheSteps ==
  ASSUME IInv, NEW h \in Handlers, NoteMtime(h) \/ NotePolicy(h)
  PROVE  IInv'
<1>1. req[h] \in Request /\ Judged(h, pc[h], req[h]) /\ file \in File /\ cache \in Cache
  BY DEF IInv, TypeOK
<1>2. CASE NoteMtime(h)
  <2>1. UNCHANGED <<clock, conf, session, file, vouched, doubted, devices, req>>
    BY <1>2 DEF NoteMtime, outside
  <2>2. /\ pc[h] = "noteMtime" /\ pc' = [pc EXCEPT ![h] = "notePolicy"]
        /\ cache' = [cache EXCEPT !.mtime = req[h].mtime]
        /\ raced' = (\E g \in Handlers \ {h} : At(g, "notePolicy"))
    BY <1>2 DEF NoteMtime, At, Goto
  <2>3. \A g \in Handlers : pc'[g] = IF g = h THEN "notePolicy" ELSE pc[g]
    BY <2>2 DEF IInv, TypeOK
  <2>4. cache' \in Cache /\ cache'.mtime = req[h].mtime
    BY <1>1, <2>2 DEF Cache, Request
  <2>5. TypeOK'
    BY <2>1, <2>2, <2>4 DEF IInv, TypeOK, Places
  <2>6. ASSUME NEW g \in Handlers PROVE Judged(g, pc[g], req[g])'
    <3>1. Judged(g, pc[g], req[g])
      BY DEF IInv
    <3> QED BY <2>1, <2>2, <2>3, <3>1 DEF Judged, Vouchers, IsDevToken, GoodJwt
  <2>7. Times'
    BY <1>1, <2>1, <2>4 DEF IInv, Times, Judged
  <2>8. Alone'
    <3>1. SUFFICES ASSUME ~raced', NEW g \in Handlers, pc'[g] = "notePolicy"
                   PROVE  g = h
      BY <2>1, <2>4 DEF Alone, At
    <3> QED BY <2>2, <2>3, <3>1 DEF At
  <2>9. CacheTrue'
    BY <2>3 DEF CacheTrue, Settled, At
  <2> QED BY <2>5, <2>6, <2>7, <2>8, <2>9 DEF IInv
<1>3. CASE NotePolicy(h)
  <2>1. UNCHANGED <<clock, conf, session, file, vouched, doubted, devices, raced>>
    BY <1>3 DEF NotePolicy, outside
  <2>2. PICK q : q = [Arrived(0, req[h].token) EXCEPT
                        !.status = IF req[h].version < req[h].minimum THEN 426 ELSE 0]
    OBVIOUS
  <2>3. PICK p : p = IF req[h].version < req[h].minimum THEN "done" ELSE "auth"
    OBVIOUS
  <2>4. /\ pc[h] = "notePolicy" /\ pc' = [pc EXCEPT ![h] = p]
        /\ req' = [req EXCEPT ![h] = q]
        /\ cache' = [cache EXCEPT !.minimum = req[h].minimum]
    BY <1>3, <2>2, <2>3 DEF NotePolicy, At, Judge, Goto
  <2>5. q \in Request
    <3>1. /\ 426 \in Statuses /\ 0 \in Statuses /\ 0 \in Versions
          /\ req[h].token \in Tokens \cup {None}
      BY <1>1, VersionsAssumption DEF Statuses, Request
    <3> QED BY <2>2, <3>1, ArrivedType
  <2>6. q.account = None /\ q.token = req[h].token /\ q.status # 401 /\ q.mtime = 0
    BY <2>2 DEF Arrived
  <2>7. p \in Places /\ p \in {"done", "auth"}
    BY <2>3 DEF Places
  <2>8. \A g \in Handlers : /\ pc'[g] = IF g = h THEN p ELSE pc[g]
                            /\ req'[g] = IF g = h THEN q ELSE req[g]
    BY <2>4 DEF IInv, TypeOK
  <2>9. cache' \in Cache /\ cache'.mtime = cache.mtime /\ cache'.minimum = req[h].minimum
    BY <1>1, <2>4 DEF Cache, Request
  <2>10. TypeOK'
    BY <2>1, <2>4, <2>5, <2>7, <2>9 DEF IInv, TypeOK
  <2>11. ASSUME NEW g \in Handlers PROVE Judged(g, pc[g], req[g])'
    <3>1. Judged(g, pc[g], req[g]) /\ 0 <= file.mtime
      BY <1>1 DEF IInv, File
    <3> QED BY <2>1, <2>4, <2>6, <2>7, <2>8, <3>1 DEF Judged, Vouchers, IsDevToken, GoodJwt
  <2>12. Times'
    BY <2>1, <2>9 DEF IInv, Times
  <2>13. Alone'
    BY <2>1, <2>7, <2>8, <2>9 DEF IInv, Alone, At
  <2>14. CacheTrue'
    <3>1. SUFFICES ASSUME ~raced, file.there, cache.mtime = file.mtime
                   PROVE  req[h].minimum = file.minimum
      BY <2>1, <2>9 DEF CacheTrue
    <3>2. req[h].mtime = file.mtime
      BY <2>4, <3>1 DEF IInv, Alone, At
    <3> QED BY <1>1, <2>4, <3>1, <3>2 DEF Judged
  <2> QED BY <2>10, <2>11, <2>12, <2>13, <2>14 DEF IInv
<1> QED BY <1>2, <1>3

\* The steps of Authenticator.authenticate keep the invariant.
LEMMA AuthSteps ==
  ASSUME IInv, NEW h \in Handlers, Authenticate(h)
  PROVE  IInv'
<1>1. /\ req[h] \in Request /\ req[h].token \in Tokens \cup {None}
      /\ Judged(h, pc[h], req[h]) /\ TypeOK
  BY DEF IInv, TypeOK, Request
<1>2. devices \in [Accounts -> Nat] /\ req = [req EXCEPT ![h] = req[h]]
  BY DEF IInv, TypeOK
<1>3. CASE FromDevTokens(h)
  <2>1. /\ pc[h] = "auth" /\ IsDevToken(req[h].token)
        /\ Accept(h, DevAccount[req[h].token])
        /\ UNCHANGED <<outside, cache, raced, devices>>
    BY <1>3 DEF FromDevTokens, At
  <2>2. DevAccount[req[h].token] \in Vouchers(req[h].token, clock, session)
    BY <1>1, <2>1, Vouched
  <2>3. DevAccount[req[h].token] \in Accounts
    BY <2>2, VouchersType
  <2> QED BY <2>1, <2>2, <2>3, AcceptStep
<1>4. CASE FromJwt(h)
  <2>1. /\ pc[h] = "auth" /\ GoodJwt(req[h].token)
        /\ Accept(h, JwtAccount[req[h].token])
        /\ UNCHANGED <<outside, cache, raced, devices>>
    BY <1>4 DEF FromJwt, At
  <2>2. JwtAccount[req[h].token] \in Vouchers(req[h].token, clock, session)
    BY <1>1, <2>1, Vouched
  <2>3. JwtAccount[req[h].token] \in Accounts
    BY <2>2, VouchersType
  <2> QED BY <2>1, <2>2, <2>3, AcceptStep
<1>5. CASE AskService(h)
  <2>1. pc[h] = "auth" /\ "service" \in Places \ {"notePolicy"}
    BY <1>5 DEF AskService, At, Places
  <2>2. Judged(h, "service", req[h])
    BY <1>1, <1>5, <2>1 DEF Judged, AskService
  <2>3. /\ pc' = [pc EXCEPT ![h] = "service"] /\ req' = [req EXCEPT ![h] = req[h]]
        /\ UNCHANGED <<outside, cache, raced>> /\ devices' \in [Accounts -> Nat]
    BY <1>2, <1>5 DEF AskService, Goto
  <2> QED BY <1>1, <2>1, <2>2, <2>3, ThreadStep
<1>6. CASE RefuseToken(h)
  <2>1. /\ pc[h] = "auth" /\ Answer(h, 401) /\ 401 \in Statuses
        /\ ~IsDevToken(req[h].token) /\ ~GoodJwt(req[h].token)
        /\ req[h].token = None \/ "service" \notin conf
        /\ UNCHANGED <<outside, cache, raced, devices>>
    BY <1>6 DEF RefuseToken, At, Statuses
  <2>2. Vouchers(req[h].token, clock, session) = {}
    BY <1>1, <2>1, NobodyVouches
  <2>3. h \in doubted
    BY <1>1, <2>1, <2>2 DEF Judged
  <2>4. UNCHANGED <<outside, cache, raced>> /\ devices' \in [Accounts -> Nat]
    BY <1>2, <2>1
  <2> QED BY <2>1, <2>3, <2>4, AnswerStep
<1>7. CASE ServiceAccepts(h)
  <2>1. /\ pc[h] = "service" /\ session[req[h].token] # None
        /\ Accept(h, session[req[h].token])
        /\ UNCHANGED <<outside, cache, raced, devices>>
    BY <1>7 DEF ServiceAccepts, At
  <2>2. req[h].token # None /\ "service" \in conf
    BY <1>1, <2>1 DEF Judged
  <2>3. session[req[h].token] \in Vouchers(req[h].token, clock, session)
    BY <1>1, <2>1, <2>2, Vouched
  <2>4. session[req[h].token] \in Accounts
    BY <2>3, VouchersType
  <2> QED BY <2>1, <2>3, <2>4, AcceptStep
<1>8. CASE ServiceRefuses(h)
  <2>1. /\ pc[h] = "service" /\ session[req[h].token] = None
        /\ Answer(h, 401) /\ 401 \in Statuses
        /\ UNCHANGED <<outside, cache, raced, devices>>
    BY <1>8 DEF ServiceRefuses, At, Statuses
  <2>2. ~IsDevToken(req[h].token) /\ ~GoodJwt(req[h].token)
    BY <1>1, <2>1 DEF Judged
  <2>3. Vouchers(req[h].token, clock, session) = {}
    BY <1>1, <2>1, <2>2, NobodyVouches
  <2>4. h \in doubted
    BY <1>1, <2>1, <2>3 DEF Judged
  <2>5. UNCHANGED <<outside, cache, raced>> /\ devices' \in [Accounts -> Nat]
    BY <1>2, <2>1
  <2> QED BY <2>1, <2>4, <2>5, AnswerStep
<1>9. CASE ServiceDown(h)
  <2>1. PICK s \in {500, 503} : Answer(h, s)
    BY <1>9 DEF ServiceDown
  <2>2. s \in Statuses /\ s # 401 /\ pc[h] # "notePolicy"
    BY <1>9, <2>1 DEF Statuses, ServiceDown, At
  <2>3. UNCHANGED <<outside, cache, raced>> /\ devices' \in [Accounts -> Nat]
    BY <1>2, <1>9 DEF ServiceDown
  <2> QED BY <2>1, <2>2, <2>3, AnswerStep
<1> QED BY <1>3, <1>4, <1>5, <1>6, <1>7, <1>8, <1>9 DEF Authenticate

\* The operations keep the invariant.
LEMMA OperateSteps ==
  ASSUME IInv, NEW h \in Handlers, Operate(h)
  PROVE  IInv'
<1>1. /\ req[h] \in Request /\ Judged(h, pc[h], req[h]) /\ clock \in Nat
      /\ devices \in [Accounts -> Nat]
  BY BoundAssumption DEF IInv, TypeOK
<1>2. {200, 400, 500} \subseteq Statuses /\ 401 \notin {200, 400, 500}
  BY DEF Statuses
<1>3. CASE RefuseRequest(h) \/ Serve(h) \/ WriteFails(h)
  <2>1. PICK s \in {200, 400, 500} : Answer(h, s)
    BY <1>3 DEF RefuseRequest, Serve, WriteFails
  <2>2. pc[h] # "notePolicy" /\ s \in Statuses /\ s # 401
    BY <1>2, <1>3, <2>1 DEF RefuseRequest, Serve, WriteFails, At
  <2>3. UNCHANGED <<outside, cache, raced>> /\ devices' \in [Accounts -> Nat]
    BY <1>1, <1>3 DEF RefuseRequest, Serve, WriteFails
  <2> QED BY <2>1, <2>2, <2>3, AnswerStep
<1>4. CASE ReadTime(h)
  <2>1. PICK q : q = [req[h] EXCEPT !.seen = clock]
    OBVIOUS
  <2>2. q \in Request
    BY <1>1, <2>1 DEF Request
  <2>3. /\ q.account = req[h].account /\ q.token = req[h].token
        /\ q.status = req[h].status /\ q.mtime = req[h].mtime
    BY <1>1, <2>1 DEF Request
  <2>4. pc[h] = "serve" /\ "register" \in Places \ {"notePolicy"}
    BY <1>4 DEF ReadTime, At, Places
  <2>5. Judged(h, "register", q)
    BY <1>1, <2>3, <2>4 DEF Judged
  <2>6. /\ pc' = [pc EXCEPT ![h] = "register"] /\ req' = [req EXCEPT ![h] = q]
        /\ UNCHANGED <<outside, cache, raced>> /\ devices' \in [Accounts -> Nat]
    BY <1>1, <1>4, <2>1 DEF ReadTime, Goto
  <2> QED BY <2>2, <2>4, <2>5, <2>6, ThreadStep
<1>5. CASE WriteDevice(h)
  <2>1. /\ pc[h] # "notePolicy" /\ Answer(h, 200) /\ 200 \in Statuses
        /\ UNCHANGED <<outside, cache, raced>>
    BY <1>2, <1>5 DEF WriteDevice, At
  <2>2. devices' \in [Accounts -> Nat]
    BY <1>1, <1>5 DEF WriteDevice, Request
  <2> QED BY <2>1, <2>2, AnswerStep
<1> QED BY <1>3, <1>4, <1>5 DEF Operate

\* A request that arrives starts with what the authorities say at that moment.
LEMMA ReceiveStep ==
  ASSUME IInv, NEW h \in Handlers, NEW v \in Versions, NEW t \in Tokens \cup {None},
         Receive(h, v, t)
  PROVE  IInv'
<1>1. UNCHANGED <<clock, conf, session, file, cache, raced, devices>>
  BY DEF Receive
<1>2. PICK q : q = Arrived(v, t)
  OBVIOUS
<1>3. q \in Request /\ q.account = None /\ q.status = 0 /\ q.token = t /\ q.mtime = 0
  <2>1. 0 \in Statuses
    BY DEF Statuses
  <2>2. q \in Request
    BY <1>2, <2>1, ArrivedType
  <2> QED BY <1>2, <2>2 DEF Arrived
<1>4. PICK p : p = IF v = 0 THEN "auth" ELSE "stat"
  OBVIOUS
<1>5. p \in Places /\ p \in {"auth", "stat"}
  BY <1>4 DEF Places
<1>6. /\ pc[h] = "done" /\ pc' = [pc EXCEPT ![h] = p] /\ req' = [req EXCEPT ![h] = q]
      /\ vouched' = [vouched EXCEPT ![h] = Vouchers(t, clock, session)]
      /\ doubted' = IF Vouchers(t, clock, session) = {}
                    THEN doubted \cup {h} ELSE doubted \ {h}
  BY <1>2, <1>4 DEF Receive, At, Goto
<1>7. \A g \in Handlers : /\ pc'[g] = IF g = h THEN p ELSE pc[g]
                          /\ req'[g] = IF g = h THEN q ELSE req[g]
  BY <1>6 DEF IInv, TypeOK
<1>8. TypeOK'
  BY <1>1, <1>3, <1>5, <1>6, VouchersType DEF IInv, TypeOK
<1>9. ASSUME NEW g \in Handlers PROVE Judged(g, pc[g], req[g])'
  <2>1. CASE g = h
    <3>1. /\ vouched'[h] = Vouchers(t, clock, session)
          /\ Vouchers(t, clock, session) = {} => h \in doubted'
          /\ 0 <= file'.mtime
      BY <1>1, <1>6 DEF IInv, TypeOK, File
    <3>2. Vouchers(t, clock, session)' = Vouchers(t, clock, session)
      BY <1>1 DEF Vouchers
    <3> QED BY <1>3, <1>5, <1>7, <2>1, <3>1, <3>2 DEF Judged
  <2>2. CASE g # h
    <3>1. /\ Judged(g, pc[g], req[g]) /\ pc'[g] = pc[g] /\ req'[g] = req[g]
          /\ vouched'[g] = vouched[g]
          /\ g \in doubted => g \in doubted'
      BY <1>6, <1>7, <2>2 DEF IInv, TypeOK
    <3>2. /\ Vouchers(req[g].token, clock, session)' = Vouchers(req[g].token, clock, session)
          /\ IsDevToken(req[g].token)' = IsDevToken(req[g].token)
          /\ GoodJwt(req[g].token)' = GoodJwt(req[g].token)
      BY <1>1, <3>1 DEF Vouchers, IsDevToken, GoodJwt
    <3> QED BY <1>1, <3>1, <3>2 DEF Judged
  <2> QED BY <2>1, <2>2
<1>10. Times' /\ Alone'
  BY <1>1, <1>5, <1>6, <1>7 DEF IInv, Times, Alone, At
<1>11. CacheTrue'
  BY <1>1, <1>5, <1>6, <1>7 DEF IInv, CacheTrue, Settled, At
<1> QED BY <1>8, <1>9, <1>10, <1>11 DEF IInv

\* Time that passes and sessions that change keep the invariant.
LEMMA HearSteps ==
  ASSUME IInv, Tick \/ \E t \in Tokens, a \in Accounts \cup {None} : SessionChanges(t, a)
  PROVE  IInv'
<1>1. /\ UNCHANGED <<conf, file, cache, raced, devices, pc, req>> /\ Hears
      /\ clock' \in 0..MaxClock /\ clock <= clock'
      /\ session' \in [Tokens -> Accounts \cup {None}]
  BY BoundAssumption DEF Tick, SessionChanges, IInv, TypeOK
<1>2. \A g \in Handlers :
        LET now == Vouchers(req[g].token, clock', session') IN
        /\ vouched'[g] = IF pc[g] = "done" THEN vouched[g] ELSE vouched[g] \cup now
        /\ g \in doubted => g \in doubted'
        /\ pc[g] # "done" /\ now = {} => g \in doubted'
  BY <1>1 DEF Hears, At
<1>3. TypeOK'
  BY <1>1, VouchersType DEF IInv, TypeOK, Hears, At
<1>4. ASSUME NEW g \in Handlers PROVE Judged(g, pc[g], req[g])'
  <2>1. /\ Judged(g, pc[g], req[g]) /\ req[g] \in Request
        /\ clock \in Nat /\ clock' \in Nat
    BY <1>1, BoundAssumption DEF IInv, TypeOK
  <2>2. /\ Vouchers(req[g].token, clock, session)' = Vouchers(req[g].token, clock', session')
        /\ IsDevToken(req[g].token)' = IsDevToken(req[g].token)
    BY <1>1 DEF Vouchers, IsDevToken
  <2>3. GoodJwt(req[g].token)' => GoodJwt(req[g].token)
    BY <1>1, <2>1, TokensAssumption, BoundAssumption DEF GoodJwt, Request
  <2> QED BY <1>1, <1>2, <2>1, <2>2, <2>3 DEF Judged
<1>5. Times' /\ Alone' /\ CacheTrue'
  BY <1>1 DEF IInv, Times, Alone, CacheTrue, Settled, At
<1> QED BY <1>3, <1>4, <1>5 DEF IInv

\* Whatever happens to the policy file keeps the invariant.
LEMMA FileSteps ==
  ASSUME IInv, RemoveFile \/ \E m \in Minimums : WriteFile(m)
  PROVE  IInv'
<1>1. UNCHANGED <<clock, conf, session, cache, raced, devices, pc, req, vouched, doubted>>
  BY DEF RemoveFile, WriteFile
<1>2. /\ file \in File /\ cache \in Cache /\ req \in [Handlers -> Request]
  BY DEF IInv, TypeOK
<1>3. /\ file' \in File /\ file.mtime <= file'.mtime
      /\ \/ file'.mtime = file.mtime /\ file'.there = FALSE
         \/ file'.mtime = file.mtime + 1
  <2>1. CASE RemoveFile
    <3>1. file' = [file EXCEPT !.there = FALSE] /\ file.mtime \in Nat
      BY <1>2, <2>1 DEF RemoveFile, File
    <3>2. file' \in File /\ file'.mtime = file.mtime /\ file'.there = FALSE
      BY <1>2, <3>1 DEF File
    <3> QED BY <3>1, <3>2
  <2>2. CASE \E m \in Minimums : WriteFile(m)
    <3>1. PICK m \in Minimums : file' = [there |-> TRUE, mtime |-> file.mtime + 1, minimum |-> m]
      BY <2>2 DEF WriteFile
    <3> QED BY <1>2, <3>1 DEF File
  <2> QED BY <2>1, <2>2
<1>4. TypeOK'
  BY <1>1, <1>3 DEF IInv, TypeOK
<1>5. ASSUME NEW g \in Handlers PROVE Judged(g, pc[g], req[g])'
  <2>1. Judged(g, pc[g], req[g]) /\ req[g].mtime \in Nat /\ file.mtime \in Nat
    BY <1>2 DEF IInv, Request, File
  <2>2. req[g].mtime <= file.mtime
    BY <2>1 DEF Judged
  <2>3. file'.there /\ req[g].mtime = file'.mtime => FALSE
    BY <1>3, <2>1, <2>2
  <2> QED BY <1>1, <1>3, <2>1, <2>2, <2>3 DEF Judged, Vouchers, IsDevToken, GoodJwt, File
<1>6. Times' /\ Alone' /\ CacheTrue'
  BY <1>1, <1>2, <1>3 DEF IInv, Times, Alone, CacheTrue, Settled, At, File, Cache
<1> QED BY <1>4, <1>5, <1>6 DEF IInv

\* A restart keeps the invariant.
LEMMA RestartStep ==
  ASSUME IInv, Restart
  PROVE  IInv'
<1>1. PICK q : q = Arrived(0, None)
  OBVIOUS
<1>2. q \in Request /\ q.account = None /\ q.status = 0 /\ q.mtime = 0
  <2>1. q \in Request
    <3>1. 0 \in Versions /\ 0 \in Statuses /\ None \in Tokens \cup {None}
      BY VersionsAssumption DEF Statuses
    <3> QED BY <1>1, <3>1, ArrivedType
  <2> QED BY <1>1, <2>1 DEF Arrived
<1>3. /\ req' = [h \in Handlers |-> q] /\ pc' = [h \in Handlers |-> "done"]
      /\ cache' = [mtime |-> 0, minimum |-> 0] /\ raced' = FALSE
      /\ vouched' = [h \in Handlers |-> {}] /\ doubted' = {}
      /\ UNCHANGED <<clock, conf, session, file, devices>>
  BY <1>1 DEF Restart
<1>4. TypeOK'
  BY <1>2, <1>3, VersionsAssumption DEF IInv, TypeOK, Cache, Places
<1>5. 1 <= file.mtime /\ file.mtime \in Nat
  BY DEF IInv, Times, TypeOK, File
<1>6. \A g \in Handlers : Judged(g, pc[g], req[g])'
  BY <1>2, <1>3, <1>5 DEF Judged
<1>7. Times' /\ Alone' /\ CacheTrue'
  BY <1>3, <1>5 DEF Times, Alone, CacheTrue, At
<1> QED BY <1>4, <1>6, <1>7 DEF IInv
-----------------------------------------------------------------------------
\* The strengthening is an invariant of the request path: what each thread knows
\* of its token and of the file it has read outlives every step of the others.
THEOREM Invariance == Spec => []IInv
<1>1. Init => IInv
  <2> SUFFICES ASSUME Init PROVE IInv
    OBVIOUS
  <2>1. PICK q : q = Arrived(0, None)
    OBVIOUS
  <2>2. q \in Request /\ q.account = None /\ q.status = 0 /\ q.mtime = 0
    <3>1. q \in Request
      <4>1. 0 \in Versions /\ 0 \in Statuses /\ None \in Tokens \cup {None}
        BY VersionsAssumption DEF Statuses
      <4> QED BY <2>1, <4>1, ArrivedType
    <3> QED BY <2>1, <3>1 DEF Arrived
  <2>3. req = [h \in Handlers |-> q]
    BY <2>1 DEF Init
  <2>4. TypeOK
    <3>1. req \in [Handlers -> Request] /\ cache \in Cache /\ file \in File
      <4>1. req \in [Handlers -> Request]
        BY <2>2, <2>3
      <4>2. cache \in Cache
        BY VersionsAssumption DEF Init, Cache
      <4>3. PICK m \in Minimums : file = [there |-> TRUE, mtime |-> 1, minimum |-> m]
        BY DEF Init
      <4> QED BY <4>1, <4>2, <4>3 DEF File
    <3>2. clock \in 0..MaxClock
      BY BoundAssumption DEF Init
    <3>3. conf \in SUBSET Authorities
      <4>1. conf \in Configurations
        BY DEF Init
      <4> QED BY <4>1, ConfigurationsAssumption DEF Authorities
    <3> QED BY <3>1, <3>2, <3>3 DEF Init, TypeOK, Places
  <2>5. \A g \in Handlers : Judged(g, pc[g], req[g])
    BY <2>2, <2>3 DEF Init, Judged
  <2>6. Times /\ Alone /\ CacheTrue
    BY DEF Init, Times, Alone, CacheTrue, At
  <2> QED BY <2>4, <2>5, <2>6 DEF IInv
<1>2. IInv /\ [Next]_vars => IInv'
  <2> SUFFICES ASSUME IInv, [Next]_vars PROVE IInv'
    OBVIOUS
  <2>1. ASSUME NEW h \in Handlers, NEW v \in Versions, NEW t \in Tokens \cup {None},
               Receive(h, v, t)
        PROVE  IInv'
    BY <2>1, ReceiveStep
  <2>2. ASSUME NEW h \in Handlers, Gate(h) PROVE IInv'
    BY <2>2, GateSteps, CacheSteps DEF Gate
  <2>3. ASSUME NEW h \in Handlers, Authenticate(h) \/ Operate(h) PROVE IInv'
    BY <2>3, AuthSteps, OperateSteps
  <2>4. CASE Tick \/ \E t \in Tokens, a \in Accounts \cup {None} : SessionChanges(t, a)
    BY <2>4, HearSteps
  <2>5. CASE RemoveFile \/ \E m \in Minimums : WriteFile(m)
    BY <2>5, FileSteps
  <2>6. CASE Restart
    BY <2>6, RestartStep
  <2>7. CASE UNCHANGED vars
    BY <2>7 DEF vars, IInv, TypeOK, Judged, Vouchers, IsDevToken, GoodJwt, Times, Alone,
                CacheTrue, Settled, At
  <2> QED BY <2>1, <2>2, <2>3, <2>4, <2>5, <2>6, <2>7 DEF Next
<1> QED BY <1>1, <1>2, PTL DEF Spec

\* Every variable of the request path keeps its type.
THEOREM TypeCorrect == Spec => []TypeOK
<1>1. IInv => TypeOK
  BY DEF IInv
<1> QED BY <1>1, Invariance, PTL

\* Nobody is served under an account no configured authority named for the
\* token while the request ran.
THEOREM ServedVouchedCorrect == Spec => []ServedVouched
<1>1. IInv => ServedVouched
  BY DEF IInv, Judged, ServedVouched
<1> QED BY <1>1, Invariance, PTL

\* A token is refused only if at some moment of the request nobody vouched.
THEOREM RefusedHonestlyCorrect == Spec => []RefusedHonestly
<1>1. IInv => RefusedHonestly
  BY DEF IInv, Judged, RefusedHonestly
<1> QED BY <1>1, Invariance, PTL

\* Without a race a cache with the time of the file has its policy.
THEOREM CacheCorrect == Spec => []CacheTrue
<1>1. IInv => CacheTrue
  BY DEF IInv
<1> QED BY <1>1, Invariance, PTL
=============================================================================
