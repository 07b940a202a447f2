---------------------------- MODULE RequestGate ----------------------------
(***************************************************************************)
(* What the sync backend (server/cloud_sync_backend) does with a request   *)
(* before an operation runs: VersionUpgradeGate with its cached policy     *)
(* (config.py), Authenticator with its token authorities (auth.py), and    *)
(* register_device, the operation that touches no log.                     *)
(*                                                                         *)
(* Threads share the cached policy without a lock.  file is the policy     *)
(* file, which operators replace while the server runs; session is what    *)
(* the account service says of a token.  vouched and doubted record what   *)
(* the authorities said of a request's token while it ran, raced that two  *)
(* threads wrote the cache at once: they are history.                      *)
(***************************************************************************)
EXTENDS Naturals, FiniteSets

CONSTANTS
  Handlers,      \* request threads
  Tokens,        \* bearer tokens
  Accounts,
  Versions,      \* of the app; 0: none in the headers
  Minimums,      \* minSupportedVersion in a policy file; 0: none
  DevAccount,    \* account of a token in FLEET_SYNC_DEV_TOKENS_JSON, or None
  JwtAccount,    \* account of a token signed with the HS256 secret, or None
  Configurations, \* the sets of authorities a server may be configured with
  Lasting,       \* tokens signed without a numeric exp
  Expiry,        \* exp of the others
  Leeway,        \* leeway_seconds
  MaxClock,      \* bound of the clock
  MaxWrites,     \* bound of the changes to the policy file
  None

ASSUME NoneAssumption == None \notin Tokens \cup Accounts
ASSUME TokensAssumption ==
  /\ DevAccount \in [Tokens -> Accounts \cup {None}]
  /\ JwtAccount \in [Tokens -> Accounts \cup {None}]
  /\ Lasting \subseteq Tokens
  /\ Expiry \in [Tokens -> Nat]
ASSUME ConfigurationsAssumption ==
  Configurations \subseteq SUBSET {"dev", "secret", "service"}
ASSUME VersionsAssumption ==
  Versions \subseteq Nat /\ Minimums \subseteq Nat /\ 0 \in Versions \cap Minimums
ASSUME BoundAssumption ==
  Leeway \in Nat /\ MaxClock \in Nat /\ MaxWrites \in Nat

VARIABLES clock, conf, session, file, cache, raced, devices, pc, req,
          vouched, doubted

vars    == <<clock, conf, session, file, cache, raced, devices, pc, req,
             vouched, doubted>>
outside == <<clock, conf, session, file, vouched, doubted>>

Authorities == {"dev", "secret", "service"}

\* Where a thread is in SyncRequestHandler._handle.
Places == {"done", "stat", "compare", "cached", "read", "noteMtime", "notePolicy",
           "auth", "service", "serve", "register"}

Statuses == {0, 200, 400, 401, 426, 500, 503}

\* A policy file with its modification time; minimum 0: nothing usable in it.
File  == [there : BOOLEAN, mtime : Nat, minimum : Minimums]
\* _cached_mtime (0: never loaded) and _cached_policy.
Cache == [mtime : Nat, minimum : Minimums]

\* A request: its headers, the mtime and policy it has read, the account it is
\* served for, the time it registers a device with, the status of its answer.
Request == [version : Versions, token : Tokens \cup {None},
            mtime : Nat, minimum : Minimums, account : Accounts \cup {None},
            seen : Nat, status : Statuses]

Arrived(v, t) == [version |-> v, token |-> t, mtime |-> 0, minimum |-> 0,
                  account |-> None, seen |-> 0, status |-> 0]

At(h, p)   == pc[h] = p
Goto(h, p) == pc' = [pc EXCEPT ![h] = p]
\* The thread ends with its answer; only the status is left of the request.
Answer(h, s) ==
  /\ Goto(h, "done")
  /\ req' = [req EXCEPT ![h] = [Arrived(0, None) EXCEPT !.status = s]]

\* What vouches for a token at time c, with session s of the account service.
Vouchers(t, c, s) ==
  IF t = None THEN {}
  ELSE { a \in Accounts :
           \/ "dev" \in conf /\ DevAccount[t] = a
           \/ /\ "secret" \in conf /\ JwtAccount[t] = a
              /\ t \in Lasting \/ c <= Expiry[t] + Leeway
           \/ "service" \in conf /\ s[t] = a }

\* History: the requests that run hear of a new time or session.
Hears ==
  LET Now(h) == Vouchers(req[h].token, clock', session') IN
  /\ vouched' = [h \in Handlers |->
       IF At(h, "done") THEN vouched[h] ELSE vouched[h] \cup Now(h)]
  /\ doubted' = doubted \cup {h \in Handlers : ~At(h, "done") /\ Now(h) = {}}
-----------------------------------------------------------------------------
\* Authenticator.__init__ refuses to run without an authority.
Init ==
  /\ clock   = 0
  /\ conf    \in Configurations
  /\ session \in [Tokens -> Accounts \cup {None}]
  /\ file    \in { [there |-> TRUE, mtime |-> 1, minimum |-> m] : m \in Minimums }
  /\ cache   = [mtime |-> 0, minimum |-> 0]
  /\ raced   = FALSE
  /\ devices = [a \in Accounts |-> 0]
  /\ pc      = [h \in Handlers |-> "done"]
  /\ req     = [h \in Handlers |-> Arrived(0, None)]
  /\ vouched = [h \in Handlers |-> {}]
  /\ doubted = {}

\* A request arrives; the gate lets one without version headers through.
Receive(h, v, t) ==
  /\ At(h, "done")
  /\ Goto(h, IF v = 0 THEN "auth" ELSE "stat")
  /\ req' = [req EXCEPT ![h] = Arrived(v, t)]
  /\ vouched' = [vouched EXCEPT ![h] = Vouchers(t, clock, session)]
  /\ doubted' = IF Vouchers(t, clock, session) = {}
                THEN doubted \cup {h} ELSE doubted \ {h}
  /\ UNCHANGED <<clock, conf, session, file, cache, raced, devices>>

\* os.path.getmtime; a request is let through when it fails.
Stat(h) ==
  /\ At(h, "stat")
  /\ Goto(h, IF file.there THEN "compare" ELSE "auth")
  /\ req' = [req EXCEPT ![h].mtime = file.mtime]
  /\ UNCHANGED <<outside, cache, raced, devices>>

Compare(h) ==
  /\ At(h, "compare")
  /\ Goto(h, IF cache.mtime = req[h].mtime THEN "cached" ELSE "read")
  /\ UNCHANGED <<outside, cache, raced, devices, req>>

\* The version is compared with minimum m, before any token; what the gate
\* has read is needed no more.
Judge(h, m) ==
  LET refused == req[h].version < m IN
  /\ Goto(h, IF refused THEN "done" ELSE "auth")
  /\ req' = [req EXCEPT ![h] =
       [Arrived(0, @.token) EXCEPT !.status = IF refused THEN 426 ELSE 0]]

UseCached(h) ==
  /\ At(h, "cached")
  /\ Judge(h, cache.minimum)
  /\ UNCHANGED <<outside, cache, raced, devices>>

\* Variant: a file that is gone is noted as such.
ReadFileGone(h) ==
  /\ At(h, "read")
  /\ Goto(h, "noteMtime")
  /\ req' = [req EXCEPT ![h].minimum = IF file.there THEN file.minimum ELSE None]
  /\ UNCHANGED <<outside, cache, raced, devices>>

\* A file that is gone or not JSON is no policy.
ReadFile(h) ==
  /\ At(h, "read")
  /\ Goto(h, "noteMtime")
  /\ req' = [req EXCEPT ![h].minimum = IF file.there THEN file.minimum ELSE 0]
  /\ UNCHANGED <<outside, cache, raced, devices>>

\* Variant: the time of the file is taken when it is noted.
NoteMtimeLate(h) ==
  /\ At(h, "noteMtime")
  /\ Goto(h, "notePolicy")
  /\ cache' = [cache EXCEPT !.mtime = file.mtime]
  /\ raced' = (\E g \in Handlers \ {h} : At(g, "notePolicy"))
  /\ UNCHANGED <<outside, devices, req>>

\* The cache is written field by field.
NoteMtime(h) ==
  /\ At(h, "noteMtime")
  /\ Goto(h, "notePolicy")
  /\ cache' = [cache EXCEPT !.mtime = req[h].mtime]
  /\ raced' = (\E g \in Handlers \ {h} : At(g, "notePolicy"))
  /\ UNCHANGED <<outside, devices, req>>

NotePolicy(h) ==
  /\ At(h, "notePolicy")
  /\ cache' = [cache EXCEPT !.minimum = req[h].minimum]
  /\ Judge(h, req[h].minimum)
  /\ UNCHANGED <<outside, raced, devices>>
-----------------------------------------------------------------------------
\* Authenticator.authenticate, in its order.
IsDevToken(t) == t # None /\ "dev" \in conf /\ DevAccount[t] # None

\* Variant: exp is not looked at.
SignedToken(t) == t # None /\ "secret" \in conf /\ JwtAccount[t] # None

\* _authenticate_hs256_jwt accepts the token.  (A header or payload that is
\* JSON but no object would come out as 500; no such token is taken here.)
GoodJwt(t) ==
  /\ t # None /\ "secret" \in conf
  /\ JwtAccount[t] # None
  /\ t \in Lasting \/ clock <= Expiry[t] + Leeway

Accept(h, a) ==
  /\ Goto(h, "serve")
  /\ req' = [req EXCEPT ![h].account = a]

FromDevTokens(h) ==
  /\ At(h, "auth")
  /\ IsDevToken(req[h].token)
  /\ Accept(h, DevAccount[req[h].token])
  /\ UNCHANGED <<outside, cache, raced, devices>>

FromJwt(h) ==
  /\ At(h, "auth")
  /\ ~IsDevToken(req[h].token) /\ GoodJwt(req[h].token)
  /\ Accept(h, JwtAccount[req[h].token])
  /\ UNCHANGED <<outside, cache, raced, devices>>

\* A JWT that is not accepted is not refused while there is a service to ask.
AskService(h) ==
  /\ At(h, "auth")
  /\ req[h].token # None
  /\ ~IsDevToken(req[h].token) /\ ~GoodJwt(req[h].token)
  /\ "service" \in conf
  /\ Goto(h, "service")
  /\ UNCHANGED <<outside, cache, raced, devices, req>>

RefuseToken(h) ==
  /\ At(h, "auth")
  /\ ~IsDevToken(req[h].token) /\ ~GoodJwt(req[h].token)
  /\ req[h].token = None \/ "service" \notin conf
  /\ Answer(h, 401)
  /\ UNCHANGED <<outside, cache, raced, devices>>

ServiceAccepts(h) ==
  /\ At(h, "service")
  /\ session[req[h].token] # None
  /\ Accept(h, session[req[h].token])
  /\ UNCHANGED <<outside, cache, raced, devices>>

ServiceRefuses(h) ==
  /\ At(h, "service")
  /\ session[req[h].token] = None
  /\ Answer(h, 401)
  /\ UNCHANGED <<outside, cache, raced, devices>>

\* Variant: any error of the service is a refusal.
ServiceDownRefuses(h) ==
  /\ At(h, "service")
  /\ Answer(h, 401)
  /\ UNCHANGED <<outside, cache, raced, devices>>

\* No answer, an error or not JSON; a timeout while reading is not caught.
ServiceDown(h) ==
  /\ At(h, "service")
  /\ \E s \in {500, 503} : Answer(h, s)
  /\ UNCHANGED <<outside, cache, raced, devices>>
-----------------------------------------------------------------------------
\* Endpoint, length, body or rate of the request refused.
RefuseRequest(h) ==
  /\ At(h, "serve")
  /\ Answer(h, 400)
  /\ UNCHANGED <<outside, cache, raced, devices>>

\* A push or a pull, which SyncServer has in detail.
Serve(h) ==
  /\ At(h, "serve")
  /\ \E s \in {200, 500} : Answer(h, s)
  /\ UNCHANGED <<outside, cache, raced, devices>>

\* register_device: the time is read before the row is written.
ReadTime(h) ==
  /\ At(h, "serve")
  /\ Goto(h, "register")
  /\ req' = [req EXCEPT ![h].seen = clock]
  /\ UNCHANGED <<outside, cache, raced, devices>>

WriteDevice(h) ==
  /\ At(h, "register")
  /\ devices' = [devices EXCEPT ![req[h].account] = req[h].seen]
  /\ Answer(h, 200)
  /\ UNCHANGED <<outside, cache, raced>>

WriteFails(h) ==
  /\ At(h, "register")
  /\ Answer(h, 500)
  /\ UNCHANGED <<outside, cache, raced, devices>>
-----------------------------------------------------------------------------
Tick ==
  /\ clock < MaxClock
  /\ clock' = clock + 1
  /\ UNCHANGED session
  /\ Hears
  /\ UNCHANGED <<conf, file, cache, raced, devices, pc, req>>

\* A login, a logout, a change of account.
SessionChanges(t, a) ==
  /\ session' = [session EXCEPT ![t] = a]
  /\ UNCHANGED clock
  /\ Hears
  /\ UNCHANGED <<conf, file, cache, raced, devices, pc, req>>

\* The file is written: minimum 0 is half of it, or a policy without minimum.
WriteFile(m) ==
  /\ file.mtime < MaxWrites
  /\ file' = [there |-> TRUE, mtime |-> file.mtime + 1, minimum |-> m]
  /\ UNCHANGED <<clock, conf, session, cache, raced, devices, pc, req, vouched, doubted>>

RemoveFile ==
  /\ file.there
  /\ file' = [file EXCEPT !.there = FALSE]
  /\ UNCHANGED <<clock, conf, session, cache, raced, devices, pc, req, vouched, doubted>>

\* The process dies and starts again: only the devices are on disk.
Restart ==
  /\ cache'   = [mtime |-> 0, minimum |-> 0]
  /\ raced'   = FALSE
  /\ pc'      = [h \in Handlers |-> "done"]
  /\ req'     = [h \in Handlers |-> Arrived(0, None)]
  /\ vouched' = [h \in Handlers |-> {}]
  /\ doubted' = {}
  /\ UNCHANGED <<clock, conf, session, file, devices>>

Gate(h) ==
  Stat(h) \/ Compare(h) \/ UseCached(h) \/ ReadFile(h) \/ NoteMtime(h) \/ NotePolicy(h)

Authenticate(h) ==
  \/ FromDevTokens(h) \/ FromJwt(h) \/ AskService(h) \/ RefuseToken(h)
  \/ ServiceAccepts(h) \/ ServiceRefuses(h) \/ ServiceDown(h)

Operate(h) ==
  RefuseRequest(h) \/ Serve(h) \/ ReadTime(h) \/ WriteDevice(h) \/ WriteFails(h)

Next ==
  \/ \E h \in Handlers :
       \/ \E v \in Versions, t \in Tokens \cup {None} : Receive(h, v, t)
       \/ Gate(h) \/ Authenticate(h) \/ Operate(h)
  \/ Tick
  \/ \E t \in Tokens, a \in Accounts \cup {None} : SessionChanges(t, a)
  \/ \E m \in Minimums : WriteFile(m)
  \/ RemoveFile
  \/ Restart

Spec == Init /\ [][Next]_vars
-----------------------------------------------------------------------------
TypeOK ==
  /\ clock \in 0..MaxClock
  /\ conf \in SUBSET Authorities
  /\ session \in [Tokens -> Accounts \cup {None}]
  /\ file \in File /\ cache \in Cache
  /\ raced \in BOOLEAN
  /\ devices \in [Accounts -> Nat]
  /\ pc \in [Handlers -> Places]
  /\ req \in [Handlers -> Request]
  /\ vouched \in [Handlers -> SUBSET Accounts]
  /\ doubted \subseteq Handlers

\* A request is served under an account only if an authority the server was
\* configured with named that account for its token at some moment since it
\* arrived, whatever expired or logged out between the checks.
ServedVouched ==
  \A h \in Handlers : req[h].account # None => req[h].account \in vouched[h]

\* 401, by which the app learns that its login is over, is answered only if at
\* some moment since the request arrived no authority vouched for the token; an
\* account service that does not answer is another status.
RefusedHonestly ==
  \A h \in Handlers : req[h].status = 401 => h \in doubted

\* The minimum a reader of the file gets now.
Minimum == IF file.there THEN file.minimum ELSE 0

\* No thread is between the two writes to the cache.
Settled == \A h \in Handlers : ~At(h, "notePolicy")

\* A cache with the time of the file has its policy, so that a raised minimum
\* is enforced from the next request on; threads that wrote it at once excepted.
CacheTrue ==
  Settled /\ ~raced /\ file.there /\ cache.mtime = file.mtime
    => cache.minimum = file.minimum

\* docs/architecture/app-version-update-design.md leaves the enforcement of a
\* raised minSupportedVersion to the 426 of the server: a cache that passes for
\* fresh has the policy of the file.
GateCurrent ==
  Settled /\ file.there /\ cache.mtime = file.mtime => cache.minimum = file.minimum
=============================================================================
