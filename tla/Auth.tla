-------------------------------- MODULE Auth --------------------------------
(***************************************************************************)
(* Request authentication (rekt-auth): the chain that routes a request to  *)
(* the verifier of its scheme, the credential caches in front of           *)
(* PostgreSQL (SigV4 secrets and API tokens), and the cache of an issuer's *)
(* published key set, with its single-flight refresh.  A process boots     *)
(* from a configuration, crashes and boots again.                          *)
(*                                                                         *)
(* Time is discrete.  A cache entry carries the ticks it has left, and a   *)
(* request the ticks it has waited, so that no absolute clock is needed.   *)
(***************************************************************************)
EXTENDS Integers, AuthConfig

CONSTANTS Slot,        \* requests in flight at once
          Akid,        \* access key ids, rows of _rektifier_aws_credentials
          Token,       \* token hashes, rows of _rektifier_api_tokens
          Secret,      \* the usable values of a row
          Kid,         \* key ids an issuer may publish
          Unsupported, \* the key ids whose algorithm parse_alg does not know
          InitialRow, InitialKids,  \* the tables and the key set at first boot
          Configs,     \* the configuration files the operator may deploy
          Requests,    \* the requests clients may send
          Ttl, NegativeTtl,  \* lifetimes of positive and negative entries
          Timeout,     \* request_timeout, in ticks
          MaxEvents,   \* bound on changes of rows and key sets and on crashes
          NoOne        \* no holder of the refresh lock

Cred == Akid \cup Token

\* What a row says: absent, switched off, past expires_at_ms, or a secret.
Unusable == {"absent", "disabled", "expired"}
Row == Secret \cup Unusable

Route == {"sigv4", "jwt", "opaque", "missing", "unknown"}

\* How far the data of a request carries it whatever the state is: "bad"
\* fails the checks made before any lookup (parse_authorization, X-Amz-Date
\* and its skew; the token prefix; JWT header, issuer and kid), "test" is a
\* test token, "late" fails those made with the key (algorithm, signature,
\* claims, principal).
Fit == {"ok", "bad", "test", "late"}

Request == [route : Route, id : Cred \cup Kid \cup {NoOne},
            secret : Secret \cup {NoOne}, fit : Fit]

ASSUME ParamAssumption ==
  /\ Akid \cap Token = {} /\ Cred \cap Kid = {}
  /\ Secret \cap Unusable = {}
  /\ Unsupported \subseteq Kid /\ InitialKids \subseteq Kid
  /\ InitialRow \in Secret \cup {"absent"}
  /\ Configs \subseteq Config /\ Requests \subseteq Request
  /\ \A q \in Requests : /\ q.route = "sigv4" => q.id \in Akid
                         /\ q.route = "opaque" => q.id \in Token
                         /\ q.route = "jwt" => q.id \in Kid
  /\ Ttl \in Nat \ {0} /\ NegativeTtl \in Nat \ {0} /\ Timeout \in Nat \ {0}
  /\ MaxEvents \in Nat /\ NoOne \notin Slot

VARIABLES
  boot,      \* "down", "up" or "panicked"
  config,    \* the configuration the process booted from
  rows,      \* the credential tables
  positive,  \* cache: the secret and the ticks its entry has left
  negative,  \* cache: the ticks the negative entry has left
  published, \* the issuer's key set, numbered by publication
  keys,      \* the cached key set, with the number of its publication
  refresh_lock,  \* the slot holding the refresh lock
  req,       \* the requests in flight
  reply,     \* the answer of the last step, if it gave one
  age,       \* history: ticks since a row last had each value
  events     \* changes and crashes so far

vars == <<boot, config, rows, positive, negative, published, keys,
          refresh_lock, req, reply, age, events>>

None == [route |-> "unknown", id |-> NoOne, secret |-> NoOne, fit |-> "bad"]
Idle == [pc |-> "idle", q |-> None, waited |-> 0, row |-> "absent",
         doc |-> [seq |-> 0, kids |-> {}], missed |-> FALSE]
NoReply == [kind |-> "none", scheme |-> "none", q |-> None, missed |-> FALSE]
NoEntry == [secret |-> NoOne, left |-> 0]
NoConfig == [keys |-> {}, loads |-> FALSE, sigv4 |-> FALSE, api_token |-> FALSE,
             accept_test_tokens |-> FALSE, permissive |-> FALSE,
             issuers |-> {}, loopback |-> FALSE, sentinel |-> FALSE]
NoKeys == [seq |-> 0, kids |-> {}]

KeySet == [seq : 0 .. MaxEvents + 1, kids : SUBSET Kid]
\* Beyond this age a value can no longer be behind an answer.
Old == Timeout + IF Ttl < NegativeTtl THEN NegativeTtl ELSE Ttl

TypeOK ==
  /\ boot \in {"down", "up"}
  /\ config \in Configs \cup {NoConfig}
  /\ rows \in [Cred -> Row]
  /\ positive \in [Cred -> [secret : Secret \cup {NoOne}, left : 0 .. Ttl]]
  /\ negative \in [Cred -> 0 .. NegativeTtl]
  /\ published \in KeySet /\ keys \in KeySet
  /\ refresh_lock \in Slot \cup {NoOne}
  /\ \A r \in Slot :
       /\ req[r].pc \in {"idle", "fetch", "row", "lock", "send", "doc"}
       /\ req[r].waited \in 0 .. Timeout
  /\ age \in [Cred -> [Row -> 0 .. Old]]
  /\ events \in 0 .. MaxEvents
-----------------------------------------------------------------------------
(* Boot and crash.                                                         *)

Init ==
  /\ boot = "down"
  /\ config = NoConfig
  /\ rows = [c \in Cred |-> InitialRow]
  /\ positive = [c \in Cred |-> NoEntry]
  /\ negative = [c \in Cred |-> 0]
  /\ published = [seq |-> 1, kids |-> InitialKids]
  /\ keys = NoKeys
  /\ refresh_lock = NoOne
  /\ req = [r \in Slot |-> Idle]
  /\ reply = NoReply
  /\ age = [c \in Cred |-> [v \in Row |-> IF v = rows[c] THEN 0 ELSE Old]]
  /\ events = 0

\* parse_jwks skips the keys whose algorithm it does not know.
parse_jwks(doc) == [doc EXCEPT !.kids = @ \ Unsupported]

\* main: load the configuration, wire the chain, warm every key set up (boot
\* fails when that fails), then listen.  The caches start empty.
Boot(c) ==
  /\ boot = "down"
  /\ resolve_auth(c) /\ enforce_dev_mode_guardrails(c) /\ resolve_master_key(c)
  /\ config' = c
  /\ \/ /\ inflate_panics(c)
        /\ boot' = "panicked"
        /\ UNCHANGED keys
     \/ /\ ~ inflate_panics(c) /\ build_auth(c)
        /\ boot' = "up"
        /\ keys' = IF c.issuers # {} THEN parse_jwks(published) ELSE NoKeys
  /\ UNCHANGED <<rows, positive, negative, published, refresh_lock, req,
                 reply, age, events>>

Crash ==
  /\ boot = "up" /\ events < MaxEvents
  /\ boot' = "down"
  /\ positive' = [c \in Cred |-> NoEntry]
  /\ negative' = [c \in Cred |-> 0]
  /\ keys' = NoKeys
  /\ refresh_lock' = NoOne
  /\ req' = [r \in Slot |-> Idle]
  /\ reply' = NoReply
  /\ events' = events + 1
  /\ config' = NoConfig
  /\ UNCHANGED <<rows, published, age>>

-----------------------------------------------------------------------------
(* The operator and the issuer.                                            *)

\* insert_credential_row and insert_token_hash add a row (or fail on its
\* primary key); deleting and disabling are the operator's SQL; a token's
\* expires_at_ms passes.
ChangeRow(c, v) ==
  /\ events < MaxEvents
  /\ rows[c] # v
  /\ rows[c] = "absent" => v \notin {"disabled", "expired"}
  /\ rows[c] \in Secret => v \notin Secret
  /\ v = "expired" => c \in Token /\ rows[c] \in Secret
  /\ rows[c] = "expired" => v = "absent"
  /\ rows' = [rows EXCEPT ![c] = v]
  /\ age' = [age EXCEPT ![c][v] = 0]
  /\ reply' = NoReply
  /\ events' = events + 1
  /\ UNCHANGED <<boot, config, positive, negative, published, keys,
                 refresh_lock, req>>

\* The issuer rotates its keys.
Publish(S) ==
  /\ events < MaxEvents
  /\ S # published.kids
  /\ published' = [seq |-> published.seq + 1, kids |-> S]
  /\ req' = [r \in Slot |->
               [req[r] EXCEPT !.missed = req[r].pc # "idle"
                                           /\ (@ \/ req[r].q.id \notin S)]]
  /\ reply' = NoReply
  /\ events' = events + 1
  /\ UNCHANGED <<boot, config, rows, positive, negative, keys, refresh_lock,
                 age>>

-----------------------------------------------------------------------------
(* The verifiers.                                                          *)

Say(kind, scheme, q, missed) ==
  reply' = [kind |-> kind, scheme |-> scheme, q |-> q, missed |-> missed]

\* SecretCache::get and TokenCache::get: a live positive entry, else a live
\* negative one, else nothing.
CacheGet(c) ==
  CASE positive[c].left > 0 -> [hit |-> TRUE, found |-> TRUE, secret |-> positive[c].secret]
    [] positive[c].left = 0 /\ negative[c] > 0 ->
         [hit |-> TRUE, found |-> FALSE, secret |-> NoOne]
    [] OTHER -> [hit |-> FALSE, found |-> FALSE, secret |-> NoOne]

\* insert_positive drops the negative entry; insert_negative leaves a
\* positive one in place.
InsertPositive(c, s) ==
  /\ positive' = [positive EXCEPT ![c] = [secret |-> s, left |-> Ttl]]
  /\ negative' = [negative EXCEPT ![c] = 0]

InsertNegative(c) ==
  /\ negative' = [negative EXCEPT ![c] = NegativeTtl]
  /\ UNCHANGED positive

Scheme(route) ==
  CASE route = "sigv4" -> "sigv4" [] route = "opaque" -> "api_token"
    [] route = "jwt" -> "jwt" [] OTHER -> "permissive"

\* The end of Sigv4Verifier::verify (the signature under the secret found)
\* and of ApiTokenVerifier::verify (finalize_identity).
Judge(q, s) ==
  IF q.route = "sigv4" /\ q.secret # s
  THEN Say("SignatureFailed", "none", q, FALSE)
  ELSE Say("Accepted", Scheme(q.route), q, FALSE)

Enter(r, q, pc) ==
  req' = [req EXCEPT ![r] = [Idle EXCEPT
            !.pc = pc, !.q = q,
            !.missed = q.route = "jwt" /\ q.id \notin published.kids]]

\* fetch_secret, and the same lookup in ApiTokenVerifier::verify: answered
\* from the cache, or handed to PostgreSQL.
LookUp(r, q) ==
  LET cached == CacheGet(q.id) IN
  \/ /\ cached.hit /\ cached.found
     /\ Judge(q, cached.secret)
     /\ UNCHANGED req
  \/ /\ cached.hit /\ ~ cached.found
     /\ Say("IdentityNotFound", "none", q, FALSE)
     /\ UNCHANGED req
  \/ /\ ~ cached.hit
     /\ Enter(r, q, "fetch")
     /\ reply' = NoReply

\* Sigv4Verifier::verify up to its first await; without that verifier the
\* permissive one answers, if registered.
VerifySigv4(r, q) ==
  /\ q.route = "sigv4"
  /\ IF "sigv4" \in Registered(config)
     THEN IF q.fit = "bad"
          THEN Say("SignatureFailed", "none", q, FALSE) /\ UNCHANGED req
          ELSE LookUp(r, q)
     ELSE /\ IF "permissive" \in Registered(config)
             THEN Say("Accepted", "permissive", q, FALSE)
             ELSE Say("UnsupportedScheme", "none", q, FALSE)
          /\ UNCHANGED req

\* ApiTokenVerifier::verify: prefix, test tokens, then the lookup.
VerifyToken(r, q) ==
  /\ q.route = "opaque"
  /\ IF "api_token" \notin Registered(config)
     THEN Say("UnsupportedScheme", "none", q, FALSE) /\ UNCHANGED req
     ELSE IF \/ q.fit = "bad"
             \/ q.fit = "test" /\ ~ config.accept_test_tokens
     THEN Say("TokenFailed", "none", q, FALSE) /\ UNCHANGED req
     ELSE LookUp(r, q)

\* What JwtVerifier::verify does with the key it was given.
CheckClaims(q, missed) ==
  IF q.fit = "late" THEN Say("TokenFailed", "none", q, missed)
                    ELSE Say("Accepted", "jwt", q, missed)

\* Mutant: while another request refreshes, a miss is final.
VerifyJwtBusy(r, q) ==
  /\ q.route = "jwt" /\ "jwt" \in Registered(config)
  /\ IF q.id \in keys.kids THEN CheckClaims(q, FALSE) /\ UNCHANGED req
     ELSE IF refresh_lock = NoOne THEN Enter(r, q, "lock") /\ reply' = NoReply
     ELSE /\ Say("UnknownKid", "none", q, q.id \notin published.kids)
          /\ UNCHANGED req

\* JwtVerifier::verify and get_key: a cached key serves at once, however old
\* the set is (schedule_refresh does nothing); a miss goes for the lock.
VerifyJwt(r, q) ==
  /\ q.route = "jwt"
  /\ IF "jwt" \notin Registered(config)
     THEN Say("UnsupportedScheme", "none", q, FALSE) /\ UNCHANGED req
     ELSE IF q.fit = "bad"
     THEN Say("TokenFailed", "none", q, FALSE) /\ UNCHANGED req
     ELSE IF q.id \in keys.kids
     THEN CheckClaims(q, FALSE) /\ UNCHANGED req
     ELSE Enter(r, q, "lock") /\ reply' = NoReply

\* No Authorization header, or none the chain knows.
VerifyOther(r, q) ==
  /\ q.route \in {"missing", "unknown"}
  /\ IF q.route = "unknown"
     THEN Say("MalformedAuthorization", "none", q, FALSE)
     ELSE IF "permissive" \in Registered(config)
     THEN Say("Accepted", "permissive", q, FALSE)
     ELSE Say("MissingAuthorization", "none", q, FALSE)
  /\ UNCHANGED req

\* AuthChain::verify, called first thing by the dispatcher.
Verify(r, q) ==
  /\ boot = "up" /\ req[r].pc = "idle"
  /\ VerifySigv4(r, q) \/ VerifyToken(r, q) \/ VerifyJwt(r, q) \/ VerifyOther(r, q)
  /\ UNCHANGED <<boot, config, rows, positive, negative, published, keys,
                 refresh_lock, age, events>>

-----------------------------------------------------------------------------
(* The lookup in PostgreSQL.                                               *)

\* fetch_credential_row, fetch_token_row: the query's snapshot.
FetchRow(r) ==
  /\ req[r].pc = "fetch"
  /\ req' = [req EXCEPT ![r].pc = "row", ![r].row = rows[req[r].q.id]]
  /\ reply' = NoReply
  /\ UNCHANGED <<boot, config, rows, positive, negative, published, keys,
                 refresh_lock, age, events>>

\* A pool, connection or decryption error is answered and not cached.
FetchRowFails(r) ==
  /\ req[r].pc = "fetch"
  /\ Say("Internal", "none", req[r].q, FALSE)
  /\ req' = [req EXCEPT ![r] = Idle]
  /\ UNCHANGED <<boot, config, rows, positive, negative, published, keys,
                 refresh_lock, age, events>>

\* The refusal for each row that cannot be used.
Refusal(row) ==
  CASE row = "absent"   -> "IdentityNotFound"
    [] row = "disabled" -> "IdentityDisabled"
    [] row = "expired"  -> "TokenExpired"

\* The answer arrives, some time after the snapshot: cache it, and judge.
UseRow(r) ==
  LET q == req[r].q row == req[r].row IN
  /\ req[r].pc = "row"
  /\ \/ /\ row \in Secret
        /\ InsertPositive(q.id, row)
        /\ Judge(q, row)
     \/ /\ row \in Unusable
        /\ InsertNegative(q.id)
        /\ Say(Refusal(row), "none", q, FALSE)
  /\ req' = [req EXCEPT ![r] = Idle]
  /\ UNCHANGED <<boot, config, rows, published, keys, refresh_lock, age, events>>

-----------------------------------------------------------------------------
(* The key set.                                                            *)

\* get_key takes the refresh lock and looks again: another request may have
\* brought the key while this one waited.
TakeLock(r) ==
  LET q == req[r].q IN
  /\ req[r].pc = "lock" /\ refresh_lock = NoOne
  /\ IF q.id \in keys.kids
     THEN /\ CheckClaims(q, req[r].missed)
          /\ req' = [req EXCEPT ![r] = Idle]
          /\ UNCHANGED refresh_lock
     ELSE /\ refresh_lock' = r
          /\ req' = [req EXCEPT ![r].pc = "send"]
          /\ reply' = NoReply
  /\ UNCHANGED <<boot, config, rows, positive, negative, published, keys, age,
                 events>>

\* The issuer answers fetch_and_store with the set it publishes now.
FetchKeys(r) ==
  /\ req[r].pc = "send"
  /\ req' = [req EXCEPT ![r].pc = "doc", ![r].doc = published]
  /\ reply' = NoReply
  /\ UNCHANGED <<boot, config, rows, positive, negative, published, keys,
                 refresh_lock, age, events>>

\* Its own timeout, a transport error, an HTTP status, or a body that does
\* not parse: the error goes to the client and the cached set stays.
FetchKeysFails(r) ==
  /\ req[r].pc \in {"send", "doc"}
  /\ Say("Internal", "none", req[r].q, req[r].missed)
  /\ refresh_lock' = NoOne
  /\ req' = [req EXCEPT ![r] = Idle]
  /\ UNCHANGED <<boot, config, rows, positive, negative, published, keys, age,
                 events>>

\* The parsed set replaces the cached one; the key is looked up once more.
StoreKeys(r) ==
  LET q == req[r].q IN
  /\ req[r].pc = "doc"
  /\ keys' = parse_jwks(req[r].doc)
  /\ IF q.id \in keys'.kids THEN CheckClaims(q, req[r].missed)
                            ELSE Say("UnknownKid", "none", q, req[r].missed)
  /\ refresh_lock' = NoOne
  /\ req' = [req EXCEPT ![r] = Idle]
  /\ UNCHANGED <<boot, config, rows, positive, negative, published, age, events>>

-----------------------------------------------------------------------------
(* Time.                                                                   *)

\* Mutant: the lock outlives the cancelled request.
RequestTimeoutKeepsLock(r) ==
  /\ req[r].pc # "idle" /\ req[r].waited = Timeout
  /\ Say("RequestTimeout", "none", req[r].q, FALSE)
  /\ req' = [req EXCEPT ![r] = Idle]
  /\ UNCHANGED <<boot, config, rows, positive, negative, published, keys,
                 refresh_lock, age, events>>

\* The TimeoutLayer drops the request's future, and the lock guard with it.
RequestTimeout(r) ==
  /\ req[r].pc # "idle" /\ req[r].waited = Timeout
  /\ Say("RequestTimeout", "none", req[r].q, FALSE)
  /\ refresh_lock' = IF refresh_lock = r THEN NoOne ELSE refresh_lock
  /\ req' = [req EXCEPT ![r] = Idle]
  /\ UNCHANGED <<boot, config, rows, positive, negative, published, keys, age,
                 events>>

Least(m, n) == IF m < n THEN m ELSE n

\* Mutant: positive entries do not expire.
TickKeeps ==
  /\ boot = "up"
  /\ \A r \in Slot : req[r].waited < Timeout
  /\ negative' = [c \in Cred |-> IF negative[c] = 0 THEN 0 ELSE negative[c] - 1]
  /\ age' = [c \in Cred |-> [v \in Row |->
               IF rows[c] = v THEN 0 ELSE Least(age[c][v] + 1, Old)]]
  /\ req' = [r \in Slot |-> IF req[r].pc = "idle" THEN Idle
                            ELSE [req[r] EXCEPT !.waited = @ + 1]]
  /\ reply' = NoReply
  /\ UNCHANGED <<boot, config, rows, positive, published, keys, refresh_lock,
                 events>>

Tick ==
  /\ boot = "up"
  /\ \A r \in Slot : req[r].waited < Timeout
  /\ positive' = [c \in Cred |-> IF positive[c].left <= 1 THEN NoEntry
                                 ELSE [positive[c] EXCEPT !.left = @ - 1]]
  /\ negative' = [c \in Cred |-> IF negative[c] = 0 THEN 0 ELSE negative[c] - 1]
  /\ age' = [c \in Cred |-> [v \in Row |->
               IF rows[c] = v THEN 0 ELSE Least(age[c][v] + 1, Old)]]
  /\ req' = [r \in Slot |-> IF req[r].pc = "idle" THEN Idle
                            ELSE [req[r] EXCEPT !.waited = @ + 1]]
  /\ reply' = NoReply
  /\ UNCHANGED <<boot, config, rows, published, keys, refresh_lock, events>>

-----------------------------------------------------------------------------
Next ==
  \/ \E c \in Configs : Boot(c)
  \/ Crash
  \/ \E c \in Cred, v \in Row : ChangeRow(c, v)
  \/ \E S \in SUBSET Kid : Publish(S)
  \/ \E r \in Slot, q \in Requests : Verify(r, q)
  \/ \E r \in Slot : FetchRow(r)
  \/ \E r \in Slot : FetchRowFails(r)
  \/ \E r \in Slot : UseRow(r)
  \/ \E r \in Slot : TakeLock(r)
  \/ \E r \in Slot : FetchKeys(r)
  \/ \E r \in Slot : FetchKeysFails(r)
  \/ \E r \in Slot : StoreKeys(r)
  \/ \E r \in Slot : RequestTimeout(r)
  \/ Tick

Spec == Init /\ [][Next]_vars

\* Time passes and timers fire.  Nothing else is assumed: neither PostgreSQL
\* nor the issuer need ever answer.
FairSpec ==
  /\ Spec
  /\ WF_vars(Tick)
  /\ \A r \in Slot : WF_vars(RequestTimeout(r))

-----------------------------------------------------------------------------
(* Properties.                                                             *)

\* No configuration that resolve_auth lets through makes inflate_issuer panic:
\* every field it expects of a preset is one the resolver demanded.
BootDoesNotPanic == boot # "panicked"

\* "Rotation = INSERT new + DELETE old; the cache TTL bounds propagation"
\* (sigv4/store.rs): a verdict on a stored credential was the tables' verdict
\* less than a cache lifetime and one request ago.  Acceptances and signature
\* mismatches rest on positive entries, refusals on negative ones.
VerdictWasTrue ==
  LET q == reply.q IN
  /\ reply.kind = "Accepted" /\ reply.scheme = "sigv4" =>
       age[q.id][q.secret] < Ttl + Timeout
  /\ reply.kind = "Accepted" /\ reply.scheme = "api_token" =>
       \E s \in Secret : age[q.id][s] < Ttl + Timeout
  /\ reply.kind = "SignatureFailed" /\ q.fit # "bad" =>
       \E s \in Secret \ {q.secret} : age[q.id][s] < Ttl + Timeout
  /\ reply.kind \in {"IdentityNotFound", "IdentityDisabled", "TokenExpired"} =>
       \E v \in Unusable : age[q.id][v] < NegativeTtl + Timeout

\* A token is refused for an unknown key only if the issuer really did not
\* publish that key, in a form the cache supports, at some moment of the
\* verification: a request that waited for another's refresh does not settle
\* for a set fetched before it began.
KeyIsFound ==
  reply.kind = "UnknownKid" => reply.missed \/ reply.q.id \in Unsupported

\* An issuer that cannot be reached costs nobody a key the cache holds
\* ("Failed refresh keeps the prior entries in place", jwks.rs): a request
\* answered with the fetch's error has no cached key at that moment.
OutageSparesKnownKeys ==
  reply.kind = "Internal" /\ reply.q.route = "jwt" =>
    reply.q.id \notin keys.kids

\* The cached key set never goes back to an earlier publication while the
\* process runs: the single-flight lock orders fetch and store.
KeysAdvance == [][boot = "up" /\ boot' = "up" => keys'.seq >= keys.seq]_vars

\* Every verification ends and the refresh lock is not held forever, even
\* when PostgreSQL and the issuer never answer and requests are cancelled.
EveryVerificationEnds ==
  /\ \A r \in Slot : []<>(req[r].pc = "idle")
  /\ []<>(refresh_lock = NoOne)
=============================================================================
