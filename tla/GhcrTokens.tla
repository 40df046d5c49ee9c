----------------------------- MODULE GhcrTokens -----------------------------
(***************************************************************************)
(* The token cache of internal/registry/ghcr/auth.go, for one scope, and   *)
(* the requests of Backend.registryGet (ghcr.go) that share it. A request  *)
(* without a valid token is turned down with a challenge that names where  *)
(* to get one; requests that need one at the same time share a single      *)
(* exchange, a flight of singleflight.Group, which runs on the context of  *)
(* the one that began it.                                                  *)
(***************************************************************************)
EXTENDS Integers, FiniteSets

CONSTANTS
  Request,     \* the calls of registryGet for one repository
  Context,     \* what they run on
  MaxRevoked,  \* bound: tokens the registry stops accepting
  MaxFailed    \* bound: requests and exchanges that fail

\* What the constants may be.
Bounds == MaxRevoked \in Nat /\ MaxFailed \in Nat

VARIABLES
  ctx,        \* the context of each request
  cache,      \* byScope[scope], or None
  realm,      \* whether the token endpoint is known
  pc,         \* what each request is doing
  token,      \* the token it last looked up, sent or was given
  renewed,    \* the requests that retried with a renewed token
  flight,     \* the exchange under way, or Landed
  joined,     \* the requests waiting for it
  inbox,      \* what it gave each of them
  issued,     \* how many tokens the registry gave out: 1, 2, ...
  valid,      \* those it accepts
  cancelled,  \* the contexts that are
  failed      \* how many requests and exchanges failed

request  == <<ctx, pc, token, renewed>>
exchange == <<flight, joined, inbox>>
registry == <<issued, valid>>
vars     == <<request, cache, realm, exchange, registry, cancelled, failed>>

None   == 0
Tokens == 1..issued

\* What an exchange gives when it gives no token.
Nothing == -1
Failed  == -2
Aborted == -3
Landed == [stage |-> "landed"]

Outcomes == {"ok", "unauthorized", "failed", "canceled"}

Init ==
  /\ ctx \in [Request -> Context]
  /\ cache = None /\ realm = FALSE
  /\ pc = [r \in Request |-> "lookup"]
  /\ token = [r \in Request |-> None]
  /\ renewed = {}
  /\ flight = Landed /\ joined = {}
  /\ inbox = [r \in Request |-> Nothing]
  /\ issued = 0 /\ valid = {}
  /\ cancelled = {} /\ failed = 0

Become(r, state) == pc' = [pc EXCEPT ![r] = state]

Take(r, t) == token' = [token EXCEPT ![r] = t]

-----------------------------------------------------------------------------
(* registryGet *)

\* registryToken: the cached token, or none to learn the endpoint with.
Lookup(r) ==
  /\ pc[r] = "lookup"
  /\ Take(r, cache)
  /\ Become(r, IF cache # None \/ ~realm THEN "request" ELSE "join")
  /\ UNCHANGED <<ctx, renewed, cache, realm, exchange, registry, cancelled, failed>>

\* The registry accepts the token, or turns the request down with a challenge;
\* a second time that is final.
Answer(r) ==
  /\ pc[r] = "request"
  /\ Become(r, IF token[r] \in valid THEN "ok"
               ELSE IF r \in renewed THEN "unauthorized" ELSE "renew")
  /\ UNCHANGED <<ctx, token, renewed, cache, realm, exchange, registry, cancelled, failed>>

\* The request fails, or its challenge cannot be followed.
Fail(r) ==
  /\ \/ /\ pc[r] = "request" /\ ctx[r] \in cancelled
        /\ Become(r, "canceled") /\ UNCHANGED failed
     \/ /\ pc[r] \in {"request", "renew"} /\ failed < MaxFailed
        /\ Become(r, "failed") /\ failed' = failed + 1
  /\ UNCHANGED <<ctx, token, renewed, cache, realm, exchange, registry, cancelled>>

Other(current, rejected) == current # None /\ current # rejected

\* renewRegistryToken: a token that another request renewed is reused.
Renew(r) ==
  /\ pc[r] = "renew"
  /\ realm' = TRUE
  /\ renewed' = renewed \cup {r}
  /\ IF Other(cache, token[r])
     THEN Take(r, cache) /\ Become(r, "request")
     ELSE Become(r, "join") /\ UNCHANGED token
  /\ UNCHANGED <<ctx, cache, exchange, registry, cancelled, failed>>

\* Flight.DoChan: the first to come begins the exchange.
Join(r) ==
  /\ pc[r] = "join"
  /\ Become(r, "waiting")
  /\ joined' = joined \cup {r}
  /\ flight' = IF flight = Landed
               THEN [stage |-> "looking", leader |-> r, rejected |-> token[r], result |-> Nothing]
               ELSE flight
  /\ UNCHANGED <<ctx, token, renewed, cache, realm, inbox, registry, cancelled, failed>>

\* What the exchange gave is used, or its error returned.
Receive(r) ==
  /\ pc[r] = "waiting" /\ inbox[r] # Nothing
  /\ inbox' = [inbox EXCEPT ![r] = Nothing]
  /\ CASE inbox[r] = Failed   -> Become(r, "failed") /\ UNCHANGED token
       [] inbox[r] = Aborted  -> Become(r, "canceled") /\ UNCHANGED token
       [] inbox[r] \in Tokens -> Become(r, "request") /\ Take(r, inbox[r])
  /\ UNCHANGED <<ctx, renewed, cache, realm, flight, joined, registry, cancelled, failed>>

\* Each waits on its own context only; the exchange goes on without it.
GiveUp(r) ==
  /\ pc[r] = "waiting" /\ ctx[r] \in cancelled
  /\ Become(r, "canceled")
  /\ UNCHANGED <<ctx, token, renewed, cache, realm, exchange, registry, cancelled, failed>>

Get(r) ==
  \/ Lookup(r) \/ Answer(r) \/ Fail(r) \/ Renew(r)
  \/ Join(r) \/ Receive(r) \/ GiveUp(r)

-----------------------------------------------------------------------------
(* fetchRegistryToken's exchange *)

Finish(result) ==
  flight' = [flight EXCEPT !.stage = "finishing", !.result = result]

\* Mutant of Look: whoever begins a flight exchanges the token.
LookAway ==
  /\ flight.stage = "looking"
  /\ flight' = [flight EXCEPT !.stage = "exchanging"]
  /\ UNCHANGED <<request, cache, realm, joined, inbox, registry, cancelled, failed>>

\* The token may have been renewed since the one who began the flight looked.
Look ==
  /\ flight.stage = "looking"
  /\ IF Other(cache, flight.rejected)
     THEN Finish(cache)
     ELSE flight' = [flight EXCEPT !.stage = "exchanging"]
  /\ UNCHANGED <<request, cache, realm, joined, inbox, registry, cancelled, failed>>

Exchange ==
  /\ flight.stage = "exchanging"
  /\ issued' = issued + 1
  /\ valid' = valid \cup {issued'}
  /\ flight' = [flight EXCEPT !.stage = "storing", !.result = issued']
  /\ UNCHANGED <<request, cache, realm, joined, inbox, cancelled, failed>>

\* The request fails, or ends with the context it was begun on.
ExchangeFailing ==
  /\ flight.stage = "exchanging"
  /\ \/ ctx[flight.leader] \in cancelled /\ Finish(Aborted) /\ UNCHANGED failed
     \/ failed < MaxFailed /\ Finish(Failed) /\ failed' = failed + 1
  /\ UNCHANGED <<request, cache, realm, joined, inbox, registry, cancelled>>

Store ==
  /\ flight.stage = "storing"
  /\ cache' = flight.result
  /\ Finish(flight.result)
  /\ UNCHANGED <<request, realm, joined, inbox, registry, cancelled, failed>>

\* The flight is over, and everyone who joined it has its result.
Land ==
  /\ flight.stage = "finishing"
  /\ inbox' = [r \in Request |-> IF r \in joined THEN flight.result ELSE inbox[r]]
  /\ joined' = {} /\ flight' = Landed
  /\ UNCHANGED <<request, cache, realm, registry, cancelled, failed>>

Flight == Look \/ Exchange \/ ExchangeFailing \/ Store \/ Land

-----------------------------------------------------------------------------
\* A token expires.
Revoke ==
  /\ issued - Cardinality(valid) < MaxRevoked
  /\ \E t \in valid : valid' = valid \ {t}
  /\ UNCHANGED <<request, cache, realm, exchange, issued, cancelled, failed>>

Cancel(c) ==
  /\ c \notin cancelled
  /\ cancelled' = cancelled \cup {c}
  /\ UNCHANGED <<request, cache, realm, exchange, registry, failed>>

Next ==
  \/ \E r \in Request : Get(r)
  \/ Flight \/ Revoke
  \/ \E c \in Context : Cancel(c)

Spec == Init /\ [][Next]_vars

-----------------------------------------------------------------------------
(* Properties *)

TypeOK ==
  /\ ctx \in [Request -> Context]
  /\ cache \in {None} \cup Tokens /\ realm \in BOOLEAN
  /\ pc \in [Request -> {"lookup", "request", "renew", "join", "waiting"} \cup Outcomes]
  /\ token \in [Request -> {None} \cup Tokens]
  /\ renewed \subseteq Request /\ joined \subseteq Request
  /\ flight.stage \in {"looking", "exchanging", "storing", "finishing", "landed"}
  /\ (flight = Landed) <=> (joined = {})
  /\ valid \subseteq Tokens
  /\ inbox \in [Request -> {Nothing, Failed, Aborted} \cup Tokens]
  /\ cancelled \subseteq Context /\ failed \in 0..MaxFailed

\* auth.go: "A request may have renewed the token between the caller's lookup
\* and entering this flight. Do not exchange it again in that gap." However the
\* lookups, the flights and the challenges interleave, the registry is never
\* asked for a second token while it still accepts the first.
OneValidToken == \A s, t \in valid : s = t

=============================================================================
