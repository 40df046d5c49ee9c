---------------------------- MODULE AcrRequests -----------------------------
(***************************************************************************)
(* The requests of the Azure backend, internal/registry/acr/client.go: the *)
(* gates that let the first request of an action on a repository go alone, *)
(* so that the others find its access token, and retryPolicy, under which  *)
(* each is sent. The SDK answers a challenge by obtaining a token for the  *)
(* action, which it caches.                                                *)
(***************************************************************************)
EXTENDS Integers, FiniteSets, FiniteSetsExt

CONSTANTS
  Request,
  Action,      \* actions on a repository
  MaxRetries,  \* retryPolicy.maxRetries
  Delay,       \* retryPolicy.delay
  MaxDelay,    \* retryPolicy.maxDelay
  RetryAfter,  \* the waits a response may ask for; 0 is none
  Width        \* the bits of a time.Duration

\* What the constants may be.
Policy ==
  /\ {MaxRetries, Delay, MaxDelay} \cup RetryAfter \subseteq {n \in Nat : n < 2 ^ Width}
  /\ Delay > 0 /\ 0 \in RetryAfter

VARIABLES
  action,     \* what each request is of
  gate,       \* gates.open: "none", "closed", "open"
  pc,         \* what each request is doing
  retry,      \* how often it was retried
  delay,      \* how long it sleeps before the next retry
  token,      \* the actions whose access token is cached
  obtained,   \* how many were obtained for each
  tokenless,  \* actions whose first request ended before it obtained one
  cancelled,  \* the requests whose context is
  backed      \* the last wait each chose by itself

policy == <<retry, delay, backed>>
tokens == <<token, obtained, tokenless>>
vars   == <<action, gate, pc, policy, tokens, cancelled>>

Past     == {"sending", "challenged", "authorized", "sleeping"}
Outcomes == {"answered", "failed", "canceled"}

Init ==
  /\ action \in [Request -> Action]
  /\ gate = [a \in Action |-> "none"]
  /\ pc = [r \in Request |-> "arriving"]
  /\ retry = [r \in Request |-> 0] /\ delay = [r \in Request |-> 0]
  /\ backed = [r \in Request |-> 0]
  /\ token = {} /\ obtained = [a \in Action |-> 0] /\ tokenless = {}
  /\ cancelled = {}

Become(r, state) == pc' = [pc EXCEPT ![r] = state]

-----------------------------------------------------------------------------
(* gates.do *)

\* The first request of an action goes on, the others queue.
Arrive(r) ==
  /\ pc[r] = "arriving"
  /\ IF gate[action[r]] = "none"
     THEN /\ gate' = [gate EXCEPT ![action[r]] = "closed"]
          /\ Become(r, "sending")
     ELSE Become(r, "queued") /\ UNCHANGED gate
  /\ UNCHANGED <<action, policy, tokens, cancelled>>

\* The gate opens, or the context ends.
Pass(r) ==
  /\ pc[r] = "queued"
  /\ \/ gate[action[r]] = "open" /\ Become(r, "sending")
     \/ r \in cancelled /\ Become(r, "canceled")
  /\ UNCHANGED <<action, gate, policy, tokens, cancelled>>

\* fn returns, and the first request opens the gate, however it ended.
Return(r, outcome) ==
  /\ Become(r, outcome)
  /\ gate' = [gate EXCEPT ![action[r]] = "open"]
  /\ tokenless' = IF gate[action[r]] = "closed" /\ action[r] \notin token
                  THEN tokenless \cup {action[r]} ELSE tokenless

-----------------------------------------------------------------------------
(* The request, as the SDK sends it *)

Send(r) ==
  /\ pc[r] = "sending"
  /\ Become(r, IF action[r] \in token THEN "authorized" ELSE "challenged")
  /\ UNCHANGED <<action, gate, policy, tokens, cancelled>>

Obtain(r) ==
  /\ pc[r] = "challenged"
  /\ token' = token \cup {action[r]}
  /\ obtained' = [obtained EXCEPT ![action[r]] = @ + 1]
  /\ Become(r, "authorized")
  /\ UNCHANGED <<action, gate, policy, tokenless, cancelled>>

-----------------------------------------------------------------------------
(* retryPolicy *)

\* Mutant of Backoff: a shift, in the width of the machine.
BackoffShifted(n) == Min({(Delay * 2 ^ n) % 2 ^ Width, MaxDelay})

\* backoff doubles step by step and stops before it would pass the maximum.
Doubled[i \in 0..MaxRetries] ==
  IF i = 0 THEN Min({Delay, MaxDelay})
  ELSE IF Doubled[i - 1] >= MaxDelay \div 2 THEN MaxDelay ELSE 2 * Doubled[i - 1]

Backoff(n) == Doubled[n]

\* A response that is no failure or cannot be mended by a retry.
Answer(r) ==
  /\ pc[r] = "authorized"
  /\ Return(r, "answered")
  /\ UNCHANGED <<action, policy, token, obtained, cancelled>>

FailForGood(r) ==
  /\ pc[r] \in {"challenged", "authorized"}
  /\ Return(r, IF r \in cancelled THEN "canceled" ELSE "failed")
  /\ UNCHANGED <<action, policy, token, obtained, cancelled>>

\* As long as the registry asks, or longer with every retry; never longer than
\* the maximum.
Wait(r, asked) == Min({IF asked > 0 THEN asked ELSE Backoff(retry[r]), MaxDelay})

\* Throttled, timed out or failed by the server, at any point.
Retry(r) ==
  /\ pc[r] \in {"challenged", "authorized"} /\ r \notin cancelled
  /\ \E asked \in RetryAfter :
       IF retry[r] >= MaxRetries
       THEN Return(r, "failed") /\ UNCHANGED <<delay, backed>>
       ELSE /\ Become(r, "sleeping")
            /\ delay' = [delay EXCEPT ![r] = Wait(r, asked)]
            /\ backed' = IF asked > 0 THEN backed ELSE [backed EXCEPT ![r] = Wait(r, 0)]
            /\ UNCHANGED <<gate, tokenless>>
  /\ UNCHANGED <<action, retry, token, obtained, cancelled>>

\* The sleep is over, or ends with the context.
Wake(r) ==
  /\ pc[r] = "sleeping"
  /\ \/ /\ Become(r, "sending")
        /\ retry' = [retry EXCEPT ![r] = @ + 1]
        /\ UNCHANGED <<gate, tokenless>>
     \/ r \in cancelled /\ Return(r, "canceled") /\ UNCHANGED retry
  /\ UNCHANGED <<action, delay, backed, token, obtained, cancelled>>

Do(r) ==
  \/ Arrive(r) \/ Pass(r) \/ Send(r) \/ Obtain(r)
  \/ Answer(r) \/ FailForGood(r) \/ Retry(r) \/ Wake(r)

Cancel(r) ==
  /\ r \notin cancelled
  /\ cancelled' = cancelled \cup {r}
  /\ UNCHANGED <<action, gate, pc, policy, tokens>>

Next == \E r \in Request : Do(r) \/ Cancel(r)

Spec == Init /\ [][Next]_vars

-----------------------------------------------------------------------------
(* Properties *)

TypeOK ==
  /\ action \in [Request -> Action]
  /\ gate \in [Action -> {"none", "closed", "open"}]
  /\ pc \in [Request -> {"arriving", "queued"} \cup Past \cup Outcomes]
  /\ retry \in [Request -> 0..MaxRetries]
  /\ delay \in [Request -> 0..MaxDelay] /\ backed \in [Request -> 0..MaxDelay]
  /\ token \subseteq Action /\ tokenless \subseteq Action
  /\ obtained \in [Action -> Nat]
  /\ cancelled \subseteq Request

\* client.go, gates: the others "reuse the token instead of each obtaining one".
\* A second token is obtained for an action only if the request that went first
\* failed or was cancelled before it had one; whoever is cancelled meanwhile.
TokenIsShared == \A a \in Action : obtained[a] > 1 => a \in tokenless

\* client.go, gates.do: the others wait for the first request of their action. As
\* long as the gate is closed that request is past it and under way: it is not
\* among those that wait, and it has not ended without opening the gate, by
\* failing, cancelled, or out of retries, so that nobody waits for ever.
GateIsHeld ==
  \A a \in Action : gate[a] = "closed" => \E r \in Request : action[r] = a /\ pc[r] \in Past

\* "... or else backs off exponentially from delay": of the waits a request
\* chooses by itself, each is at least twice the one before, up to the maximum,
\* after however many retries and whatever the registry asks for in between.
BacksOff ==
  [][\A r \in Request : backed[r] > 0 /\ pc[r] # "sleeping" /\ pc'[r] = "sleeping" =>
       \/ delay'[r] >= Min({2 * backed[r], MaxDelay})
       \/ backed'[r] = backed[r] /\ delay'[r] \in RetryAfter]_vars

=============================================================================
