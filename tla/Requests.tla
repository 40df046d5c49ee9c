------------------------------ MODULE Requests ------------------------------
(***************************************************************************)
(* The three things requests to a registry share: GHCR's tokens            *)
(* (GhcrTokens) and throttle (GhcrThrottle), and the gates, tokens and     *)
(* retry policy of ACR (AcrRequests). None reads what another keeps.       *)
(***************************************************************************)
EXTENDS Naturals

CONSTANTS
  Request,
  Context, MaxRevoked, MaxFailed,
  MaxThrottle, MaxAttempts, MaxBackoff, Guidance, Latency, Persist, MaxLimits,
  Action, MaxRetries, Delay, MaxDelay, RetryAfter, Width

VARIABLES
  ctx, cache, realm, kpc, token, renewed, flight, joined, inbox, issued, valid, kcancelled, failed,
  pause, early, streak, tpc, timer, age, rejected, throttled, failures, tcancelled,
  guided, limiting, sinceLimit, limits, asked, justAsked, pauses,
  action, gate, apc, retry, delay, atoken, obtained, tokenless, acancelled, backed

kvars == <<ctx, cache, realm, kpc, token, renewed, flight, joined, inbox, issued, valid, kcancelled,
           failed>>
tvars == <<pause, early, streak, tpc, timer, age, rejected, throttled, failures, tcancelled,
           guided, limiting, sinceLimit, limits, asked, justAsked, pauses>>
avars == <<action, gate, apc, retry, delay, atoken, obtained, tokenless, acancelled, backed>>

K == INSTANCE GhcrTokens WITH pc <- kpc, cancelled <- kcancelled
T == INSTANCE GhcrThrottle WITH pc <- tpc, cancelled <- tcancelled
A == INSTANCE AcrRequests WITH pc <- apc, token <- atoken, cancelled <- acancelled

ASSUME TokenBounds       == K!Bounds
ASSUME ThrottleDurations == T!Durations
ASSUME RetryPolicy       == A!Policy

\* One rate limit pauses every request of the backend.
PausedForAll == T!PausedForAll

\* A limit that persists is waited out, ever longer.
LimitsAreRiddenOut == T!BacksOffFurther /\ T!RidesOut

\* Requests share one token, whichever the registry, and whoever waits for another
\* to obtain it waits for one that is about to.
TokensAreShared == K!OneValidToken /\ A!TokenIsShared /\ A!GateIsHeld

\* ACR's retries back off exponentially, in the width of a duration.
BacksOff == A!BacksOff
=============================================================================
