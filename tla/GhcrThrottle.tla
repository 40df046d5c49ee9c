---------------------------- MODULE GhcrThrottle ----------------------------
(***************************************************************************)
(* Backend.send of internal/registry/ghcr/transport.go, run by several     *)
(* requests at once, and the throttle they share. GitHub turns requests    *)
(* away while a limit is in force, and may say for how long (guided) or    *)
(* not; a request may also fail transiently.                               *)
(*                                                                         *)
(* Times are kept as what is left of them, or as what has passed since, in *)
(* units of the shortest unguided wait: the code only ever takes their     *)
(* difference to now, and asks whether a request was sent before a limit   *)
(* was noticed. A call computes in no time and wakes on time, and an       *)
(* answer takes between one tick and Latency.                              *)
(***************************************************************************)
EXTENDS Integers, Sequences, FiniteSets, FiniteSetsExt

CONSTANTS
  Request,      \* the calls of send
  MaxThrottle,  \* Backend.maxThrottle, how long one call waits for limits
  MaxAttempts,  \* Backend.maxAttempts, of transient failures
  MaxBackoff,   \* the longest wait after one
  Guidance,     \* the sets of waits GitHub's answers may name
  Latency,      \* the longest an answer takes
  Persist,      \* the longest a limit of GitHub's is in force
  MaxLimits     \* bound: how often GitHub comes to limit requests

\* What the constants may be.
Durations ==
  /\ {MaxThrottle, Persist, MaxLimits} \subseteq Nat
  /\ {MaxAttempts, MaxBackoff, Latency} \subseteq Nat \ {0}
  /\ Guidance \subseteq SUBSET (Nat \ {0})

VARIABLES
  pause,               \* throttle.until, from now
  early,               \* the calls that sent their request before throttle.hit
  streak,              \* throttle.streak
  pc,                  \* what each call is doing
  timer,               \* how long a sleeping call has yet to sleep
  age,                 \* how long ago a call sent its request
  rejected,            \* the calls whose latest request GitHub turned away
  throttled, failures, \* send's variables
  cancelled,           \* the calls' context
  guided,              \* the waits GitHub's answers name, or none
  limiting,            \* whether GitHub limits requests
  sinceLimit,          \* how long ago it last began to
  limits,              \* how often it did
  asked,               \* the longest wait an answer named, from now
  justAsked,           \* whether it did so at this very instant
  pauses               \* the unguided pauses of the latest limit

throttle == <<pause, early, streak>>
call     == <<pc, timer, age, rejected, throttled, failures>>
github   == <<guided, limiting, sinceLimit, limits>>
seen     == <<asked, justAsked, pauses>>
vars     == <<throttle, call, cancelled, github, seen>>

None == 0

Running  == {"checking", "ready", "sent", "sleeping"}
Outcomes == {"answered", "limited", "failed", "cancelled"}

Init ==
  /\ pause = 0 /\ early = {} /\ streak = 0
  /\ pc = [r \in Request |-> "idle"]
  /\ timer = [r \in Request |-> 0] /\ age = [r \in Request |-> 0]
  /\ rejected = {}
  /\ throttled = [r \in Request |-> 0] /\ failures = [r \in Request |-> 0]
  /\ cancelled = FALSE
  /\ guided \in Guidance
  /\ limiting = FALSE /\ sinceLimit = 0 /\ limits = 0
  /\ asked = 0 /\ justAsked = FALSE /\ pauses = <<>>

-----------------------------------------------------------------------------
(* send *)

Become(r, state) == pc' = [pc EXCEPT ![r] = state]

Sleep(r, delay) ==
  /\ Become(r, "sleeping")
  /\ timer' = [timer EXCEPT ![r] = delay]

Start(r) ==
  /\ pc[r] = "idle" /\ ~cancelled
  /\ Become(r, "checking")
  /\ UNCHANGED <<throttle, timer, age, rejected, throttled, failures, cancelled, github, seen>>

\* What a call may still wait for limits.
Fits(r, wait) == wait <= MaxThrottle - throttled[r]

\* The loop before a request: wait as long as the throttle says, and look again,
\* for the limit may have been extended; give up when the wait would exceed the
\* budget.
Pause(r) ==
  /\ pc[r] = "checking"
  /\ \/ pause = 0 /\ Become(r, "ready") /\ UNCHANGED <<timer, throttled>>
     \/ pause > 0 /\ ~Fits(r, pause) /\ Become(r, "limited") /\ UNCHANGED <<timer, throttled>>
     \/ /\ pause > 0 /\ Fits(r, pause)
        /\ Sleep(r, pause)
        /\ throttled' = [throttled EXCEPT ![r] = @ + pause]
  /\ UNCHANGED <<throttle, age, rejected, failures, cancelled, github, seen>>

\* Another call may notice a limit between the look and the request.
Send(r) ==
  /\ pc[r] = "ready"
  /\ Become(r, "sent")
  /\ age' = [age EXCEPT ![r] = 0]
  /\ early' = early \ {r}
  /\ rejected' = IF limiting THEN rejected \cup {r} ELSE rejected \ {r}
  /\ UNCHANGED <<pause, streak, timer, throttled, failures, cancelled, github, seen>>

Arrived(r) == pc[r] = "sent" /\ age[r] > 0

\* A sleep is over, and send looks at the throttle again.
Wake(r) ==
  /\ pc[r] = "sleeping" /\ timer[r] = 0
  /\ Become(r, "checking")
  /\ UNCHANGED <<throttle, timer, age, rejected, throttled, failures, cancelled, github, seen>>

\* A sleep, or a request, ends early with the context.
Interrupted(r) ==
  /\ cancelled /\ pc[r] \in {"sleeping", "sent"}
  /\ Become(r, "cancelled")
  /\ UNCHANGED <<throttle, timer, age, rejected, throttled, failures, cancelled, github, seen>>

\* sent.Before(t.hit)
Burst(r) == r \in early

\* Mutant of Passed: an answer to a request sent before the limit counts, too.
PassedLate(r) == 0

\* throttle.passed
Passed(r) == IF Burst(r) THEN streak ELSE 0

\* A response that is final: a success, or a failure a retry cannot mend.
Answer(r) ==
  /\ Arrived(r) /\ r \notin rejected
  /\ streak' = Passed(r)
  /\ Become(r, "answered")
  /\ UNCHANGED <<pause, early, timer, age, rejected, throttled, failures, cancelled, github, seen>>

Backoff(n) == Min({2 ^ Min({n - 1, 5}), MaxBackoff})

\* A lost connection, a timeout or a server's failure.
FailTransiently(r) ==
  /\ Arrived(r) /\ r \notin rejected
  /\ failures' = [failures EXCEPT ![r] = @ + 1]
  /\ IF failures'[r] >= MaxAttempts
     THEN Become(r, "failed") /\ UNCHANGED timer
     ELSE Sleep(r, Backoff(failures'[r]))
  /\ UNCHANGED <<throttle, age, rejected, throttled, cancelled, github, seen>>

\* An error a retry cannot mend.
FailForGood(r) ==
  /\ Arrived(r) /\ r \notin rejected
  /\ Become(r, "failed")
  /\ UNCHANGED <<throttle, timer, age, rejected, throttled, failures, cancelled, github, seen>>

\* Mutant of Resume: the latest answer decides.
ResumeLatest(delay) == delay

\* The pause is never shortened.
Resume(delay) == Max({pause, delay})

\* How long an answer that names no wait asks for: nothing more if the request
\* was sent before the limit was noticed, else twice as long as the last time.
Unguided(burst) == IF burst THEN 0 ELSE Min({2 ^ Min({streak, 16}), MaxThrottle})

\* A 403 or 429. throttle.limited records it and returns how long to wait; the
\* call sleeps, or returns the response when that exceeds its budget.
Limited(r) ==
  /\ Arrived(r) /\ r \in rejected
  /\ \E guide \in guided \cup {None} :
       LET counts == guide = None /\ ~Burst(r)
           delay  == IF guide # None THEN guide ELSE Unguided(Burst(r))
       IN  /\ streak' = IF counts THEN streak + 1 ELSE streak
           /\ early' = IF Burst(r) THEN early ELSE {q \in Request \ {r} : pc[q] = "sent"}
           /\ pause' = Resume(delay)
           /\ asked' = Max({asked, guide})
           /\ justAsked' = (justAsked \/ guide > asked)
           /\ pauses' = IF counts /\ limiting THEN Append(pauses, delay) ELSE pauses
  /\ IF Fits(r, pause')
     THEN Sleep(r, pause') /\ throttled' = [throttled EXCEPT ![r] = @ + pause']
     ELSE Become(r, "limited") /\ UNCHANGED <<timer, throttled>>
  /\ UNCHANGED <<age, rejected, failures, cancelled, github>>

Call(r) ==
  \/ Pause(r) \/ Send(r) \/ Wake(r) \/ Interrupted(r)
  \/ Answer(r) \/ FailTransiently(r) \/ FailForGood(r) \/ Limited(r)

-----------------------------------------------------------------------------
(* GitHub, the user and time *)

ComeIntoForce ==
  /\ ~limiting /\ limits < MaxLimits
  /\ limiting' = TRUE /\ limits' = limits + 1
  /\ sinceLimit' = 0 /\ pauses' = <<>>
  /\ UNCHANGED <<throttle, call, cancelled, guided, asked, justAsked>>

Lift ==
  /\ limiting
  /\ limiting' = FALSE
  /\ UNCHANGED <<throttle, call, cancelled, guided, sinceLimit, limits, seen>>

Cancel ==
  /\ ~cancelled
  /\ cancelled' = TRUE
  /\ UNCHANGED <<throttle, call, github, seen>>

\* Time does not pass by what is due.
Due(r) ==
  \/ pc[r] \in {"checking", "ready"}
  \/ pc[r] = "sleeping" /\ (timer[r] = 0 \/ cancelled)
  \/ pc[r] = "sent" /\ (age[r] = Latency \/ cancelled)

Down(time) == Max({time - 1, 0})

Tick ==
  /\ \E r \in Request : pc[r] \in {"sent", "sleeping"}
  /\ \A r \in Request : ~Due(r)
  /\ ~(limiting /\ sinceLimit >= Persist)
  /\ pause' = Down(pause) /\ asked' = Down(asked) /\ justAsked' = FALSE
  /\ sinceLimit' = Min({sinceLimit + 1, Max({Persist, Latency})})
  /\ timer' = [r \in Request |-> IF pc[r] = "sleeping" THEN timer[r] - 1 ELSE timer[r]]
  /\ age' = [r \in Request |-> IF pc[r] = "sent" THEN age[r] + 1 ELSE age[r]]
  /\ UNCHANGED <<early, streak, pc, rejected, throttled, failures, cancelled, guided, limiting,
                 limits, pauses>>

Next ==
  \/ \E r \in Request : Start(r) \/ Call(r)
  \/ ComeIntoForce \/ Lift \/ Cancel
  \/ Tick

Spec == Init /\ [][Next]_vars

-----------------------------------------------------------------------------
(* Properties *)

CallsOK ==
  /\ pc \in [Request -> {"idle"} \cup Running \cup Outcomes]
  /\ timer \in [Request -> Nat] /\ age \in [Request -> 0..Latency]
  /\ rejected \subseteq Request /\ early \subseteq Request
  /\ throttled \in [Request -> 0..MaxThrottle]
  /\ failures \in [Request -> 0..MaxAttempts]

FlagsOK == {cancelled, limiting, justAsked} \subseteq BOOLEAN

CountsOK ==
  /\ pause \in Nat /\ streak \in Nat /\ asked \in Nat
  /\ sinceLimit \in Nat /\ limits \in 0..MaxLimits
  /\ pauses \in Seq(0..MaxThrottle)

TypeOK == CallsOK /\ FlagsOK /\ CountsOK /\ guided \in Guidance

\* transport.go, send: "One rate-limited response pauses all of the backend's
\* requests". Once an answer to any of them has named a wait, none is sent
\* before its end, however the answers of one burst arrive and whatever the
\* others are waiting for; only a call about to send at that very instant does.
PausedForAll ==
  [][\A r \in Request : (pc[r] = "ready" /\ pc'[r] = "sent") => asked = 0 \/ justAsked]_vars

\* "... exponentially longer while the limit persists": in one limit of GitHub's
\* every pause that no answer names is twice the one before, up to the most a
\* call would wait. Requests sent before the limit came into force may get
\* through during it, and change nothing.
BacksOffFurther ==
  \A i \in 1..Len(pauses) - 1 : pauses[i + 1] >= Min({2 * pauses[i], MaxThrottle})

\* One limit, that lifts early for its doubling pauses: in the time it may persist at most
\* n of them end, and two more begin, the second for a call about to send when the
\* first did. Whatever the latency, and whatever the number of calls.
LiftsEarly ==
  /\ MaxLimits <= 1
  /\ \E n \in 0..14 : Persist <= 2 ^ n + n /\ 2 ^ (n + 2) - 1 <= MaxThrottle

\* "... so a long cleanup rides out" limits: one that names no wait and lifts early enough
\* (LiftsEarly is) fails no call, however many answers report it.
RidesOut == guided = {} => \A r \in Request : pc[r] # "limited"

=============================================================================
