---------------------------- MODULE ReviewedPlan ----------------------------
(***************************************************************************)
(* DeletionPlan of internal/pruner/plan.go: Prepare is a Prune run in      *)
(* preview mode (PruneRun) that collects a plan; the user reads it for as  *)
(* long as they like; Execute checks that nothing it affects has changed,  *)
(* checks each repository once more and deletes what was reviewed. Others  *)
(* write to the repositories all the while, and more than one caller may   *)
(* ask for the execution.                                                  *)
(***************************************************************************)
EXTENDS PruneRun

CONSTANTS
  Caller,     \* who may call Execute
  MaxWrites   \* bound: what others do

ASSUME MaxWritesNatural == MaxWrites \in Nat

VARIABLES
  version,      \* changes with every write of others to a repository
  inspected,    \* the version a repository had when it was inspected
  used,         \* DeletionPlan.used
  step,         \* what each call of Execute is doing
  turn,         \* the repository it is at
  deletedBy,    \* what each call of Execute returns as deleted
  interrupted,  \* the context of the executions is cancelled
  stale,        \* repositories of the plan others wrote to before Execute
  late          \* repositories others wrote to after their last recheck

execution == <<used, step, turn, deletedBy>>
others    == <<version, stale, late>>
allVars   == <<vars, execution, others, inspected, interrupted>>

Steps == {"idle", "verifying", "rechecking", "deleting", "ok", "failed"}

PlanInit ==
  /\ Init
  /\ version = [r \in Repository |-> 0]
  /\ inspected = [r \in Repository |-> 0]
  /\ used = FALSE
  /\ step = [c \in Caller |-> "idle"]
  /\ turn = [c \in Caller |-> 0]
  /\ deletedBy = [c \in Caller |-> {}]
  /\ interrupted = FALSE
  /\ stale = {} /\ late = {}

\* A write during an inspection is part of what was inspected, or not.
Prepare ==
  /\ Prune \/ Interrupt
  /\ inspected' = IF busy' THEN [inspected EXCEPT ![at] = version[at]] ELSE inspected
  /\ UNCHANGED <<execution, others, interrupted>>

SeeWrite ==
  /\ busy /\ inspected[at] # version[at]
  /\ inspected' = [inspected EXCEPT ![at] = version[at]]
  /\ UNCHANGED <<vars, execution, others, interrupted>>

-----------------------------------------------------------------------------
(* Execute *)

Affected == {r \in Repository : plan[r] # {}}

\* The next repository of the plan; past the last there is none.
After(r) == Min({n \in Affected : n > r} \cup {Repositories + 1})

Goto(c, s, r) ==
  /\ step' = [step EXCEPT ![c] = s]
  /\ turn' = [turn EXCEPT ![c] = r]

\* Mutant of Begin: the flag is set without looking at it.
BeginAgain(c) ==
  /\ mode = "preview" /\ result = "ok" /\ step[c] = "idle"
  /\ used' = TRUE
  /\ Goto(c, "verifying", After(0))
  /\ UNCHANGED <<vars, deletedBy, others, inspected, interrupted>>

\* A plan is used once: CompareAndSwap lets one caller through.
Begin(c) ==
  /\ mode = "preview" /\ result = "ok" /\ step[c] = "idle"
  /\ used' = TRUE
  /\ IF used THEN Goto(c, "failed", 0) ELSE Goto(c, "verifying", After(0))
  /\ UNCHANGED <<vars, deletedBy, others, inspected, interrupted>>

Unchanged(c) == inspected[turn[c]] = version[turn[c]] /\ ~interrupted

\* The first loop: every affected repository is as it was inspected, or
\* nothing at all is deleted. The request may fail, too.
Verify(c) ==
  /\ step[c] = "verifying"
  /\ \/ turn[c] > Repositories /\ Goto(c, "rechecking", After(0))
     \/ turn[c] <= Repositories /\ Unchanged(c) /\ Goto(c, "verifying", After(turn[c]))
     \/ turn[c] <= Repositories /\ Goto(c, "failed", turn[c])
  /\ UNCHANGED <<vars, used, deletedBy, others, inspected, interrupted>>

\* Mutant of Recheck: the first loop has checked everything.
RecheckTrusting(c) ==
  /\ step[c] = "rechecking"
  /\ \/ turn[c] > Repositories /\ Goto(c, "ok", turn[c])
     \/ turn[c] <= Repositories /\ Goto(c, "deleting", turn[c])
  /\ UNCHANGED <<vars, used, deletedBy, others, inspected, interrupted>>

\* The second loop checks a repository once more just before its deletion; its
\* end returns the interruption, if any.
Recheck(c) ==
  /\ step[c] = "rechecking"
  /\ \/ /\ turn[c] > Repositories
        /\ Goto(c, IF interrupted THEN "failed" ELSE "ok", turn[c])
     \/ turn[c] <= Repositories /\ Unchanged(c) /\ Goto(c, "deleting", turn[c])
     \/ turn[c] <= Repositories /\ Goto(c, "failed", turn[c])
  /\ UNCHANGED <<vars, used, deletedBy, others, inspected, interrupted>>

Reviewed(r) == {r} \X plan[r]

\* The deletion of one repository succeeds, or fails - then part of it may be
\* gone, and part of that confirmed - and ends the execution.
Remove(c) ==
  /\ step[c] = "deleting"
  /\ LET r == turn[c]
     IN \/ /\ stored' = [stored EXCEPT ![r] = @ \ plan[r]]
           /\ deletedBy' = [deletedBy EXCEPT ![c] = @ \cup Reviewed(r)]
           /\ Goto(c, "rechecking", After(r))
        \/ \E gone \in SUBSET plan[r] : \E confirmed \in SUBSET gone :
             /\ plan[r] = Manifest => gone \in {{}, Manifest} /\ confirmed = {}
             /\ stored' = [stored EXCEPT ![r] = @ \ gone]
             /\ deletedBy' = [deletedBy EXCEPT ![c] = @ \cup ({r} \X confirmed)]
             /\ Goto(c, "failed", r)
  /\ UNCHANGED <<mode, at, busy, cancelled, failed, pruned, denied, skipped, total, plan, result,
                 used, others, inspected, interrupted>>

Execute(c) == Begin(c) \/ Verify(c) \/ Recheck(c) \/ Remove(c)

-----------------------------------------------------------------------------
\* Others push to a repository, or retag or delete in it.
Write(r) ==
  /\ MapThenSumSet(LAMBDA x : version[x], Repository) < MaxWrites
  /\ version' = [version EXCEPT ![r] = @ + 1]
  /\ stale' = IF result = "ok" /\ ~used /\ r \in Affected THEN stale \cup {r} ELSE stale
  /\ late' = IF \E c \in Caller : step[c] = "deleting" /\ turn[c] = r
             THEN late \cup {r} ELSE late
  /\ UNCHANGED <<vars, execution, inspected, interrupted>>

InterruptExecution ==
  /\ used /\ ~interrupted
  /\ interrupted' = TRUE
  /\ UNCHANGED <<vars, execution, others, inspected>>

PlanNext ==
  \/ Prepare \/ SeeWrite \/ InterruptExecution
  \/ \E c \in Caller : Execute(c)
  \/ \E r \in Repository : Write(r)

PlanSpec == PlanInit /\ [][PlanNext]_allVars

-----------------------------------------------------------------------------
(* Properties *)

PlanTypeOK ==
  /\ TypeOK
  /\ version \in [Repository -> Nat] /\ inspected \in [Repository -> Nat]
  /\ used \in BOOLEAN /\ interrupted \in BOOLEAN
  /\ step \in [Caller -> Steps]
  /\ turn \in [Caller -> 0..Repositories + 1]
  /\ \A c \in Caller : step[c] = "deleting" => turn[c] \in Affected
  /\ deletedBy \in [Caller -> SUBSET (Repository \X Manifest)]
  /\ stale \subseteq Repository /\ late \subseteq Repository

\* plan.go, Execute: "It first checks every affected repository". One change to
\* any of them between the review and the execution, and nothing is deleted
\* anywhere.
StalePlanDeletesNothing == stale # {} => Lost = {}

\* "... then checks each again immediately before its deletion": as long as
\* others leave a repository alone from its recheck on, it loses only what was
\* reviewed of it as it then was, even while other repositories of the plan are
\* being deleted; and a repository without a plan loses nothing.
DeletesOnlyWhatWasReviewed ==
  [][\A r \in Repository : mode = "preview" /\ stored'[r] # stored[r] =>
       /\ stored[r] \ stored'[r] \subseteq plan[r]
       /\ r \in late \/ inspected[r] = version[r]]_allVars

\* A plan executes once: two confirmations, however they interleave, never
\* delete together, and what they report as deleted is disjoint.
ExecutesOnce ==
  Cardinality({c \in Caller : step[c] \in {"verifying", "rechecking", "deleting", "ok"} \/ deletedBy[c] # {}}) <= 1

\* "Partial API successes are counted even on error": what an execution reports
\* is gone; one that returns no error took everything reviewed, and one that
\* failed in a repository left those after it alone.
ReportsWhatItDid ==
  /\ \A c \in Caller :
       /\ deletedBy[c] \subseteq Lost
       /\ step[c] = "ok" => deletedBy[c] = UNION {Reviewed(r) : r \in Affected}
       /\ step[c] = "failed" /\ turn[c] # 0 => \A rm \in Lost : rm[1] <= turn[c]

\* A plan is executed once and as reviewed, or not at all.
ExecutesOnceOrNever == StalePlanDeletesNothing /\ ExecutesOnce

\* What is reported, of a run or of a plan's execution, is what happened.
ReportsAreTrue == CountsAddUp /\ ReportsWhatItDid

=============================================================================
