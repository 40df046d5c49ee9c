--------------------------- MODULE DeleteManifests ---------------------------
(***************************************************************************)
(* Registry.DeleteManifests of internal/registry/delete.go: deletionBatches *)
(* orders the selected manifests, then each batch is deleted by a pool of  *)
(* goroutines, one deleteManifest call per manifest.                       *)
(*                                                                         *)
(* An index goes before the manifests it lists and a subject before its    *)
(* referrers, so that whatever fails or interrupts the run never leaves an *)
(* index without its children, or an image without its signatures.         *)
(***************************************************************************)
EXTENDS Locks

CONSTANTS
  MayList,      \* the pairs <<index, child>> a graph may hold
  MaySubject,   \* the pairs <<referrer, subject>> a graph may hold
  None          \* no subject

ASSUME NoneIsNoManifest == None \notin Manifest

VARIABLES
  lists,    \* Manifest.Manifests, restricted to the selection
  subject,  \* Manifest.SubjectDigest(), None outside the selection
  phase,    \* what the call is doing
  pending,  \* deletionBatches: the parents not placed in a batch yet
  ready,    \* deletionBatches: the next batch
  batch,    \* deletionBatches: the batch of a manifest, 0 when in none yet
  last,     \* the number of batches
  current,  \* the batch being deleted
  task,     \* how far each manifest is
  deleted,  \* the manifests returned as deleted
  failures  \* the manifests whose error is returned

graph  == <<lists, subject>>
plan   == <<pending, ready, batch, last>>
result == <<deleted, failures>>
vars   == <<lockVars, graph, phase, plan, current, task, result>>

Phase == {"planning", "refused", "deleting", "done"}
Task  == {"waiting", "blocked", "unlocking", "deleting", "relocking", "failed", "deleted"}

NotDeleted == {m \in Manifest : task[m] \in {"blocked", "failed"}}
Running    == {m \in Manifest : task[m] \in {"unlocking", "deleting", "relocking"}}
Settled    == NotDeleted \cup {m \in Manifest : task[m] = "deleted"}

\* The manifests that must be deleted before m: the indexes listing it, and
\* its subject unless m lists that too.
Parents(m) ==
  {p \in Manifest : m \in lists[p]} \cup
  {p \in Manifest : p = subject[m] /\ p \notin lists[m]}

-----------------------------------------------------------------------------
Graphs ==
  /\ lists \in {f \in [Manifest -> SUBSET Manifest] :
                  \A m \in Manifest : {m} \X f[m] \subseteq MayList}
  /\ subject \in {f \in [Manifest -> Manifest \cup {None}] :
                    \A m \in Manifest : f[m] = None \/ <<m, f[m]>> \in MaySubject}

Init ==
  /\ LocksInit
  /\ Graphs
  /\ phase = "planning"
  /\ pending = [m \in Manifest |-> Cardinality(Parents(m))]
  /\ ready = {m \in Manifest : Parents(m) = {}}
  /\ batch = [m \in Manifest |-> 0]
  /\ last = 0
  /\ current = 1
  /\ task = [m \in Manifest |-> "waiting"]
  /\ deleted = {}
  /\ failures = {}

-----------------------------------------------------------------------------
(* deletionBatches *)

\* One batch: everything ready joins it, and what has no other parent left
\* is ready next.
PlanBatch ==
  /\ phase = "planning" /\ ready # {}
  /\ batch' = [m \in Manifest |-> IF m \in ready THEN last + 1 ELSE batch[m]]
  /\ last' = last + 1
  /\ pending' = [m \in Manifest |-> pending[m] - Cardinality(Parents(m) \cap ready)]
  /\ ready' = {m \in Manifest : Parents(m) \cap ready # {} /\ pending'[m] = 0}
  /\ UNCHANGED <<lockVars, graph, phase, current, task, result>>

\* A cyclic graph is refused before anything is touched. ctx is looked at
\* before each batch, the first one included.
PlanDone ==
  /\ phase = "planning" /\ ready = {}
  /\ phase' = IF \E m \in Manifest : batch[m] = 0 THEN "refused"
              ELSE IF cancelled \/ last = 0 THEN "done" ELSE "deleting"
  /\ UNCHANGED <<lockVars, graph, plan, current, task, result>>

-----------------------------------------------------------------------------
(* The loop over a batch *)

InBatch(m) == phase = "deleting" /\ batch[m] = current /\ task[m] = "waiting"

\* Mutant of Blocked: a subject that was not deleted blocks nothing.
BlockedByIndexOnly(m) == {p \in Manifest : m \in lists[p]} \cap NotDeleted # {}

Blocked(m) == Parents(m) \cap NotDeleted # {}

\* A parent was not deleted: neither is m.
Skip(m) ==
  /\ InBatch(m) /\ Blocked(m)
  /\ task' = [task EXCEPT ![m] = "blocked"]
  /\ UNCHANGED <<lockVars, graph, phase, plan, current, result>>

\* A goroutine starts deleteManifest, which gives up at once when ctx is
\* cancelled; the interruption alone is no failure to report.
Start(m) ==
  /\ InBatch(m) /\ ~Blocked(m)
  /\ Cardinality(Running) < Parallelism
  /\ task' = [task EXCEPT ![m] = IF cancelled THEN "failed" ELSE "unlocking"]
  /\ UNCHANGED <<lockVars, graph, phase, plan, current, result>>

\* Mutant of EndBatch: a failure stops the remaining batches.
EndBatchStopping ==
  /\ phase = "deleting"
  /\ \A m \in Manifest : batch[m] = current => m \in Settled
  /\ IF cancelled \/ failures # {} \/ current = last
     THEN phase' = "done" /\ UNCHANGED current
     ELSE current' = current + 1 /\ UNCHANGED phase
  /\ UNCHANGED <<lockVars, graph, plan, task, result>>

\* Mutant of EndBatch: the next batch does not wait for this one's goroutines.
EndBatchHasty ==
  /\ phase = "deleting"
  /\ \A m \in Manifest : batch[m] = current => m \in Settled \cup Running
  /\ IF cancelled \/ current = last
     THEN (\A m \in Manifest : m \notin Running) /\ phase' = "done" /\ UNCHANGED current
     ELSE current' = current + 1 /\ UNCHANGED phase
  /\ UNCHANGED <<lockVars, graph, plan, task, result>>

\* group.Wait returned: on to the next batch unless ctx is cancelled.
EndBatch ==
  /\ phase = "deleting"
  /\ \A m \in Manifest : batch[m] = current => m \in Settled
  /\ IF cancelled \/ current = last
     THEN phase' = "done" /\ UNCHANGED current
     ELSE current' = current + 1 /\ UNCHANGED phase
  /\ UNCHANGED <<lockVars, graph, plan, task, result>>

-----------------------------------------------------------------------------
(* deleteManifest, in its goroutine *)

UnlockStep(m) ==
  /\ task[m] = "unlocking"
  /\ \/ \E l \in Of(m, todo) : BeginUnlock(m, l)
     \/ \E l \in Of(m, sent) : EndUnlock(l)
  /\ UNCHANGED <<graph, phase, plan, current, task, result>>

\* ctx was cancelled before the deletion was requested.
Abandon(m) ==
  /\ task[m] = "unlocking" /\ UnlockOver(m) /\ cancelled
  /\ task' = [task EXCEPT ![m] = "relocking"]
  /\ UNCHANGED <<lockVars, graph, phase, plan, current, result>>

SendDelete(m) ==
  /\ task[m] = "unlocking" /\ UnlockOver(m) /\ ~cancelled
  /\ task' = [task EXCEPT ![m] = "deleting"]
  /\ UNCHANGED <<lockVars, graph, phase, plan, current, result>>

\* The registry confirms the deletion.
Confirmed(m) ==
  /\ task[m] = "deleting" /\ Deletable(m)
  /\ gone' = gone \cup {m}
  /\ deleted' = deleted \cup {m}
  /\ task' = [task EXCEPT ![m] = "deleted"]
  /\ UNCHANGED <<seen, locked, todo, sent, relocks, warned, cancelled,
                 graph, phase, plan, current, failures>>

\* The request fails, and may have taken effect all the same. Whether its error
\* is one to report, or may be nothing but the interruption, is told in the end.
Refused(m) ==
  /\ task[m] = "deleting"
  /\ \/ UNCHANGED gone
     \/ Deletable(m) /\ gone' = gone \cup {m}
  /\ failures' \in {failures, failures \cup {m}}
  /\ task' = [task EXCEPT ![m] = "relocking"]
  /\ UNCHANGED <<seen, locked, todo, sent, relocks, warned, cancelled,
                 graph, phase, plan, current, deleted>>

RelockStep(m) ==
  /\ task[m] = "relocking"
  /\ \E l \in Of(m, relocks) : RestoreOne(l)
  /\ UNCHANGED <<graph, phase, plan, current, task, result>>

\* Mutant of Fail: an error that looks like an interruption, such as the timeout
\* of a request, is dropped although the run goes on.
FailUnreported(m) ==
  /\ task[m] = "relocking" /\ Of(m, relocks) = {}
  /\ task' = [task EXCEPT ![m] = "failed"]
  /\ UNCHANGED <<lockVars, graph, phase, plan, current, result>>

\* Every restore has returned; only now is m recorded as not deleted. An error that
\* may be the interruption is dropped if ctx is cancelled by now.
Fail(m) ==
  /\ task[m] = "relocking" /\ Of(m, relocks) = {}
  /\ task' = [task EXCEPT ![m] = "failed"]
  /\ failures' = IF cancelled THEN failures ELSE failures \cup {m}
  /\ UNCHANGED <<lockVars, graph, phase, plan, current, gone, deleted>>

-----------------------------------------------------------------------------
Interrupt ==
  /\ phase \in {"planning", "deleting"}
  /\ Cancel
  /\ UNCHANGED <<graph, phase, plan, current, task, result>>

Loop ==
  \/ PlanBatch
  \/ PlanDone
  \/ \E m \in Manifest : Skip(m) \/ Start(m)
  \/ EndBatch

Goroutine(m) ==
  \/ UnlockStep(m) \/ Abandon(m) \/ SendDelete(m)
  \/ Confirmed(m) \/ Refused(m)
  \/ RelockStep(m) \/ Fail(m)

Next == Loop \/ (\E m \in Manifest : Goroutine(m)) \/ Interrupt

\* The Go scheduler runs the loop and every goroutine, and every request ends:
\* the HTTP clients time out, and retries are bounded.
Fairness == WF_vars(Loop) /\ \A m \in Manifest : WF_vars(Goroutine(m))

Spec == Init /\ [][Next]_vars
FairSpec == Spec /\ Fairness

-----------------------------------------------------------------------------
(* Properties *)

TypeOK ==
  /\ LocksTypeOK
  /\ lists \in [Manifest -> SUBSET Manifest]
  /\ subject \in [Manifest -> Manifest \cup {None}]
  /\ phase \in Phase
  /\ pending \in [Manifest -> Nat]
  /\ ready \subseteq Manifest
  /\ batch \in [Manifest -> Nat]
  /\ last \in Nat /\ current \in Nat
  /\ task \in [Manifest -> Task]
  /\ deleted \subseteq Manifest /\ failures \subseteq Manifest

\* No failure, lost response or interruption ever leaves an index whose child
\* this call deleted, or a referrer's subject behind without that referrer
\* (delete.go: "A failed deletion leaves the manifests depending on it intact,
\* and in turn theirs").
DependenciesOutliveParents ==
  \A m \in gone :
    /\ \A p \in Manifest : m \in lists[p] => p \in gone
    /\ subject[m] \in Manifest \ lists[m] => subject[m] \in gone

\* The call returns as deleted only what the registry no longer has.
DeletedIsGone == deleted \subseteq gone

\* A failure stops nothing that does not depend on it: a call that was not
\* interrupted deletes every manifest except those it returns an error for and,
\* in turn, those depending on one it did not delete. With no error at all it
\* deleted the whole selection.
OnlyFailuresBlock ==
  phase = "done" /\ ~cancelled =>
    /\ \A m \in Manifest \ deleted : m \in failures \/ Parents(m) \ deleted # {}
    /\ failures = {} => deleted = Manifest

\* A manifest is unlocked only once everything that could block its deletion
\* is gone: a manifest that is kept because of another never loses a lock.
UnlockedOnlyUnblocked ==
  \A l \in seen \ locked : Parents(l[1]) \subseteq gone

\* A manifest the call failed to delete and that still exists has every lock
\* it had, or a warning says which it lost, even when the run was interrupted
\* between the unlock and the deletion or an unlock's response was lost.
LocksRestored ==
  \A l \in seen \ locked : l[1] \in Settled => l[1] \in gone \/ l \in warned

\* The planning refuses exactly the graphs with a cycle - a set of manifests
\* each waiting for another of them - and refuses them before touching any.
Cyclic == \E S \in SUBSET Manifest : S # {} /\ \A m \in S : Parents(m) \cap S # {}

RefusesCycles ==
  /\ phase = "refused" => Cyclic /\ gone = {} /\ locked = seen
  /\ phase \in {"deleting", "done"} => ~Cyclic

\* Failures spread exactly as far as dependencies do, and a graph that could
\* never be finished is not begun.
FailuresAreContained == OnlyFailuresBlock /\ RefusesCycles

\* No lock is removed too early, and none is lost in silence.
LocksAreSafe == UnlockedOnlyUnblocked /\ LocksRestored

\* The call returns, whatever fails and whenever it is interrupted: no
\* manifest waits for a parent that will not settle, and a full pool drains.
Terminates == <>(phase \in {"done", "refused"})

-----------------------------------------------------------------------------
\* What a caller may rely on: see OrderedDeletion.
Outcome ==
  CASE phase \in {"planning", "deleting"} -> "running"
    [] phase = "done" /\ failures = {} /\ ~cancelled -> "ok"
    [] OTHER -> "failed"

Abstract == INSTANCE OrderedDeletion WITH
  before <- [m \in Manifest |-> Parents(m)], outcome <- Outcome

ImplementsOrderedDeletion == Abstract!Spec
=============================================================================
