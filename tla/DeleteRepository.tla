-------------------------- MODULE DeleteRepository --------------------------
(***************************************************************************)
(* Registry.DeleteRepository of internal/registry/delete.go: unlock every  *)
(* locked manifest in parallel (unlockAll of lock.go), delete the whole    *)
(* repository with one request, and set all the locks back if that fails.  *)
(***************************************************************************)
EXTENDS Locks

VARIABLES
  phase,      \* what the call is doing
  unlocking,  \* the manifests a goroutine of unlockAll is unlocking
  unlocked    \* those whose goroutine has returned

vars == <<lockVars, phase, unlocking, unlocked>>

Phase == {"checking", "unlocking", "deleting", "relocking", "failed", "deleted"}

\* Manifest.IsLocked()
IsLocked(m) == Of(m, seen) # {}

Init ==
  /\ LocksInit
  /\ phase = "checking"
  /\ unlocking = {}
  /\ unlocked = {}

\* Nothing is touched when ctx is already cancelled.
Check ==
  /\ phase = "checking"
  /\ phase' = IF cancelled THEN "failed" ELSE "unlocking"
  /\ UNCHANGED <<lockVars, unlocking, unlocked>>

-----------------------------------------------------------------------------
(* unlockAll *)

StartUnlock(m) ==
  /\ phase = "unlocking" /\ Unlock /\ IsLocked(m)
  /\ m \notin unlocking \cup unlocked
  /\ Cardinality(unlocking) < Parallelism
  /\ unlocking' = unlocking \cup {m}
  /\ UNCHANGED <<lockVars, phase, unlocked>>

UnlockStep(m) ==
  /\ m \in unlocking
  /\ \/ \E l \in Of(m, todo) : BeginUnlock(m, l)
     \/ \E l \in Of(m, sent) : EndUnlock(l)
  /\ UNCHANGED <<phase, unlocking, unlocked>>

\* The goroutine comes to the end of its locks, or stops short of the rest
\* when ctx is cancelled.
Unlocked(m) ==
  /\ m \in unlocking /\ UnlockOver(m)
  /\ unlocking' = unlocking \ {m}
  /\ unlocked' = unlocked \cup {m}
  /\ UNCHANGED <<lockVars, phase>>

-----------------------------------------------------------------------------
(* The deletion *)

\* Mutant of AllUnlocked: unlockAll does not wait for its goroutines.
AllStarted == Unlock => \A m \in Manifest : IsLocked(m) => m \in unlocking \cup unlocked

AllUnlocked ==
  /\ unlocking = {}
  /\ Unlock => \A m \in Manifest : IsLocked(m) => m \in unlocked

\* group.Wait returned; ctx may have been cancelled meanwhile.
SendDelete ==
  /\ phase = "unlocking" /\ AllUnlocked
  /\ phase' = IF cancelled THEN "relocking" ELSE "deleting"
  /\ UNCHANGED <<lockVars, unlocking, unlocked>>

\* The registry refuses while the repository holds a lock.
Deleted ==
  /\ phase = "deleting" /\ locked = {}
  /\ gone' = Manifest
  /\ phase' = "deleted"
  /\ UNCHANGED <<seen, locked, todo, sent, relocks, warned, cancelled, unlocking, unlocked>>

\* The request fails, and may have taken effect all the same.
Refused ==
  /\ phase = "deleting"
  /\ \/ UNCHANGED gone
     \/ locked = {} /\ gone' = Manifest
  /\ phase' = "relocking"
  /\ UNCHANGED <<seen, locked, todo, sent, relocks, warned, cancelled, unlocking, unlocked>>

RelockStep ==
  /\ phase = "relocking"
  /\ \E l \in relocks : RestoreOne(l)
  /\ UNCHANGED <<phase, unlocking, unlocked>>

Fail ==
  /\ phase = "relocking" /\ relocks = {}
  /\ phase' = "failed"
  /\ UNCHANGED <<lockVars, unlocking, unlocked>>

Interrupt ==
  /\ phase \notin {"failed", "deleted"}
  /\ Cancel
  /\ UNCHANGED <<phase, unlocking, unlocked>>

Main == Check \/ (\E m \in Manifest : StartUnlock(m)) \/ SendDelete
        \/ Deleted \/ Refused \/ RelockStep \/ Fail

Goroutine(m) == UnlockStep(m) \/ Unlocked(m)

Next == Main \/ (\E m \in Manifest : Goroutine(m)) \/ Interrupt

Spec == Init /\ [][Next]_vars

-----------------------------------------------------------------------------
(* Properties *)

TypeOK ==
  /\ LocksTypeOK
  /\ phase \in Phase
  /\ unlocking \subseteq Manifest /\ unlocked \subseteq Manifest

\* A failed call leaves no lock removed unless the repository went all the
\* same or a warning says so: neither an interruption in the middle of the
\* parallel unlocking nor an unlock whose response was lost loses a Relock.
LocksRestored ==
  phase = "failed" /\ gone = {} => seen \ locked \subseteq warned

\* Nothing is unlocked any more once the deletion or the restore has begun:
\* unlockAll waits for all its goroutines, also when ctx is cancelled, so that
\* a restored lock is not removed again by a request still under way.
UnlockingIsOver ==
  [][(phase \in {"deleting", "relocking"}) => locked \subseteq locked']_vars

\* Both together: what a failed call unlocked is locked again, or warned of, and
\* no late unlock undoes that.
RepositoryLocksAreSafe == []LocksRestored /\ UnlockingIsOver

=============================================================================
