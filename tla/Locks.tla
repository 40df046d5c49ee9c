------------------------------- MODULE Locks -------------------------------
(***************************************************************************)
(* Removing and restoring the locks of the manifests a deletion is about   *)
(* to delete: internal/registry/lock.go on top of the Unlocker interface   *)
(* of internal/registry/backend.go, which internal/registry/acr implements.*)
(* DeleteManifests and DeleteRepository extend this module: the steps here *)
(* say what one call of UnlockManifest, UnlockTag or a Relock does to the  *)
(* registry and to the run's own record, the two others say when the call  *)
(* is made.                                                                *)
(*                                                                         *)
(* A request may fail after it took effect (the response is lost, or the   *)
(* run is interrupted while it waits), so the outcome of a failed request  *)
(* is either state of the lock.                                            *)
(***************************************************************************)
EXTENDS Integers, FiniteSets

CONSTANTS
  Manifest,  \* the manifests passed to DeleteManifests or DeleteRepository
  Tag,       \* their tags
  MayLock,   \* the locks there may be
  Unlock,    \* whether opts.Unlock is set on a registry with locks
  Parallelism  \* the limit of the pools

ASSUME ManifestFinite == IsFiniteSet(Manifest)
ASSUME UnlockBoolean  == Unlock \in BOOLEAN
ASSUME ParallelismPositive == Parallelism \in Nat \ {0}

\* A lock sits on the manifest itself or on one of its tags.
OnManifest == "manifest"
Lock == Manifest \X (Tag \cup {OnManifest})

ASSUME MayLockAreLocks == MayLock \subseteq Lock

VARIABLES
  seen,       \* the locks of the snapshot: Manifest.Locked and LockedTags
  locked,     \* the locks the registry holds
  todo,       \* the locks unlock has not come to yet
  sent,       \* the locks whose removal is being requested
  relocks,    \* the locks unlock returned a Relock for, not restored yet
  warned,     \* the locks a warning reported as staying unlocked
  gone,       \* the manifests the registry no longer has
  cancelled   \* ctx is cancelled

lockVars == <<seen, locked, todo, sent, relocks, warned, gone, cancelled>>

LocksTypeOK ==
  /\ seen \subseteq Lock /\ locked \subseteq seen
  /\ todo \subseteq seen /\ sent \subseteq seen /\ relocks \subseteq seen /\ warned \subseteq seen
  /\ gone \subseteq Manifest
  /\ cancelled \in BOOLEAN

\* VerifyRepositorySnapshot has just compared the snapshot with the registry,
\* so the registry holds the locks that were seen.
LocksInit ==
  /\ seen \in SUBSET MayLock
  /\ locked = seen
  /\ todo = IF Unlock THEN seen ELSE {}
  /\ sent = {}
  /\ relocks = {}
  /\ warned = {}
  /\ gone = {}
  /\ cancelled = FALSE

Of(m, locks) == {l \in locks : l[1] = m}

\* The registry refuses to delete a manifest that is locked or has a locked
\* tag.
Deletable(m) == Of(m, locked) = {}

\* The lock of the manifest itself is removed before those of its tags.
NextToUnlock(m, l) ==
  /\ l \in Of(m, todo)
  /\ l[2] # OnManifest => <<m, OnManifest>> \notin todo

\* One UnlockManifest or UnlockTag call begins, unless ctx is cancelled.
BeginUnlock(m, l) ==
  /\ ~cancelled
  /\ NextToUnlock(m, l) /\ Of(m, sent) = {}
  /\ todo' = todo \ {l}
  /\ sent' = sent \cup {l}
  /\ UNCHANGED <<seen, locked, relocks, warned, gone, cancelled>>

\* The call returns: the attributes could not be read, and the lock is left
\* alone; or the update removed the lock; or the update failed, whether or not
\* it took effect. A Relock comes with the last two.
EndUnlock(l) ==
  /\ l \in sent
  /\ sent' = sent \ {l}
  /\ \/ UNCHANGED <<locked, relocks>>
     \/ /\ locked' \in {locked, locked \ {l}}
        /\ relocks' = relocks \cup {l}
  /\ UNCHANGED <<seen, todo, warned, gone, cancelled>>

\* unlock has nothing more to do for m: its locks have all been tried, or ctx
\* was cancelled before the next.
UnlockOver(m) == Of(m, sent) = {} /\ (cancelled \/ Of(m, todo) = {})

\* Mutant of RestoreOne: the restore is repeated until it succeeds.
RestoreOneInsisting(l) ==
  /\ l \in relocks /\ l[1] \notin gone
  /\ relocks' = relocks \ {l}
  /\ locked' = locked \cup {l}
  /\ UNCHANGED <<seen, todo, sent, warned, gone, cancelled>>

\* One restore of relock, on a context that outlives the cancellation but has
\* its own timeout: it sets the lock back, or fails with a warning whether or
\* not it took effect. A manifest that is gone takes no lock back.
RestoreOne(l) ==
  /\ l \in relocks
  /\ relocks' = relocks \ {l}
  /\ \/ /\ l[1] \notin gone
        /\ locked' = locked \cup {l}
        /\ UNCHANGED warned
     \/ /\ locked' \in IF l[1] \in gone THEN {locked} ELSE {locked, locked \cup {l}}
        /\ warned' = warned \cup {l}
  /\ UNCHANGED <<seen, todo, sent, gone, cancelled>>

\* The user interrupts the run.
Cancel ==
  /\ ~cancelled
  /\ cancelled' = TRUE
  /\ UNCHANGED <<seen, locked, todo, sent, relocks, warned, gone>>

=============================================================================
