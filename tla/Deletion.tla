------------------------------ MODULE Deletion ------------------------------
(***************************************************************************)
(* The two ways pruneRepository deletes: the manifests it does not keep    *)
(* (DeleteManifests), or the repository when it keeps none                 *)
(* (DeleteRepository). The two share no state: a call takes one of them.   *)
(***************************************************************************)
EXTENDS DeleteManifests

VARIABLES
  whole,  \* whether the repository is deleted outright
  rseen, rlocked, rtodo, rsent, rrelocks, rwarned, rgone, rcancelled,
  rphase, unlocking, unlocked

rvars == <<rseen, rlocked, rtodo, rsent, rrelocks, rwarned, rgone, rcancelled,
           rphase, unlocking, unlocked>>

R == INSTANCE DeleteRepository WITH
  seen <- rseen, locked <- rlocked, todo <- rtodo, sent <- rsent, relocks <- rrelocks,
  warned <- rwarned, gone <- rgone, cancelled <- rcancelled, phase <- rphase

\* A failed call restores every lock of the repository or warns of it, and no
\* late unlock undoes that.
RepositoryLocksAreSafe == R!RepositoryLocksAreSafe
=============================================================================
