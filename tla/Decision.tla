------------------------------ MODULE Decision ------------------------------
(***************************************************************************)
(* How a repository is decided: markOrphans flags its broken images        *)
(* (OrphanMarking), then pruneRepository keeps and deletes (Retention),    *)
(* which takes Orphans for the flags. Both read the same manifests.        *)
(***************************************************************************)
EXTENDS Retention

VARIABLES phase, unscanned, orphaned, hasOwner, owners, parents, marks, brokenOwners

O == INSTANCE OrphanMarking WITH queue <- marks

\* The flags of a finished run are the orphans, no more and no less.
FlagsAreTheOrphans == O!FlagsAreTheOrphans
=============================================================================
