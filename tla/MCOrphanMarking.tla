-------------------------- MODULE MCOrphanMarking --------------------------
(***************************************************************************)
(* The marking of Decision, for TLC: pruneRepository has not begun to      *)
(* decide. Manifests are numbered in the order they were built, so an      *)
(* index lists earlier ones; 0 is a missing digest.                        *)
(***************************************************************************)
EXTENDS Decision

\* Indexes of indexes over a child with several owners.
NestedLists == {<<m, d>> \in Manifest \X Digest : d < m /\ (d = 0 => m \in {2, 3})}

\* Subjects that are there, missing, or in a cycle.
Subjects == {<<4, 1>>, <<1, 0>>, <<1, 4>>}

Undecided == <<class, opt, selection, stage, pass, todo, pending, queue, loaded, condemned, kept>>

Plain == [ignoreMissing |-> FALSE, deleteOrphaned |-> FALSE, mustDeleteAll |-> FALSE,
          includeLocked |-> FALSE, protectsLastTag |-> FALSE, manual |-> FALSE]
AnyOption == {Plain}

marking == <<graph, phase, unscanned, orphaned, hasOwner, owners, parents, marks, brokenOwners>>

MCInit == O!Init /\ Init
MCNext == O!Next /\ UNCHANGED Undecided

\* A sequential loop.
MCSpec == MCInit /\ [][MCNext]_<<marking, Undecided>> /\ WF_<<marking, Undecided>>(MCNext)

\* The queue empties although manifests depend on one another in cycles.
Terminates == O!Terminates
=============================================================================
