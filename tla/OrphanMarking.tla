--------------------------- MODULE OrphanMarking ---------------------------
(***************************************************************************)
(* markOrphans of internal/pruner/orphan.go. A manifest is orphaned when   *)
(* something it depends on - a manifest it lists, or its subject - is      *)
(* missing or itself orphaned; and an untagged manifest is also orphaned   *)
(* when every index listing it is.                                         *)
(*                                                                         *)
(* The code walks a Go map, whose order changes from run to run, and then  *)
(* a queue, counting how many of an index's owners it found broken. The    *)
(* model takes the map and the queue in any order.                         *)
(***************************************************************************)
EXTENDS ManifestGraph

VARIABLES
  phase,         \* "scan" the map, "propagate" the queue, "done"
  unscanned,     \* what the loop over the map has not come to
  orphaned,      \* Manifest.Orphaned
  hasOwner,      \* Manifest.HasOwner
  owners,        \* how many manifests list this one
  parents,       \* the manifests that depend on this one
  queue,         \* orphans whose neighbours have not been looked at
  brokenOwners   \* how many orphans taken off the queue list this one

vars == <<graph, phase, unscanned, orphaned, hasOwner, owners, parents, queue, brokenOwners>>

-----------------------------------------------------------------------------
Init ==
  /\ GraphInit
  /\ phase = "scan"
  /\ unscanned = Manifest
  /\ orphaned = {}
  /\ hasOwner = {}
  /\ owners = [m \in Manifest |-> 0]
  /\ parents = [m \in Manifest |-> {}]
  /\ queue = {}
  /\ brokenOwners = [m \in Manifest |-> 0]

\* mark: flag the manifests, and queue those not flagged before; taken has been
\* taken off the queue.
Mark(ms, taken) ==
  /\ orphaned' = orphaned \cup ms
  /\ queue' = (queue \ taken) \cup (ms \ orphaned)

\* One round of the loop over the map.
Scan(m) ==
  /\ phase = "scan" /\ m \in unscanned
  /\ unscanned' = unscanned \ {m}
  /\ hasOwner' = hasOwner \cup (lists[m] \cap Manifest)
  /\ owners' = [c \in Manifest |-> IF c \in lists[m] THEN owners[c] + 1 ELSE owners[c]]
  /\ parents' = [d \in Manifest |-> IF d \in Dependencies(m) THEN parents[d] \cup {m}
                                                             ELSE parents[d]]
  /\ Mark(IF Dependencies(m) \subseteq Manifest THEN {} ELSE {m}, {})
  /\ UNCHANGED <<graph, phase, brokenOwners>>

Scanned ==
  /\ phase = "scan" /\ unscanned = {}
  /\ phase' = "propagate"
  /\ UNCHANGED <<graph, unscanned, orphaned, hasOwner, owners, parents, queue, brokenOwners>>

\* Mutant of Propagate: the count is compared before it goes up.
PropagateTooEarly(m) ==
  /\ phase = "propagate" /\ m \in queue
  /\ brokenOwners' = [c \in Manifest |-> IF c \in lists[m] THEN brokenOwners[c] + 1
                                                           ELSE brokenOwners[c]]
  /\ Mark(parents[m] \cup {c \in (lists[m] \cap Manifest) \ tagged : brokenOwners[c] = owners[c]}, {m})
  /\ UNCHANGED <<graph, phase, unscanned, hasOwner, owners, parents>>

\* Mutant of Propagate: one that lists nothing is passed over, and stays queued.
PropagateIndexesOnly(m) ==
  /\ phase = "propagate" /\ m \in queue /\ lists[m] # {}
  /\ brokenOwners' = [c \in Manifest |-> IF c \in lists[m] THEN brokenOwners[c] + 1
                                                           ELSE brokenOwners[c]]
  /\ Mark(parents[m], {m})
  /\ UNCHANGED <<graph, phase, unscanned, hasOwner, owners, parents>>

\* One round of the loop over the queue: what depends on m is orphaned, and so
\* are its untagged children none of whose owners is left.
Propagate(m) ==
  /\ phase = "propagate" /\ m \in queue
  /\ brokenOwners' = [c \in Manifest |-> IF c \in lists[m] THEN brokenOwners[c] + 1
                                                           ELSE brokenOwners[c]]
  /\ LET abandoned == {c \in (lists[m] \cap Manifest) \ tagged : brokenOwners'[c] = owners[c]}
     IN  Mark(parents[m] \cup abandoned, {m})
  /\ UNCHANGED <<graph, phase, unscanned, hasOwner, owners, parents>>

Propagated ==
  /\ phase = "propagate" /\ queue = {}
  /\ phase' = "done"
  /\ UNCHANGED <<graph, unscanned, orphaned, hasOwner, owners, parents, queue, brokenOwners>>

Next ==
  \/ \E m \in Manifest : Scan(m) \/ Propagate(m)
  \/ Scanned \/ Propagated

Spec == Init /\ [][Next]_vars

-----------------------------------------------------------------------------
(* Properties *)

TypeOK ==
  /\ GraphTypeOK
  /\ phase \in {"scan", "propagate", "done"}
  /\ unscanned \subseteq Manifest
  /\ orphaned \subseteq Manifest /\ hasOwner \subseteq Manifest
  /\ owners \in [Manifest -> Nat] /\ brokenOwners \in [Manifest -> Nat]
  /\ parents \in [Manifest -> SUBSET Manifest]
  /\ queue \subseteq orphaned

\* Only orphans are flagged: whatever the order of the map and of the queue, a
\* flag is in every set closed under the rule. A child an index in good order
\* lists too, or a tagged one, is never flagged for its broken owners.
OnlyOrphans == \A S \in SUBSET Manifest : OrphanClosed(S) => orphaned \subseteq S

\* Every orphan is flagged: the counters find the last broken owner whichever
\* owner the queue comes to last. With OnlyOrphans, the flags are the least
\* set closed under the rule, the same in every run.
AllOrphans == phase = "done" => OrphanClosed(orphaned)

\* Together: once the run is over, the flags are the orphans, no more and no less.
FlagsAreTheOrphans == OnlyOrphans /\ AllOrphans

\* HasOwner is exactly what some index lists; the report calls the others roots.
OwnersKnown == phase = "done" => hasOwner = {m \in Manifest : Owners(m) # {}}

\* The queue empties although manifests depend on one another in cycles.
Terminates == <>(phase = "done")
=============================================================================
