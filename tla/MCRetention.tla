---------------------------- MODULE MCRetention ----------------------------
(***************************************************************************)
(* An instance of Retention for TLC: manifests are numbered in the order   *)
(* they were built, so an index lists earlier ones; 0 is a missing digest. *)
(* Each kind of repository and rule is checked over all its graphs.        *)
(***************************************************************************)
EXTENDS Retention

Plain == [ignoreMissing |-> FALSE, deleteOrphaned |-> FALSE, mustDeleteAll |-> FALSE,
          includeLocked |-> FALSE, protectsLastTag |-> FALSE, manual |-> FALSE]

\* The rule fails on broken images, ignores them or deletes them.
Broken == [
  lists    |-> {<<2, 1>>, <<3, 2>>, <<2, 0>>},
  subjects |-> {<<3, 1>>, <<3, 0>>, <<1, 3>>},
  tags     |-> {1},
  classes  |-> {"free", "kept", "pinned"},
  options  |-> {[Plain EXCEPT !.ignoreMissing = i, !.deleteOrphaned = d] : i, d \in BOOLEAN}]

\* Locks, and rules that delete everything or nothing.
Locked == [
  lists    |-> {<<2, 1>>},
  subjects |-> {<<3, 2>>, <<1, 3>>, <<3, 1>>},
  tags     |-> {1, 2, 3},
  classes  |-> {"free", "aged", "taglocked", "aged+taglocked"},
  options  |-> {[Plain EXCEPT !.mustDeleteAll = d, !.includeLocked = l] : d, l \in BOOLEAN}]

\* A registry that keeps the last tag.
LastTag == [
  lists    |-> {<<2, 1>>, <<2, 0>>},
  subjects |-> {<<3, 1>>, <<3, 2>>},
  tags     |-> {1, 2, 3},
  classes  |-> {"free", "kept"},
  options  |-> {[Plain EXCEPT !.protectsLastTag = TRUE, !.deleteOrphaned = d, !.ignoreMissing = ~d] :
                  d \in BOOLEAN}]

\* A manual cleanup.
Manual == [
  lists    |-> {<<2, 1>>, <<3, 1>>, <<2, 0>>},
  subjects |-> {<<3, 2>>, <<1, 3>>},
  tags     |-> {1, 2, 3},
  classes  |-> {"free", "aged", "taglocked"},
  options  |-> {[Plain EXCEPT !.manual = TRUE, !.ignoreMissing = TRUE, !.protectsLastTag = p] :
                  p \in BOOLEAN}]

Kinds == {Broken, Locked, LastTag, Manual}

AnyList    == UNION {k.lists : k \in Kinds}
AnySubject == UNION {k.subjects : k \in Kinds}
AnyOptions == UNION {k.options : k \in Kinds}

OfKind(k) ==
  /\ lists \in {f \in [Manifest -> SUBSET Digest] :
                  \A m \in Manifest : {m} \X f[m] \subseteq k.lists}
  /\ subject \in {f \in [Manifest -> Digest \cup {None}] :
                    \A m \in Manifest : f[m] = None \/ <<m, f[m]>> \in k.subjects}
  /\ tagged \in SUBSET k.tags
  /\ class \in [Manifest -> k.classes]
  /\ opt \in k.options

MCInit == (\E k \in Kinds : OfKind(k)) /\ Init
MCSpec == MCInit /\ [][Next]_vars
=============================================================================
