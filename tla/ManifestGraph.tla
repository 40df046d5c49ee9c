--------------------------- MODULE ManifestGraph ---------------------------
(***************************************************************************)
(* The manifests of one repository and how they reference one another, as  *)
(* FetchRepositoryManifests of internal/registry/fetch.go hands them to    *)
(* the pruner. The graph does not change while the pruner decides.         *)
(***************************************************************************)
EXTENDS Integers, FiniteSets

CONSTANTS
  Manifest,    \* the manifests of the repository
  Missing,     \* digests that are referenced, but not in the repository
  None,        \* no subject
  MayList,     \* the pairs <<index, digest>> a graph may hold
  MaySubject,  \* the pairs <<referrer, digest>> a graph may hold
  MayTag       \* the manifests that may be tagged

Digest == Manifest \cup Missing

ASSUME ManifestFinite   == IsFiniteSet(Manifest)
ASSUME MissingIsMissing == Manifest \cap Missing = {}
ASSUME NoneIsNoDigest   == None \notin Digest
ASSUME MayTagManifests  == MayTag \subseteq Manifest

VARIABLES
  lists,    \* Manifest.Manifests
  subject,  \* Manifest.SubjectDigest()
  tagged    \* the manifests with tags

graph == <<lists, subject, tagged>>

GraphTypeOK ==
  /\ lists \in [Manifest -> SUBSET Digest]
  /\ subject \in [Manifest -> Digest \cup {None}]
  /\ tagged \subseteq Manifest

GraphInit ==
  /\ lists \in {f \in [Manifest -> SUBSET Digest] :
                  \A m \in Manifest : {m} \X f[m] \subseteq MayList}
  /\ subject \in {f \in [Manifest -> Digest \cup {None}] :
                    \A m \in Manifest : f[m] = None \/ <<m, f[m]>> \in MaySubject}
  /\ tagged \in SUBSET MayTag

\* What m depends on.
Dependencies(m) == lists[m] \cup ({subject[m]} \ {None})

\* The indexes listing m.
Owners(m) == {p \in Manifest : m \in lists[p]}

Referrers(d) == {r \in Manifest : subject[r] = d}

IsReferrer(m) == subject[m] # None

-----------------------------------------------------------------------------
\* The doc comment of markOrphans, as a condition on a set of manifests: a
\* manifest is orphaned when one it depends on is missing or orphaned, and an
\* untagged one also when every index listing it is.
OrphanClosed(S) ==
  \A m \in Manifest :
    \/ Dependencies(m) \ (Manifest \ S) # {}
    \/ m \notin tagged /\ Owners(m) # {} /\ Owners(m) \subseteq S
    => m \in S

\* The least such set, which markOrphans computes (see OrphanMarking).
Orphans == {m \in Manifest : \A S \in SUBSET Manifest : OrphanClosed(S) => m \in S}
=============================================================================
