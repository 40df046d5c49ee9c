------------------------------ MODULE Retention ------------------------------
(***************************************************************************)
(* What pruneRepository of internal/pruner/pruner.go keeps of a repository *)
(* it has fetched: decide, run once to find the manifests whose tag locks  *)
(* must be listed and again with those locks known, then keepLastTag.      *)
(*                                                                         *)
(* The rules' verdict on a manifest (evaluator.keep) and what protects it  *)
(* are its class, chosen once: the two passes see the same listing at the  *)
(* same "now". What differs between the passes is which tag locks are      *)
(* known. The loops take their manifests, and keepWithDependencies its     *)
(* stack, in any order.                                                    *)
(***************************************************************************)
EXTENDS ManifestGraph

CONSTANTS
  Classes,  \* the classes a manifest may have, see below
  Options   \* the rule's, the command's and the registry's options

Class == {"free", "kept", "aged", "pinned", "taglocked", "aged+taglocked"}

Option == [ignoreMissing   : BOOLEAN,  \* RepoRule.IgnoreMissingManifests
           deleteOrphaned  : BOOLEAN,  \* RepoRule.DeleteOrphanedManifests
           mustDeleteAll   : BOOLEAN,  \* RepoRule.MustDeleteEverything
           includeLocked   : BOOLEAN,  \* Pruner.IncludeLocked
           protectsLastTag : BOOLEAN,  \* Registry.ProtectsLastTag(): GHCR, without locks
           manual          : BOOLEAN]  \* PrepareManifests

ASSUME KnownClasses == Classes \subseteq Class
ASSUME KnownOptions == Options \subseteq Option

VARIABLES
  class,      \* what the rules and the protections say of a manifest
  opt,        \* the options
  selection,  \* Pruner.selection; every manifest when it is nil
  stage,      \* what pruneRepository is doing
  pass,       \* 1 and 2: the calls of decide; 3: keepLastTag
  todo,       \* what the loop over all manifests has not come to
  pending,    \* the stack of keepWithDependencies
  queue,      \* the queue of keepReferrers
  loaded,     \* the manifests whose LockedTags are loaded
  condemned,  \* what the first call of decide did not keep
  kept        \* what the current call of decide keeps

config == <<graph, class, opt>>
vars   == <<config, selection, stage, pass, todo, pending, queue, loaded, condemned, kept>>

Stage == {"start", "rules", "referrers", "locks", "last", "decided", "gone", "error"}

-----------------------------------------------------------------------------
(* The predicates on a manifest *)

ProtectedByAge(m) == class[m] \in {"aged", "aged+taglocked"}

TagLocked(m) == class[m] \in {"taglocked", "aged+taglocked"}

\* The locks of its tags count once they are loaded.
Pinned(m) ==
  \/ class[m] = "pinned"
  \/ ~opt.includeLocked /\ TagLocked(m) /\ m \in loaded

Protected(m) == ProtectedByAge(m) \/ Pinned(m)

ShouldKeep(m) ==
  \/ class[m] = "kept" /\ ~(opt.deleteOrphaned /\ m \in Orphans)
  \/ Protected(m)

-----------------------------------------------------------------------------
\* The rule of a manual cleanup deletes everything and ignores what is missing.
ManualRule ==
  /\ opt.ignoreMissing /\ ~opt.deleteOrphaned /\ ~opt.mustDeleteAll
  /\ \A m \in Manifest : class[m] # "kept"

\* A tag lock needs a tag, and a registry that has locks: the one that protects
\* the last tag has none.
Init ==
  /\ GraphInit
  /\ class \in {f \in [Manifest -> Classes] :
                  \A m \in Manifest : f[m] \in {"taglocked", "aged+taglocked"} => m \in tagged}
  /\ opt \in Options
  /\ opt.manual => ManualRule
  /\ opt.protectsLastTag => \A m \in Manifest : ~TagLocked(m)
  /\ selection = Manifest
  /\ stage = "start"
  /\ pass = 1
  /\ todo = {} /\ pending = {} /\ queue = {}
  /\ loaded = {} /\ condemned = {} /\ kept = {}

\* The selection of a manual cleanup: the requested manifests, the manifests
\* they list and their referrers. One that is not in the repository fails it.
Expansion(requested) ==
  {d \in Digest : \A S \in SUBSET Digest :
     requested \subseteq S /\ (\A m \in S \cap Manifest : lists[m] \cup Referrers(m) \subseteq S)
       => d \in S}

BeginPass(n) ==
  /\ stage' = "rules"
  /\ pass' = n
  /\ todo' = Manifest
  /\ kept' = {}

\* expandSelection, then reportOrphans: broken images fail a rule that neither
\* ignores nor deletes them.
Start ==
  /\ stage = "start"
  /\ \/ /\ ~opt.manual
        /\ UNCHANGED selection
        /\ IF Orphans # {} /\ ~opt.ignoreMissing /\ ~opt.deleteOrphaned
           THEN stage' = "error" /\ UNCHANGED <<pass, todo, kept>>
           ELSE BeginPass(1)
     \/ /\ opt.manual
        /\ \E requested \in (SUBSET Digest) \ {{}} :
             IF Expansion(requested) \subseteq Manifest
             THEN selection' = Expansion(requested) /\ BeginPass(1)
             ELSE stage' = "error" /\ UNCHANGED <<selection, pass, todo, kept>>
  /\ UNCHANGED <<config, pending, queue, loaded, condemned>>

-----------------------------------------------------------------------------
(* keepWithDependencies *)

\* Mutant of Follow: the referrers of a dependency are not looked for.
FollowQuietly(d) ==
  /\ d \in pending
  /\ IF d \in kept \/ (d \in Missing /\ opt.ignoreMissing)
     THEN pending' = pending \ {d} /\ UNCHANGED <<stage, kept>>
     ELSE IF d \in Missing
     THEN stage' = "error" /\ pending' = {} /\ UNCHANGED kept
     ELSE kept' = kept \cup {d} /\ pending' = (pending \ {d}) \cup lists[d] /\ UNCHANGED stage
  /\ UNCHANGED <<config, selection, pass, todo, queue, loaded, condemned>>

\* One turn of its loop.
Follow(d) ==
  /\ d \in pending
  /\ IF d \in kept
     THEN pending' = pending \ {d} /\ UNCHANGED <<stage, queue, kept>>
     ELSE IF d \in Missing
     THEN IF opt.ignoreMissing
          THEN pending' = pending \ {d} /\ UNCHANGED <<stage, queue, kept>>
          ELSE stage' = "error" /\ pending' = {} /\ UNCHANGED <<queue, kept>>
     ELSE /\ kept' = kept \cup {d}
          /\ pending' = (pending \ {d}) \cup lists[d]
          /\ queue' = IF stage = "referrers" THEN queue \cup {d} ELSE queue
          /\ UNCHANGED stage
  /\ UNCHANGED <<config, selection, pass, todo, loaded, condemned>>

-----------------------------------------------------------------------------
(* decide *)

\* Mutant of Consider: what a manual cleanup did not select is not kept.
ConsiderUnselected(m) ==
  /\ stage = "rules" /\ pending = {} /\ m \in todo
  /\ todo' = todo \ {m}
  /\ pending' = IF ~IsReferrer(m) /\ ShouldKeep(m) THEN {m} ELSE {}
  /\ UNCHANGED <<config, selection, stage, pass, queue, loaded, condemned, kept>>

\* One turn of its loop: what a manual cleanup did not select is kept, and
\* referrers are left to keepReferrers.
Consider(m) ==
  /\ stage = "rules" /\ pending = {} /\ m \in todo
  /\ todo' = todo \ {m}
  /\ pending' = IF m \notin selection \/ (~IsReferrer(m) /\ ShouldKeep(m)) THEN {m} ELSE {}
  /\ UNCHANGED <<config, selection, stage, pass, queue, loaded, condemned, kept>>

AllOrNothing ==
  /\ opt.mustDeleteAll
  /\ kept # {} \/ \E m \in Manifest : IsReferrer(m) /\ Pinned(m)

BeginReferrers(ks) ==
  /\ stage' = "referrers"
  /\ queue' = ks
  /\ todo' = Manifest

\* A pass is over: the first selects the manifests to load tag locks for, and
\* the last two decide.
EndPass(ks) ==
  /\ stage' = CASE pass = 1 -> IF ks = Manifest THEN "rules" ELSE "locks"
                [] pass = 2 -> IF ks # {} /\ opt.protectsLastTag THEN "last" ELSE "decided"
                [] OTHER -> "decided"
  /\ condemned' = IF pass = 1 THEN Manifest \ ks ELSE condemned
  /\ IF pass = 1 /\ ks = Manifest
     THEN pass' = 2 /\ kept' = {} /\ todo' = Manifest
     ELSE UNCHANGED <<pass, todo>> /\ kept' = ks

\* must_delete_everything keeps the whole repository for one manifest.
RulesDone ==
  /\ stage = "rules" /\ pending = {} /\ todo = {}
  /\ IF AllOrNothing
     THEN EndPass(Manifest) /\ UNCHANGED queue
     ELSE BeginReferrers(kept) /\ UNCHANGED <<pass, kept, condemned>>
  /\ UNCHANGED <<config, selection, pending, loaded>>

-----------------------------------------------------------------------------
(* keepReferrers *)

\* follow: the referrers of a manifest kept since it last ran.
FollowReferrers(m) ==
  /\ stage = "referrers" /\ pending = {} /\ m \in queue
  /\ queue' = queue \ {m}
  /\ pending' = {r \in Referrers(m) \ kept : ~(opt.deleteOrphaned /\ r \in Orphans)}
  /\ UNCHANGED <<config, selection, stage, pass, todo, loaded, condemned, kept>>

\* Mutant of ShelterReferrer: the tags' locks are forgotten.
ShelterByAge(m) ==
  /\ stage = "referrers" /\ pending = {} /\ queue = {} /\ m \in todo
  /\ todo' = todo \ {m}
  /\ pending' = IF m \notin kept /\ IsReferrer(m) /\ ProtectedByAge(m) THEN {m} ELSE {}
  /\ UNCHANGED <<config, selection, stage, pass, queue, loaded, condemned, kept>>

\* A referrer no kept subject keeps, but protected itself.
ShelterReferrer(m) ==
  /\ stage = "referrers" /\ pending = {} /\ queue = {} /\ m \in todo
  /\ todo' = todo \ {m}
  /\ pending' = IF m \notin kept /\ IsReferrer(m) /\ Protected(m) THEN {m} ELSE {}
  /\ UNCHANGED <<config, selection, stage, pass, queue, loaded, condemned, kept>>

ReferrersDone ==
  /\ stage = "referrers" /\ pending = {} /\ queue = {} /\ todo = {}
  /\ EndPass(kept)
  /\ UNCHANGED <<config, selection, pending, queue, loaded>>

-----------------------------------------------------------------------------
(* pruneRepository, after the first decision and after the second *)

\* Mutant of LockCandidates: must_delete_everything is no special case.
LockCondemned == condemned

\* Under must_delete_everything a referrer the first pass kept for its age is
\* asked for its tag locks too.
LockCandidates ==
  IF opt.mustDeleteAll /\ ~opt.includeLocked THEN Manifest ELSE condemned

\* LoadTagLocks lists the tags when a candidate has one, on a registry with
\* locks. The listing may fail; or the repository is gone by then, which ends
\* the matter: VerifyRepositorySnapshot is about to find so and deletes nothing.
LoadTagLocks ==
  /\ stage = "locks"
  /\ \/ /\ loaded' = IF opt.protectsLastTag \/ LockCandidates \cap tagged = {} THEN {}
                     ELSE LockCandidates
        /\ BeginPass(2)
     \/ /\ ~opt.protectsLastTag /\ LockCandidates \cap tagged # {}
        /\ stage' \in {"error", "gone"} /\ UNCHANGED <<pass, todo, loaded, kept>>
  /\ UNCHANGED <<config, selection, pending, queue, condemned>>

LastTagRank(m) ==
  (IF m \in Orphans THEN 2 ELSE 0) + (IF IsReferrer(m) THEN 1 ELSE 0)

\* Mutant of KeepLastTag: any tagged manifest will do.
KeepAnyTag ==
  /\ stage = "last" /\ pending = {} /\ pass = 2
  /\ IF tagged = {} \/ tagged \cap kept # {}
     THEN stage' = "decided" /\ UNCHANGED <<pass, pending>>
     ELSE \E last \in tagged : pass' = 3 /\ pending' = {last} /\ UNCHANGED stage
  /\ UNCHANGED <<config, selection, todo, queue, loaded, condemned, kept>>

\* keepLastTag: unless a tagged manifest is kept anyway, one of the best rank
\* is, with its dependencies.
KeepLastTag ==
  /\ stage = "last" /\ pending = {} /\ pass = 2
  /\ IF tagged = {} \/ tagged \cap kept # {}
     THEN stage' = "decided" /\ UNCHANGED <<pass, pending>>
     ELSE \E last \in tagged :
            /\ \A m \in tagged : LastTagRank(last) <= LastTagRank(m)
            /\ pass' = 3 /\ pending' = {last} /\ UNCHANGED stage
  /\ UNCHANGED <<config, selection, todo, queue, loaded, condemned, kept>>

\* Its referrers are kept in turn.
LastTagKept ==
  /\ stage = "last" /\ pending = {} /\ pass = 3
  /\ BeginReferrers(kept)
  /\ UNCHANGED <<config, selection, pass, pending, loaded, condemned, kept>>

-----------------------------------------------------------------------------
Next ==
  \/ Start
  \/ \E d \in Digest : Follow(d)
  \/ \E m \in Manifest : Consider(m) \/ FollowReferrers(m) \/ ShelterReferrer(m)
  \/ RulesDone \/ ReferrersDone
  \/ LoadTagLocks \/ KeepLastTag \/ LastTagKept

Spec == Init /\ [][Next]_vars

-----------------------------------------------------------------------------
(* Properties *)

TypeOK ==
  /\ GraphTypeOK
  /\ class \in [Manifest -> Class]
  /\ opt \in Option
  /\ selection \subseteq Manifest
  /\ stage \in Stage
  /\ pass \in 1..3
  /\ todo \subseteq Manifest
  /\ pending \subseteq Digest
  /\ queue \subseteq Manifest
  /\ loaded \subseteq Manifest /\ condemned \subseteq Manifest /\ kept \subseteq Manifest

Decided == stage = "decided"
Deleted == Manifest \ kept

\* No kept index loses a manifest it lists, and no kept image a signature: what
\* is kept is closed under dependencies and referrers, however the worklists
\* were ordered. Only an orphaned referrer goes under delete_orphaned.
KeptClosed ==
  Decided => \A m \in kept :
    /\ lists[m] \cap Manifest \subseteq kept
    /\ \A r \in Referrers(m) : r \in kept \/ (opt.deleteOrphaned /\ r \in Orphans)

\* README, "kept whatever the rules say": a manifest in its grace period,
\* running or locked is never deleted - not for being orphaned, not for its
\* subject's deletion. Its tags' locks count as well, although the first
\* decision was made without knowing them.
ProtectedSurvive ==
  Decided => \A m \in Deleted :
    /\ ~ProtectedByAge(m) /\ class[m] # "pinned"
    /\ TagLocked(m) => opt.includeLocked

\* Nothing is deleted whose tag locks were not listed: the second decision
\* never condemns a tagged manifest the first one kept.
DeletedWereChecked ==
  Decided /\ ~opt.protectsLastTag => Deleted \cap tagged \subseteq loaded

\* README: under must_delete_everything a protected manifest keeps the whole
\* repository; so does a locked or running referrer, even a fresh one, while
\* a fresh referrer alone keeps itself, what it lists and its referrers.
MustDeleteEverythingIsAllOrNothing ==
  Decided /\ opt.mustDeleteAll /\ kept # {} =>
    \/ kept = Manifest
    \/ /\ \E r \in kept : IsReferrer(r) /\ ProtectedByAge(r)
       /\ \A m \in Manifest :
            /\ class[m] # "pinned"
            /\ TagLocked(m) => opt.includeLocked
            /\ ProtectedByAge(m) => IsReferrer(m)

\* A set of manifests that everything the decision keeps must be in.
KeepClosed(S) ==
  /\ \A m \in Manifest : m \notin selection \/ Protected(m) \/ (~IsReferrer(m) /\ ShouldKeep(m)) => m \in S
  /\ \A m \in S : (lists[m] \cap Manifest) \cup
                  {r \in Referrers(m) : ~(opt.deleteOrphaned /\ r \in Orphans)} \subseteq S

\* Nothing is kept without a reason: without must_delete_everything and the
\* last tag, what is kept is the least set holding what the rules, the
\* protections and a manual selection keep, closed under dependencies and
\* referrers. In particular unprotected referrers go with their subject.
NothingElseKept ==
  Decided /\ ~opt.mustDeleteAll /\ pass = 2 =>
    \A S \in SUBSET Manifest : KeepClosed(S) => kept \subseteq S

\* A repository whose last tagged manifest the registry refuses to delete keeps
\* a tagged manifest unless it is deleted outright, and the one it keeps is an
\* orphan or a referrer only when every tagged manifest is.
LastTagSurvives ==
  Decided /\ opt.protectsLastTag /\ kept # {} /\ tagged # {} =>
    /\ kept \cap tagged # {}
    /\ pass = 3 => \E m \in kept \cap tagged :
                     \A n \in tagged : LastTagRank(m) <= LastTagRank(n)

\* A manual cleanup deletes nothing outside the closure of what was selected,
\* and nothing that an unselected index lists, directly or in turn: a selected
\* image shared with another index stays.
SelectionIsTheLimit ==
  Decided => \A m \in Manifest \ selection : {m} \cup (lists[m] \cap Manifest) \subseteq kept

\* What is kept is what has to be, and all of it.
KeepsWhatItMust == KeptClosed /\ NothingElseKept

\* What is deleted is neither protected nor unchecked.
DeletesOnlyUnprotected == ProtectedSurvive /\ DeletedWereChecked

=============================================================================
