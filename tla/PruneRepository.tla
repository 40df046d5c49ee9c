--------------------------- MODULE PruneRepository ---------------------------
(***************************************************************************)
(* One live pruneRepository call (internal/pruner/pruner.go) against a     *)
(* registry others write to: the paged listing with the documents fetched  *)
(* behind it (FetchRepositoryManifests), the decision, the recheck         *)
(* (VerifyRepositorySnapshot) and the deletion. Retention has the decision *)
(* in full and DeleteManifests the deletion; here the decision is its      *)
(* result for indexes and children, and the deletion is OrderedDeletion.   *)
(*                                                                         *)
(* A listing is no snapshot. On GHCR its pages are numbered, so a manifest *)
(* deleted during the listing moves another onto a page already read; on   *)
(* ACR a page goes on after the last digest read.                          *)
(***************************************************************************)
EXTENDS Integers, SequencesExt

CONSTANTS
  Manifest,       \* the digests there may be; newer ones are larger
  MayList,        \* the pairs <<index, child>> there may be
  Options,        \* the registries and rules there may be, see below
  PageSize,       \* manifests per page
  MaxWrites       \* bound: what others do during the call

Option == [numbered      : BOOLEAN,   \* pages have numbers (GHCR), or follow a digest (ACR)
           ignoreMissing : BOOLEAN]   \* RepoRule.IgnoreMissingManifests

ASSUME PageSizePositive == PageSize \in Nat \ {0}
ASSUME WritesBound      == MaxWrites \in Nat
ASSUME ManifestNumbers  == Manifest \subseteq Nat \ {0}
ASSUME ManifestFinite   == IsFiniteSet(Manifest)
ASSUME KnownOptions     == Options \subseteq Option

VARIABLES
  opt,
  lists,      \* what each manifest lists
  wanted,     \* what the rules keep, or a protection
  repo,       \* the repository, newest first
  version,    \* changes with a manifest's tags, locks or update time
  writes,     \* what others have done so far
  late,       \* whether they did so since the recheck began
  stage,      \* what the call is doing
  next,       \* the position (numbered) or digest the next page starts after
  snapshot,   \* the version each listed manifest was listed with; 0: not listed
  toFetch,    \* documents still to be fetched
  missing,    \* whether a document was not found
  remaining,  \* the recheck: what has not been listed again yet
  toDelete,   \* what is to be deleted, one by one or with the repository
  removed     \* what the call has deleted

registry == <<opt, lists, wanted, repo, version, writes, late>>
vars == <<registry, stage, next, snapshot, toFetch, missing, remaining, toDelete, removed>>

Stage == {"listing", "deciding", "rechecking", "deleting", "deleted", "skipped", "failed"}

Stored == Range(repo)
Listed == {m \in Manifest : snapshot[m] # 0}

NewestFirst(s) == \A i, j \in DOMAIN s : i < j => s[i] > s[j]

Init ==
  /\ opt \in Options
  /\ lists \in {f \in [Manifest -> SUBSET Manifest] :
                  \A m \in Manifest : {m} \X f[m] \subseteq MayList}
  /\ wanted \in SUBSET Manifest
  /\ \E S \in (SUBSET Manifest) \ {{}} :
       /\ \A m \in S : lists[m] \subseteq S
       /\ repo \in {s \in [1..Cardinality(S) -> S] : NewestFirst(s)}
  /\ version = [m \in Manifest |-> 1]
  /\ writes = 0
  /\ late = FALSE
  /\ stage = "listing"
  /\ next = 0
  /\ snapshot = [m \in Manifest |-> 0]
  /\ toFetch = {} /\ missing = FALSE
  /\ remaining = {} /\ toDelete = {} /\ removed = {}

-----------------------------------------------------------------------------
(* Others: a push needs what it lists to be there; a deletion needs nothing. *)

Push(m) ==
  /\ m \notin Stored /\ lists[m] \subseteq Stored
  /\ repo' = <<m>> \o repo
  /\ UNCHANGED version

Withdraw(m) ==
  /\ m \in Stored
  /\ repo' = RemoveFirst(repo, m)
  /\ UNCHANGED version

\* Retag, lock or unlock, or update.
Touch(m) ==
  /\ m \in Stored
  /\ version' = [version EXCEPT ![m] = @ + 1]
  /\ UNCHANGED repo

Write ==
  /\ writes < MaxWrites
  /\ stage \in {"listing", "deciding", "rechecking", "deleting"}
  /\ \E m \in Manifest : Push(m) \/ Withdraw(m) \/ Touch(m)
  /\ writes' = writes + 1
  /\ late' = (late \/ stage \in {"rechecking", "deleting"})
  /\ UNCHANGED <<opt, lists, wanted, stage, next, snapshot, toFetch, missing, remaining, toDelete, removed>>

-----------------------------------------------------------------------------
(* Listing *)

\* The page starting after next, whether another follows, and where it starts.
Page ==
  IF opt.numbered THEN {repo[i] : i \in (next + 1 .. next + PageSize) \cap DOMAIN repo}
  ELSE {m \in Stored : m > next /\ Cardinality({n \in Stored : next < n /\ n <= m}) <= PageSize}

More ==
  IF opt.numbered THEN Len(repo) > next + PageSize
  ELSE \E m \in Stored \ Page : m > next

After ==
  IF opt.numbered THEN {next + PageSize}
  ELSE {m \in Page \cup {next} : \A n \in Page : n <= m}

\* A manifest listed twice shows that the repository changed. The repository
\* may be gone, which is an error unless missing manifests are ignored.
ListPage ==
  /\ stage = "listing"
  /\ IF repo = <<>>
     THEN stage' = (IF opt.ignoreMissing THEN "skipped" ELSE "failed") /\ UNCHANGED <<next, snapshot, toFetch>>
     ELSE IF Page \cap Listed # {}
     THEN stage' = "skipped" /\ UNCHANGED <<next, snapshot, toFetch>>
     ELSE /\ snapshot' = [m \in Manifest |-> IF m \in Page THEN version[m] ELSE snapshot[m]]
          /\ toFetch' = toFetch \cup Page
          /\ next' \in After
          /\ stage' = IF More THEN "listing" ELSE "deciding"
  /\ UNCHANGED <<registry, missing, remaining, toDelete, removed>>

\* A document is downloaded, or found in the cache whether or not the registry
\* still has it.
Fetch(m) ==
  /\ stage \in {"listing", "deciding"} /\ m \in toFetch
  /\ toFetch' = toFetch \ {m}
  /\ \/ UNCHANGED <<stage, missing>>
     \/ /\ m \notin Stored
        /\ IF opt.ignoreMissing THEN missing' = TRUE /\ UNCHANGED stage
                            ELSE stage' = "failed" /\ UNCHANGED missing
  /\ UNCHANGED <<registry, next, snapshot, remaining, toDelete, removed>>

-----------------------------------------------------------------------------
(* The decision *)

Orphaned == {m \in Listed : ~(lists[m] \subseteq Listed)}

\* What is kept: what the rules keep, and what that lists in turn.
Kept == {m \in Listed :
           \A S \in SUBSET Listed :
             wanted \cap Listed \subseteq S /\ (\A i \in S : lists[i] \cap Listed \subseteq S)
               => m \in S}

Decide ==
  /\ stage = "deciding" /\ toFetch = {}
  /\ toDelete' = Listed \ Kept
  /\ remaining' = Listed
  /\ next' = 0
  /\ stage' = CASE missing -> "skipped"
                [] Orphaned # {} /\ ~opt.ignoreMissing -> "failed"
                [] Listed = {} \/ Kept = Listed -> "deleted"
                [] OTHER -> "rechecking"
  /\ UNCHANGED <<registry, snapshot, toFetch, missing, removed>>

\* The repository is deleted outright when nothing is kept.
Whole == toDelete = Listed

-----------------------------------------------------------------------------
(* VerifyRepositorySnapshot *)

\* Mutant of Unchanged: its tags, locks and update time are not compared.
StillThere(m) == m \in remaining

Unchanged(m) == m \in remaining /\ snapshot[m] = version[m]

\* Mutant of VerifyPage: only the first page is listed again.
VerifyFirstPage ==
  /\ stage = "rechecking"
  /\ IF repo # <<>> /\ \A m \in Page : Unchanged(m)
     THEN /\ remaining' = remaining \ Page
          /\ next' \in After
          /\ stage' = "deleting"
     ELSE stage' = "skipped" /\ UNCHANGED <<remaining, next>>
  /\ UNCHANGED <<registry, snapshot, toFetch, missing, toDelete, removed>>

VerifyPage ==
  /\ stage = "rechecking"
  /\ IF repo # <<>> /\ \A m \in Page : Unchanged(m)
     THEN /\ remaining' = remaining \ Page
          /\ next' \in After
          /\ stage' = IF More THEN "rechecking"
                      ELSE IF remaining' = {} THEN "deleting" ELSE "skipped"
     ELSE stage' = "skipped" /\ UNCHANGED <<remaining, next>>
  /\ UNCHANGED <<registry, snapshot, toFetch, missing, toDelete, removed>>

-----------------------------------------------------------------------------
(* The deletion *)

\* Everything in the repository goes, inspected or not.
DeleteRepository ==
  /\ stage = "deleting" /\ Whole
  /\ repo' = <<>>
  /\ removed' = Stored
  /\ stage' = "deleted"
  /\ UNCHANGED <<opt, lists, wanted, version, writes, late, next, snapshot, toFetch, missing, remaining, toDelete>>

\* DeleteManifests: an index before what it lists. What is gone already counts
\* as deleted.
DeleteManifest(m) ==
  /\ stage = "deleting" /\ ~Whole /\ m \in toDelete \ removed
  /\ {p \in toDelete : m \in lists[p]} \subseteq removed
  /\ repo' = RemoveFirst(repo, m)
  /\ removed' = removed \cup {m}
  /\ stage' = IF removed' = toDelete THEN "deleted" ELSE "deleting"
  /\ UNCHANGED <<opt, lists, wanted, version, writes, late, next, snapshot, toFetch, missing, remaining, toDelete>>

\* A request fails, or the user interrupts the run: nothing more is deleted.
Fail ==
  /\ stage \in {"listing", "deciding", "rechecking", "deleting"}
  /\ stage' = "failed"
  /\ UNCHANGED <<registry, next, snapshot, toFetch, missing, remaining, toDelete, removed>>

Call ==
  \/ ListPage \/ Decide \/ VerifyPage \/ DeleteRepository
  \/ \E m \in Manifest : Fetch(m) \/ DeleteManifest(m)

Next == Call \/ Fail \/ Write

Spec == Init /\ [][Next]_vars

-----------------------------------------------------------------------------
(* Properties *)

TypeOK ==
  /\ opt \in Option
  /\ lists \in [Manifest -> SUBSET Manifest] /\ wanted \subseteq Manifest
  /\ repo \in Seq(Manifest) /\ \A i, j \in DOMAIN repo : repo[i] = repo[j] => i = j
  /\ version \in [Manifest -> Nat \ {0}] /\ snapshot \in [Manifest -> Nat]
  /\ writes \in 0..MaxWrites /\ late \in BOOLEAN
  /\ stage \in Stage /\ next \in Nat
  /\ toFetch \subseteq Manifest /\ missing \in BOOLEAN
  /\ remaining \subseteq Manifest /\ toDelete \subseteq Manifest /\ removed \subseteq Manifest

\* delete.go, VerifyRepositorySnapshot: as long as others leave the repository
\* alone from the recheck on, nothing is deleted that was pushed, retagged,
\* locked or updated since it was inspected - whatever they did before, and
\* whatever a listing with numbered pages hid.
DeletesOnlyWhatWasInspected ==
  [][~late' => \A m \in Stored \cap removed' : m \in toDelete /\ snapshot[m] = version[m]]_vars

\* On the same condition no index is left in the repository without a manifest
\* the call deleted: not an index a listing missed, whose images looked
\* unreferenced, nor one pushed during the inspection.
LeavesNoBrokenIndex ==
  ~late => \A p \in Stored : lists[p] \cap removed = {}

\* On the same condition nothing the rules or a protection keep is deleted,
\* not even with a whole repository.
WantedSurvive ==
  ~late => removed \cap wanted = {}

\* What others pushed meanwhile neither breaks nor is broken by what is deleted.
OthersAreUnharmed == LeavesNoBrokenIndex /\ WantedSurvive

=============================================================================
