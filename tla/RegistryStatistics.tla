------------------------- MODULE RegistryStatistics -------------------------
(***************************************************************************)
(* CollectRegistryStats of internal/pruner/stats.go: one repository after  *)
(* the other is inspected, its manifests counted in the order of a map,    *)
(* and its blobs charged to the first repository holding them. The rules   *)
(* that say which images are running are generated from an image list.     *)
(*                                                                         *)
(* Repositories are numbered in alphabetical order, the order of the scan. *)
(* A digest has one size (FetchRepositoryManifests refuses a repository    *)
(* with another), and sums are small.                                      *)
(***************************************************************************)
EXTENDS RuleSets

CONSTANTS
  Manifests,  \* the manifests a repository may hold, each its own digest
  Parts,      \* the blobs of a manifest beside itself, in order
  Size,       \* the size of a manifest or blob
  TagSets,    \* the sets of tags a manifest may have
  Lists       \* the image lists

VARIABLES
  list,     \* the image list
  present,  \* what the repositories hold
  gaps,     \* what they list, but cannot serve
  tags,     \* the tags of a manifest
  step,     \* "list", "next", "count", "done" or "failed"
  reached,       \* how many repositories were begun
  rules,    \* the running rules
  todo,     \* the manifests of the current repository still to count
  seen,     \* the blobs charged so far
  stats,    \* the statistics, a sequence
  denied,   \* repositories the caller may not read
  skipped,  \* repositories that cannot be scanned reliably
  result    \* what is returned: statistics and whether there is an error

registry == <<list, present, gaps, tags>>
svars    == <<registry, step, reached, rules, todo, seen, stats, denied, skipped, result>>

NoResult == [stats |-> <<>>, err |-> FALSE]

Blobs(m) == <<m>> \o Parts[m]

\* A sum of sizes, as the number of all the bytes: of distinct blobs, and of
\* blobs that may repeat.
SumOf(S) == Cardinality(UNION {{d} \X (1..Size[d]) : d \in S})

SumAll(s) == Cardinality(UNION {{i} \X (1..Size[s[i]]) : i \in DOMAIN s})

-----------------------------------------------------------------------------
Init ==
  /\ list \in Lists
  /\ present \in [Name -> SUBSET Manifests]
  /\ gaps \in {g \in [Name -> SUBSET Manifests] : \A r \in Name : g[r] \cap present[r] = {}}
  /\ tags \in [Manifests -> TagSets]
  /\ step = "list" /\ reached = 0
  /\ rules = <<>> /\ todo = {} /\ seen = {} /\ stats = <<>>
  /\ denied = {} /\ skipped = {}
  /\ result = NoResult

\* The image list is read before the registry is; listing the repositories may
\* fail.
Begin ==
  /\ step = "list"
  /\ \/ /\ ~Unreadable(list)
        /\ step' = "next"
        /\ rules' = CompileAll(KeepRulesFromImageList(list))
        /\ UNCHANGED result
     \/ /\ step' = "failed"
        /\ result' = [stats |-> <<>>, err |-> TRUE]
        /\ UNCHANGED rules
  /\ UNCHANGED <<registry, reached, todo, seen, stats, denied, skipped>>

\* partial: what was collected so far is returned with an error.
Partial ==
  /\ step' = "failed"
  /\ result' = [stats |-> stats, err |-> TRUE]

\* FetchRepositoryManifests of the next repository: its manifests, nothing at
\* all, no permission, not reliably, or a failure; or the scan is interrupted.
Inspect ==
  /\ step = "next" /\ reached < Cardinality(Name)
  /\ \/ /\ reached' = reached + 1
        /\ \/ /\ step' = "count" /\ todo' = present[reached + 1]
              /\ stats' = Append(stats, [repository |-> reached + 1, count |-> Cardinality(gaps[reached + 1]),
                                         unique |-> 0, total |-> 0, running |-> 0])
              /\ UNCHANGED <<denied, skipped>>
           \/ UNCHANGED <<step, todo, stats, denied, skipped>>
           \/ denied' = denied \cup {reached + 1} /\ UNCHANGED <<step, todo, stats, skipped>>
           \/ skipped' = skipped \cup {reached + 1} /\ UNCHANGED <<step, todo, stats, denied>>
        /\ UNCHANGED result
     \/ Partial /\ UNCHANGED <<reached, todo, stats, denied, skipped>>
  /\ UNCHANGED <<registry, rules, seen>>

\* Mutant of Charge: each repository on its own, as calculateStats.
ChargeAlone(d) == LET before == UNION {Range(Blobs(m)) : m \in present[reached] \ todo} IN d \notin before

\* A blob is charged the first time it is seen.
Charge(d) == d \notin seen

\* calculateStatsSeen, for one manifest: its blobs one by one.
Count(m) ==
  /\ step = "count" /\ m \in todo
  /\ todo' = todo \ {m}
  /\ stats' = [stats EXCEPT
       ![Len(stats)].count = @ + 1,
       ![Len(stats)].total = @ + SumAll(Blobs(m)),
       ![Len(stats)].unique = @ + SumOf({d \in Range(Blobs(m)) : Charge(d)})]
  /\ seen' = seen \cup Range(Blobs(m))
  /\ UNCHANGED <<registry, step, reached, rules, denied, skipped, result>>

\* countRunning, and its counterpart for the manifests that cannot be served,
\* under the rule the matcher finds for the repository.
RunningIn(r) ==
  LET i == MatchingRule(rules, r)
      narrowed == IF i = 0 THEN <<>> ELSE <<rules[i]>>
  IN {m \in present[r] \cup gaps[r] : RunningMatch(narrowed, r, m, tags[m])}

\* A repository is done; writing the snapshot may fail, which ends the scan
\* without a result.
Counted ==
  /\ step = "count" /\ todo = {}
  /\ LET s == [stats EXCEPT ![Len(stats)].running = Cardinality(RunningIn(reached))]
     IN \/ step' = "next" /\ stats' = s /\ UNCHANGED result
        \/ step' = "failed" /\ stats' = s /\ result' = [stats |-> <<>>, err |-> TRUE]
  /\ UNCHANGED <<registry, reached, rules, todo, seen, denied, skipped>>

\* What was denied or skipped, and an interruption, are the error returned with
\* the statistics.
Finish ==
  /\ step = "next" /\ reached = Cardinality(Name)
  /\ \/ Partial
     \/ /\ denied \cup skipped = {}
        /\ step' = "done" /\ result' = [stats |-> stats, err |-> FALSE]
  /\ UNCHANGED <<registry, reached, rules, todo, seen, stats, denied, skipped>>

Next ==
  \/ Begin \/ Inspect \/ Counted \/ Finish
  \/ \E m \in Manifests : Count(m)

Spec == Init /\ [][Next]_svars

-----------------------------------------------------------------------------
(* Properties *)

Done(i) == i < Len(stats) \/ step # "count"

BlobsOf(i) == UNION {Range(Blobs(m)) : m \in present[stats[i].repository]}

\* "Unique counts each blob once across the whole registry scan, charged to the
\* first repository in alphabetical order that references it": whatever order
\* the manifests come in and whichever repositories were skipped, a scanned
\* repository is charged exactly its blobs no scanned one before it has.
ChargedToTheFirst ==
  \A i \in DOMAIN stats : Done(i) =>
    /\ stats[i].unique = SumOf(BlobsOf(i) \ UNION {BlobsOf(j) : j \in 1..(i - 1)})
    /\ stats[i].unique <= stats[i].total

\* An image list names a manifest by its digest or one of its tags.
Listed(r, m) ==
  \E i \in DOMAIN list :
    /\ list[i].kind = "ours" /\ list[i].repo = r
    /\ m \in list[i].digest \/ TagsOf(list[i]) \cap tags[m] # {}

\* Exactly the images on the list are running, in whatever order and however
\* often it names them and their repositories, served or not: the rules
\* generated from the list keep these and no other.
RunningIsListed ==
  step # "list" /\ ~Unreadable(list) /\ rules # <<>> =>
    /\ \A r \in Name : RunningIn(r) = {m \in present[r] \cup gaps[r] : Listed(r, m)}
    /\ \A i \in DOMAIN stats : i < Len(stats) \/ step = "next" =>
         LET r == stats[i].repository
         IN stats[i].running = Cardinality({m \in present[r] \cup gaps[r] : Listed(r, m)})
=============================================================================
