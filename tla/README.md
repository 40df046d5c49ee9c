# crprune, specified and checked

crprune deletes images from container registries (Azure Container Registry,
GitHub Container Registry) by rules. A wrong deletion cannot be undone, so the
questions asked here are: what is deleted, in which order, what happens when a
request fails or the user interrupts the run, and what happens when others write
to the registry at the same time. This directory holds TLA+ modules translated
from the source in `src/`, TLC instances of them, and theorems checked by TLAPS.

* [The system](#the-system)
* [Modules](#modules)
* [Runs](#runs)
* [Fairness](#fairness)
* [Proofs](#proofs)
* [Where code and documentation differ](#where-code-and-documentation-differ)
* [Abstractions](#abstractions)
* [Not modelled](#not-modelled)

## The system

| component | source (`src/internal/...`) | state | operations | module |
|---|---|---|---|---|
| Ordered deletion | `registry/delete.go`, `registry/lock.go` | batches, per-manifest outcome, unlocked locks | `DeleteManifests`, `deleteManifest`, `deletionBatches` | DeleteManifests, OrderedDeletion |
| Repository deletion | `registry/delete.go`, `registry/lock.go` | relocks to run on failure | `DeleteRepository`, `unlockAll`, `relock` | DeleteRepository |
| Locks | `registry/lock.go`, `registry/acr/acr.go` | attributes of manifests and tags | `unlock`, `Relock`, `UnlockManifest`, `UnlockTag` | Locks |
| Orphan marking | `pruner/orphan.go` | flags, owner counts, queue | `markOrphans`, `reportOrphans` | OrphanMarking |
| Retention decision | `pruner/pruner.go`, `pruner/selection.go` | kept set, worklists | `decide`, `keepWithDependencies`, `keepReferrers`, `keepLastTag`, `expandSelection` | Retention |
| Rule evaluation | `pruner/eval.go`, `rules/matcher.go`, `rules/literal.go` | index of literal names, rankings | `MatchingRule`, `newEvaluator`, `keep` | RuleSets, RuleEvaluation |
| Rule files | `rules/*.go` | - | `Compile`, `Warnings`, `KeepRulesFromImageList` | RuleSets |
| Statistics | `pruner/stats.go`, `pruner/report.go` | counts, blobs seen | `CollectRegistryStats`, `runningMatch` | RegistryStatistics |
| One repository | `pruner/pruner.go`, `registry/fetch.go`, `registry/delete.go` | the snapshot and what the recheck has not seen again | `pruneRepository`, `FetchRepositoryManifests`, `VerifyRepositorySnapshot` | PruneRepository |
| Prune run | `pruner/pruner.go` | statistics, joined errors | `Prune`, `isDenied` | PruneRun |
| Reviewed plans | `pruner/plan.go` | what was reviewed, whether it was executed | `Prepare`, `Execute` | ReviewedPlan |
| Manifest download | `registry/fetch.go`, `registry/cache.go` | manifests by digest, missing documents | `FetchRepositoryManifests`, `fetchDocument` | FetchManifests, CacheFile |
| ACR backend | `registry/acr/*.go` | gates of first requests, retry policy | `Backend` | AcrRequests, Locks |
| GHCR backend | `registry/ghcr/*.go` | shared rate limit, token cache | `throttle`, `tokenCache` | GhcrThrottle, GhcrTokens |
| Files | `fileio/atomic.go` | temporary and final file | `WriteFile` | CacheFile |
| Explorer | `explore/*.go`, `cmd/crprune/explore.go` | screen, marks, plan, the one job | `app.run`, `key`, `start`, `finish` | ExplorerApp |
| Signals, command line | `cmd/crprune/signal.go`, `main.go` | the handler, cause, exit status | `handle`, `run`, `exitCode` | CommandRun |
| Progress display | `progress/*.go`, `tui/*.go` | the display, its retained warnings, who owns the terminal | `Run`, `runScreen`, `RestoreTerminal` | CommandRun |

How they interact. `Prune` takes the repositories one at a time. For each,
`pruneRepository` fetches the listing (a producer paging through the registry,
and a bounded group downloading documents behind it), marks orphans, decides,
loads the tag locks of what the first decision condemned and decides again,
rechecks that the registry still shows the snapshot, and deletes either the
manifests or the whole repository. Everything below `Prune` works on one context
that the first SIGINT cancels; only restoring locks has a context that survives
it. The explorer runs the same calls as jobs beside its event loop, one at a time,
and executes only a plan the user has seen.

What is hard: 1. the graph: indexes share children, referrers refer to referrers,
and subjects named by a tag (`sha256-....sig`) can form cycles; 2. requests that
fail after taking effect; 3. an interruption between the unlock and the deletion;
4. goroutines of one batch still running when the next looks at their outcome;
5. a listing that is no snapshot; 6. a decision made before the tag locks are known;
7. throttles, token exchanges and gates shared by all requests; 8. a result that
arrives as its job is cancelled; 9. signals that arrive while the terminal changes
hands. `PROJECT.json` lists every such hazard at the line where it bites, with the
properties that cover it.

## Modules

    Locks ------- DeleteManifests --- Deletion - Deletion_proofs
        \              : implements     /
         \         OrderedDeletion     /
          ------- DeleteRepository ----
    ManifestGraph - OrphanMarking ----------
        \              : computes Orphans   \
         ---------- Retention ------------- Decision - Retention_proofs
                       : class "kept" from
    RuleSets ----- RuleEvaluation ----------- RuleUse - RuleEvaluation_proofs
         \-------- RegistryStatistics ------/
    PruneRepository ------------------------- PruneRepository_proofs
         (the decision and the deletion by their results)
    PruneRun ----- ReviewedPlan ------------- ReviewedPlan_proofs
         (pruneRepository by its outcomes)
    ExplorerApp ----------------------------- ExplorerApp_proofs
    CommandRun ------------------------------ CommandRun_proofs
    FetchManifests,  CacheFile - Files ----\
                                            -- Downloads_proofs
    GhcrThrottle,  GhcrTokens,             /
    AcrRequests ------------ Requests -----

Deletion, Decision, RuleUse, Files and Requests join components whose promises are
told together: how something is deleted, how a repository is decided, what rules are
used for, what fills the snapshot, what every request goes through. The
modules named MC... are instances for TLC; where they join two or three components
a behaviour is one of them, because the components share no state.

**Locks** - what one `UnlockManifest`, `UnlockTag` or `Relock` does to the
registry (`locked`) and to the run's record (`todo`, `sent`, `relocks`, `warned`).
A request is two steps, so an interruption (`Cancel`) or another goroutine falls
in between, and a failed one leaves the lock in either state. `RestoreOne` is one
restore of `relock`.

**DeleteManifests** - the loop of `DeleteManifests` and the goroutines it starts.
`PlanBatch` is one round of `deletionBatches` (`pending` counts unplaced parents,
`ready` is the next batch), `PlanDone` its cycle check. `Skip` and `Start` are the
two branches of the loop over a batch, `EndBatch` is `group.Wait` and the context
check, `UnlockStep`/`Abandon`/`SendDelete`/`Confirmed`/`Refused`/`RelockStep`/`Fail`
are `deleteManifest`. `task[m]` is how far the goroutine of `m` is, `failures` the
manifests whose error the call returns; `NotDeleted` is the map `notDeleted`.

**OrderedDeletion** - what a caller may rely on: a manifest disappears after what
must go before it; what is returned as deleted is gone; no error means everything
was deleted. DeleteManifests implements it with `before <- Parents` and the
outcome read off `phase`, `failures` and `cancelled`.

**DeleteRepository** - `unlockAll` (one goroutine per locked manifest), the one
request, and `relock` on failure.

**ManifestGraph** - lists, subjects and tags of a repository, any graph within
`MayList`, `MaySubject` and `MayTag`; `Orphans` defines, as a least fixed point,
what the doc comment of `markOrphans` says an orphan is.

**OrphanMarking** - `markOrphans`: `Scan` is a round of the loop over the map,
`Propagate` of the loop over the queue, both in any order.

**Retention** - everything between the fetched listing and the deletion: `Start`
(reportOrphans, and `expandSelection` for a manual cleanup), `Consider` and
`Follow` (`decide`, `keepWithDependencies`), `FollowReferrers` and
`ShelterReferrer` (`keepReferrers`), `LoadTagLocks` between the two passes and
`KeepLastTag` after them. Each manifest has a class: what the rules say of it and
what protects it (age, a lock, a running container, a lock of a tag that only
LoadTagLocks finds). `opt` holds the rule's and the registry's options. A registry
that protects the last tag (GHCR) has no tag locks, as in the code.

**RuleSets** - rule files as `Compile` leaves them (`CompileRepoRule`, with what it
refuses), `MatchingRule` with its index of literal names, the shadowing analysis of
`Warnings` (`Shadows`, `Warned`), and `KeepRulesFromImageList` with `runningMatch`, which reads
its rules back. A pattern is the set of names it matches and how it is spelled, as
that is what the code looks at to tell a literal or a catch-all.

**RuleEvaluation** - `ReadFile`, `FindRule`, `Evaluate`: the sorted lists and the
positions of `newEvaluator` (`Ordered`, `Rank`), the comparison with `newest` in
integers that end at `MaxInt` (`WithinNewest`), `matchesCriteria` and
`matchesPlatform`, and `keep` over tagged and untagged lists. `FileOf` and
`ListingOf` say what parsing and listing can produce, and nothing more is asked of
the inputs: compiling refuses what it refuses.

**RegistryStatistics** - `CollectRegistryStats`: `Begin` compiles the image list's
rules, `Inspect` takes the next repository (denied, skipped, failing, or read),
`Count` one manifest of it in the map's order with `Charge` for its blobs, `Finish`
and `Partial` what is returned, also when the scan stops halfway. A sum of sizes is
the number of all the bytes (`SumOf`, `SumAll`). RuleUse has it beside
RuleEvaluation, over the same definitions of RuleSets.

**PruneRepository** - one live `pruneRepository` against a registry others write
to. `ListPage`, `Fetch`, `Decide`, `VerifyPage`, `DeleteManifest`,
`DeleteRepository` and `Fail`, and `Push`/`Withdraw`/`Touch` for the others. Numbered
pages (GHCR) start at a position, so they shift; the others (ACR) follow a digest.
`version` changes with a manifest's tags, locks or update time, which is all
`VerifyRepositorySnapshot` compares.

**PruneRun** - the loop of `Prune`. `Start` takes the next candidate; while its
`pruneRepository` runs the user may interrupt; `Preview`, `Delete` and
`DeleteFailing` are its outcomes with a set of manifests condemned, `Conclude` and
`IsDenied` what `Prune` makes of an error, possibly several joined; `Return` the
joined result. `total` is `PruneStats`, as counts of manifests and repositories.

**ReviewedPlan** - `Prepare` is a PruneRun in preview mode. `Begin` claims the plan
(its mutex and `used`), `Verify` is the first round of snapshot checks, `Recheck`
and `Remove` the loop over the affected repositories. `Write` is anybody else;
`version` and `inspected` tell whether a repository is as it was reviewed.

**ExplorerApp** - `app.run`: `Keys` has an action for each key that changes what is
marked, shown, previewed, confirmed or under way, in the panel it works in; `job` is
the goroutine beside the loop (`Connect`, `Return`), and `FinishJob`, with its one
disjunct per kind of job and way to end, what `finish` makes of its result.
`CancelJob` is Esc, `Interrupt` a signal, `Close` the end. Rows are filtered, sorted
and scrolled between keys, so a key finds any rows visible and any under the cursor.

**CommandRun** - a process from `run` to its exit status, in three interleaved parts.
`Main` is `progress.Run` and `runScreen` (`Begin`, which fails where no display can
start, to `Exit`; `Break` is a panic of `draw`), `Work` the goroutine
under the display (`Register`, `Warn`, `Finish`, `Unregister`), `Handler` the signal
goroutine (`TakeFirst`, `Look`, `Report`, `Cancel`, `TakeSecond`, `Restore`,
`ForceExit`). `buffered` is the channel of signals, which holds one; `terminal` and
`mutex` are the registration of owned screens in `tui`; `tracker` keeps the last
warnings and counts the rest. What cuts the display short is kept apart by who did
it: `cause` for a signal, `key` for a key, `fault` for a terminal lost or a panic. Where the code has a window it stays open here: the
first signal may find the display gone between looking for it and logging
(`said = "across"`) or its summary printed (`"late"`), and the screen may be registered after `RestoreTerminal`.

**FetchManifests** - `FetchRepositoryManifests`: the lister (`List`, then waiting for
a place in the group) and a goroutine for each digest (`Download`). `cancelled` is
`groupCtx`, `user` the caller's context; the listing and the downloads each keep
the first error they met.

**CacheFile** - `write` of fileio, call by call, by several writers of one path;
`Get` and `Put` of the cache around a download. A file holds none, part or all of
what was written, and how much of that is flushed decides what a crash leaves.

**GhcrThrottle** - `send`: `Start`, `Pause` (waiting for the shared pause within the
call's budget), `Send`, and what an answer brings (`Passed`, `Limited`,
`FailTransiently`, `FailForGood`). `pause`, `early` and `streak` are the throttle: what
is left until `until`, the calls whose request was sent before `hit`, and `streak`.
Times are kept relative to now.

**GhcrTokens** - `registryGet`, the token cache and the shared exchange. `flight` is
the function `DoChan` runs, step by step, from the look into the cache to the
landing; `joined` who waits for it; the flight runs on its starter's context.

**AcrRequests** - the gates of `client.go` (`Pass`, `Return`) around the retry loop of
`retryPolicy` (`Retry`, `Backoff`, in the machine's width).

## Runs

| run | question | properties |
|---|---|---|
| `deletion` | Over all graphs of three manifests, cycles included, and with locks over those of two: does a dependency outlive its parents, does a failure keep exactly what depends on it, is every lock restored or reported; and the same locks for the one request that deletes a repository. Failures, lost responses, one interruption at any point | `DependenciesOutliveParents`, `FailuresAreContained`, `LocksAreSafe`, `RepositoryLocksAreSafe`, `ImplementsOrderedDeletion`, `DeletionEnds` |
| `orphans` | Four manifests, indexes in indexes, shared and tagged children, subjects missing, chained and cyclic: the flags are the least fixed point in every order of map and queue, and the queue empties | `FlagsAreTheOrphans`, `Terminates` |
| `retain` | Four kinds of repository and rule (see MCRetention): is what is kept the least closed set, is nothing protected deleted although tag locks come late, is `must_delete_everything` all or nothing, does the last tag survive, does a manual cleanup stay within its selection | `KeepsWhatItMust`, `DeletesOnlyUnprotected`, `MustDeleteEverythingIsAllOrNothing`, `LastTagSurvives`, `SelectionIsTheLimit` |
| `races` | Three foreign writes at any point of a prune, with either kind of page: no broken index, nothing wanted deleted, nothing deleted that was not inspected as it is | `OthersAreUnharmed`, `DeletesOnlyWhatWasInspected` |
| `prune_plan` | Three repositories, live, dry and in preview: does any failure but a denial stop the run, even joined with denials; do the counts agree with what was deleted. Then two confirmations of a plan while others write: one change before it begins stops everything, a later one its repository, what is reported is gone | `ExecutesOnceOrNever`, `ReportsAreTrue`, `HardFailureEndsTheRun`, `DeletesOnlyWhatWasReviewed` |
| `rules` | Rule files compiled, searched, warned about and evaluated: is the index of literals exact, does what is warned of never apply, does `newest` select exactly so many for every integer, does a tag the rules keep keep its image. And two repositories' statistics: is each blob charged once, is exactly what the image list names running | `OnlyTheFirstRuleApplies`, `NewestSelects`, `NoTagIsLost`, `ChargedToTheFirst`, `RunningIsListed` |
| `files` | Is every listed manifest in the result, does a failure come out as itself and not as the cancellation it caused, is a repository taken for gone only when it is. And two writers of one path with kills and crashes: a flushed file is whole, a torn cache file is never served | `ContentsAreComplete`, `EndsAsItDid`, `NothingIsTorn` |
| `requests` | Two requests that share GHCR's throttle: nobody sends during a named pause, unnamed ones double, and a limit that lifts in time fails nobody; that share its tokens: at most one valid one is asked for; or an ACR gate: one request obtains the token and nobody is left behind a gate none will open, waits double or are at their maximum, in a `time.Duration`'s width | `LimitsAreRiddenOut`, `TokensAreShared`, `PausedForAll`, `BacksOff` |
| `explorer` | Opened on a file, on a registry, or on both, every key in every panel, a job that succeeds, fails or panics, Esc and a signal racing its result: is what is confirmed what is shown, is the snapshot marked as stale after a deletion, does a cancelled read keep everything, does the terminal close when all is done | `ConfirmsWhatIsShown`, `StaleUntilRescanned`, `ClosesWhenAllIsDone`, `CanceledReadsKeepAll`, `CancellingEnds` |
| `signals` | Up to three signals at any point of a run, plain or displayed, work that warns, fails, panics or hangs, a display that cannot begin, loses its terminal or panics: is the work waited for, is the terminal handed back with the reason said, do summary and status tell what happened, does a second signal end the run | `WorkIsWaitedFor`, `TerminalTellsTheEnd`, `OutcomeIsTold`, `SignalsEndTheRun` |
| `forced_exit` | Does a second signal always restore the terminal, as documented? It does not (see below) | `ForcedExitRestores` |
| `platform_images` | Does a platform image a ranked rule would match stand and fall with its indexes, as documented? It does not (see below) | `PlatformImagesFollow` |

Every property of a passing run is one that a mutant of the code breaks (`mutants`
in `PROJECT.json`); the mutants are the definitions next to the ones they replace.
The modules' `TypeOK` say what the variables hold, and are proved for every
component a theorem is about.

**Bounds.** Three manifests are a chain, a fork, a join, or a cycle with a
bystander; every dependency the code follows is over an edge or a pair of edges,
and the proofs of DeleteManifests, OrphanMarking, Retention, RuleEvaluation,
RegistryStatistics and PruneRepository say the same for any number. `orphans` needs the fourth for a child with two owners of
which one is in turn listed. Manifests are numbered in the order they were built: an
index contains the digests it lists, so it lists only earlier ones, while a tag can
name any subject. A pool of two has both concurrency and a limit that is reached.
In `races` `MaxWrites` is three: one write to make an inspection stale, one to hide
it again, one more after that; `PageSize` is one, so a page boundary is everywhere.
In `prune_plan` three repositories are one before and one after the one that fails,
and one write is what a plan is checked against.
`rules` has a set of inputs for each part: three repository patterns in a file, two
entries in a list (one that shadows or precedes the other), three images, and
`MaxInt` 3, where `-newest` overflows at -4; the statistics need two repositories,
and a layer both of whose manifests hold. In FetchManifests a fourth listing
(`MaxListed`) repeats a digest. The throttle's waits are in units of the shortest:
`MaxThrottle` 7 is 1 + 2 + 4, three doublings, and a limit lasting `Persist` 3 lifts
within the last; named waits (`Guidance`) are within and beyond the budget; one
limit (`MaxLimits`) is run, and the proofs but that of `RidesOut` cover any number. The
three numbers are just such that the limit `LiftsEarly` (for n = 1), which `MCRequests`
assumes and TLC evaluates. `MaxRevoked` and
`MaxFailed` let a token expire twice and one exchange fail, which is a renewal of a
renewal. AcrRequests counts in 4 bits (`Width`) with a maximum of 11, so that
doubling beyond it would overflow. A third temporary file (`MaxFiles`) and a second
crash (`MaxCrashes`) let a writer be killed and come back. In `explorer` two
repositories, one digest and two rule files let a request outlive the rows, the
repository and the rules it was made for; one confirmed deletion (`MaxExecutions`)
is followed by every read. In `signals` one warning is retained (`WarningLimit`) of
two, and three signals are one more than the handler reads. Deadlock is not checked
where the modelled call or process ends, since nothing follows, nor in CacheFile,
whose files are bounded.

## Fairness

`deletion` and `orphans`: weak fairness of the sequential loop and of each
goroutine; the Go scheduler runs both, and every request ends because the HTTP
clients have timeouts and retries are bounded. Nothing is assumed of the user
(`Interrupt`) or of any request's success. `explorer`: a goroutine whose context is
cancelled returns, the loop takes what it sends and notices a signal; a job nobody
cancels may last for ever, and no key is ever assumed to be pressed. `signals`:
weak fairness of the main goroutine and of the registration of the display; strong
fairness of the handler, which competes for a mutex (Go's is starvation-free) with
drawing, and of the choice of the finished work in a `select` that ticks and keys
keep ready (`select` chooses uniformly). Nothing is assumed of the work: it may hang,
and a second signal still ends the process.

## Proofs

`tlapm M_proofs.tla` checks each of the eight modules from the named assumptions of
the modules it extends: sets are finite where they are counted, bounds are naturals,
the pool's limit and the page size positive, `None` and missing digests are no
manifests, what a graph may have is within the manifests, the retry policy fits its
integers; a rule file is what parsing leaves of one, and no listing is longer than
the greatest integer; a line of an image list has at most one tag and one digest,
and sizes are naturals. The graph, the locks, the
pages, the order of maps, the moment of every failure, signal, key and foreign write
are arbitrary. Each module has an inductive invariant `IInv`, made of the parts
named here; a step of the proof is an action, under it a part that the action can
disturb. Each also proves its type invariant.

**DeleteManifests.** All safety properties, the cycle check and the refinement of
OrderedDeletion. None of the properties is inductive: that a dependency outlives its
parents needs the batches to be right and the pool to have drained. The
strengthening is
* `PlanInv`: `pending` counts the parents not in a batch, `ready` is what has none,
  and a placed manifest's parents are in earlier batches;
* `ExecInv`: what a goroutine may be doing given the batch; a manifest that got
  past `Blocked` has only deleted parents;
* `LockInv`: a missing lock is in `relocks` or `warned`, and its manifest has begun;
* `FailureInv`: a blocked manifest is blocked by something; without an
  interruption, what failed is in `failures`.

`CyclesAreRefused` and `OnlyFailuresKeep` need an argument beyond the invariant:
among finitely many manifests the one in the earliest batch waits for none
(`LeastNumber`, from the well-foundedness of `<` on the naturals), so a placed set
has no cycle, and a set of manifests that were not deleted contains one that failed
by itself. The refinement maps `PlanBatch`, `Skip`, `UnlockStep` and so on to
stutters, `Confirmed` and an effective `Refused` to `Remove`, and the end of the
planning or of the last batch to `Return`.

**DeleteRepository.** `RepositoryLocksAreSafe`, an invariant and an action property
in one: a lock found missing is in `relocks` or `warned`, and a request to unlock is
under way only before `unlockAll` returns.

**OrphanMarking.** The flags are always within every set closed under the rule
(`FlagsAreOrphans`), and closed themselves at the end (`OrphansAreFlagged`), hence
the least fixed point ManifestGraph calls `Orphans` (`FlagsAreLeast`), which
Retention uses in its place; Decision puts the two side by side over one graph. `ScanInv` says `owners`, `parents` and `hasOwner`
describe the scanned manifests; `QueueInv` says `brokenOwners` counts the owners
taken off the queue, and that what they orphan has been flagged.

**Retention.** All five properties. `GrowInv` says how far the closure has got at
each stage of the two worklists: what is done has its dependencies in what is kept
or about to be; `ReasonInv` that everything reached is in every closed set holding
what must be kept, so that nothing is kept for no reason; `CheckInv` that the second
pass condemns nothing the first kept, which is why listing the tag locks of the
first pass's victims suffices; `LastInv`, `AllInv` and `LockInv` what the last tag,
`must_delete_everything` and late tag locks change of this.

**RuleEvaluation.** `OnlyTheFirstRuleApplies`, `NewestSelects` and `NoTagIsLost`, and what
platform images follow (`FollowsByEachTag`), for any rule file, any listing and any width of the integers. The run of the module has
four steps, so the invariant (`StageInv`) only says at each stage that the variables
are what the inputs determine; the arguments are about the operators. Which rule
applies is a question of least elements (`Leasts`): the first literal rule of a name,
the least pattern before it, are together the first match (`IndexIsExact`), and the
rule said to shadow another is at a lesser position and matches whatever it could
(`ShadowsMatch`). For `newest`, a listing can be sorted, because the numbers of
manifests before each take every value once (`Positions`, `SortedOnce`), so that the
position of a manifest is the number of those the rule matches that were updated
later or come first by name (`RankIsPosition`). It is less
than the length of the listing, hence its negation does not overflow (`Negated`).
`WindowIsFull` counts: if some image outside the window exists, the positions
0 to N-1 are all taken (`NewestAreMany`), by as many images, each of which the first
rule keeps.

**RegistryStatistics.** `ChargedToTheFirst` and `RunningIsListed`, for any registry,
any order of its manifests and any image list. `ChargeInv`: the blobs seen are those
of the manifests counted so far (`Held`), and each repository is charged those it
holds that no one before it does; only the last one begun still grows, so nothing
charged before changes. Sums are cardinalities, and adding one is a union of sets of
bytes that are disjoint (`SumsAdd`) or may repeat (`SumsRepeat`). `RunningInv` says
that the rules are the list's and a counted repository has the number they give. That
they are right is an argument about the operators: after any number of lines every
repository named has one place among what is kept, with all its lines name
(`KeepsInv`, `LineTaken`; `KeepsFollow` and `ListKeeps` are inductions over the lines
by hand, by the least number for which they would fail); the rule made of a place
keeps exactly that, because only its last entries delete (`GeneratedRule`,
`LastDeletes`); and with one literal rule for each repository the matcher finds it
(`ListedRuns`).

**PruneRepository.** `OthersAreUnharmed` and `DeletesOnlyWhatWasInspected` for any
number of manifests and foreign writes and any page size. `RecheckInv`: as long as
nobody has written since the recheck began, what the pages listed again hold
(`Seen`: a prefix of the repository, or what is not beyond a digest) is as it was
inspected, and what was listed is seen or `remaining`. `DeletionInv`: hence the
repository is what was listed but for what was deleted, and nothing left lists
anything deleted. `PagesCover` shows the paging right: a page adds to `Seen` exactly
what it holds, and after the last one that is the repository. Nothing is needed of
the first listing, whose pages may miss and repeat what they like.

**ReviewedPlan.** `HardFailureEndsTheRun` (of the run that prepares the plan as well
as of a live one), `DeletesOnlyWhatWasReviewed`, `ExecutesOnceOrNever` and
`ReportsAreTrue`. `OnceInv`: whoever executes claimed the plan, and there is one of
them; `FreshInv`: a caller past the first round found no repository changed, and one
about to delete has just found its repository as reviewed. Two more parts, kept
beside `IInv` because they rest on it: `CountInv` relates each counter to the
repositories gone through so far, and only "so far nothing failed" (`Untroubled`)
makes the counts those of the registry; `ReportInv` says that at any moment of an
execution what its caller will return and what the registry lost are the same set,
the part of the plan before its turn.

**CommandRun.** `WorkIsWaitedFor`, `TerminalTellsTheEnd`, `OutcomeIsTold`.
`StageInv` ties the main goroutine's stage to the work's and to the owner of the
terminal, `SignalInv` the cause to what has been said, `LogInv` says the tracker
accounts for every warning and the announcement, each once, `EndInv` that
the status is that of the outcome.

**ExplorerApp.** All four safety properties. `ScreenInv`: a plan, a request waiting
for rules and a job exclude one another; `ExtentInv`: whatever waits, is reviewed or
runs was selected from the rows now loaded, because what replaces rows drops it;
`UnlockInv`: the connection of the preview set the flag a deletion is announced
with; `HistoryInv`: every deletion begun is logged, has panicked or is under way.

**FetchManifests.** `ContentsAreComplete` and `EndsAsItDid`, for any listing, any
number of places in the group and any failures. `ListInv`: what was seen has a
download, but for the one that waits for a place; `GroupInv`, `EndInv`: a failed
download is the group's error or came after it, and the call ends when all have;
`EchoInv` is what `EndsAsItDid` needs: every cancellation but the user's goes back to
an error, so of the two errors kept at most one is the other's echo.

**CacheFile.** `NothingIsTorn`. `TemporaryInv`: a writer's temporary file is its own,
not yet on disk under the path, and holds all before it is renamed; `DiskInv`: what a
crash may leave under the path of an output file is whole and flushed; `ServeInv`: a
call of the cache holds its document before it begins to store it.

**GhcrTokens, AcrRequests.** `TokensAreShared`. `RejectedInv` and `HeldInv`: a token turned
down is not valid any more, and the only valid one is in the cache or about to be, so
none is exchanged while one is valid; `GateInv`, `ShareInv`: one request is behind a
closed gate, and the gate opens with the token unless that request ended without
one. `BacksOff` for any width, delay and maximum that fit it: that the recursive
function `Doubled` exists and doubles (`Waits`, `WaitsDouble`) is an induction by hand,
by the least number for which it would fail.

**GhcrThrottle.** `PausedForAll` for any constants, and `LimitsAreRiddenOut` for those
the two halves of it ask for. The pauses double, `BacksOffFurther`, for `MaxThrottle`
up to 65536: the code's exponent stops at 16, and the code's own `maxThrottle`, two
hours, is 120 of its units. `TInv` relates `streak` to the pauses of the limit in
force. The proof needs that a request sent at the instant a limit is noticed, but
before it, counts as sent before it, as it does in the code, whose clock does not
stand still between the two.

A limit is ridden out, `RidesOut`, if there is one (`MaxLimits` at most 1) and it
`LiftsEarly`: for some n it persists for at most 2^n + n, and 2^(n+2) - 1 is within
`MaxThrottle`. Two hours are enough for a limit of 20 minutes (n = 4), whatever the
latency, the retries and the number of calls; a second limit draws on the same
budget, which then has to be larger. The bound is not a weak one: with the run's
latency, and `MaxThrottle` 7, TLC finds a call that fails when the limit persists
for 4 instead of 3, and when `MaxThrottle` is 6. `RideInv(n)` is the invariant. What a
call has waited for limits and what it has yet to wait of the pause (`Within`) is
together less than twice the last pause, since each answer that counts adds its
own pause at most (`PausesInv`). How many count is a matter of time: they come at
different instants, and a call is about to send only when the last pause is over, so
that n of them have ended at most (`SinceInv`), or it looked just before
the limit was noticed again (`ReadyInv`); its answer is the last to count, for by then
all others are early. So at most n + 2 do, one of them perhaps after the limit was
lifted, whose streak may have been ended in between. `RideInv` was model-checked
before it was proved, with two calls and `Persist` 0, 1, 3 and 6, and with three calls.

**Only model-checked**: liveness. Temporal properties under fairness, and `ENABLED`, are
beyond the prover: `DeletionEnds`, `Terminates`, `CancellingEnds` and `SignalsEndTheRun`.
Every other property of a passing run is a theorem.

## Where code and documentation differ

* `forced_exit`: `src/README.md:100` says a second signal restores the terminal. The
  handler restores the screens that are registered when it looks; a display that
  registers one between this and the exit leaves its terminal in the alternate
  screen.
* `platform_images`: `src/README.md:429` says a platform image that a ranked rule
  would match "by any of its tags" is kept exactly when an index referencing it is.
  `keepTag` decides tag by tag: a second tag that no rule matches, or that another
  rule keeps, keeps the image without its indexes. What is true, for any rules and
  listing, is `PlatformImagesFollowByEachTag`: rank plays no part for an image of an
  index, and it is left to its indexes exactly when for every one of its tags the first
  rule that matches tag and image deletes or ranks.

* `OutcomeIsTold` states an exception, which no run reports apart: a display that loses
  its terminal cancels the work itself (`progress/terminal.go:189-197`), and `exitCode`
  takes the cancellation it then finds for that of a key. A run with neither a signal
  nor a key exits with 130, where `src/cmd/crprune/main.go:89` speaks of "Ctrl-C in the
  terminal display" and `src/README.md:100` has status "1 on failure". Without
  `fault = "lost"` in `StatusIsTruthful` TLC finds this in the run `signals`.

## Abstractions

* A request takes effect at the latest when its failure is reported. One that
  takes effect later could undo a restore; the registry offers no way to tell.
* Others who write between the recheck and the deletion are exempt from
  PruneRepository's promises (`late`), as the comment on `pruneRepository` says.
* Retention takes the verdict of the rules on a manifest as an input; RuleEvaluation
  computes it. PruneRepository takes the decision for indexes and children only.
* A repository name that `ValidRepository` refuses (`delete.go:232`) ends the call
  before it has done anything; names are taken as valid. A repository whose listing
  holds no manifest (`pruner.go:291`) is counted and left alone: those of PruneRun
  hold some.
* Times are small numbers, sizes are few, names and tags are model values; a pattern
  is the set of names it matches and its spelling.
* A deletion that panics in the explorer is neither logged nor followed by a mark of
  the snapshot, because the result's kind is lost with it; the properties say so.
* Before the display has registered its screen a second signal leaves the terminal
  in raw mode. No document promises otherwise for that moment.
* A renewal may join the exchange that gave the very token it wants to renew, and the
  request is then turned down. The code has this window; at most one token is
  asked for all the same.
* Computing takes no time in GhcrThrottle, so two calls that wake together may
  send together; the code has the same freedom.
* In CacheFile, removing a temporary file succeeds (its error is ignored), and a
  rename reaches the disk at any moment.
* Which of the two errors that reach it at once `errgroup` keeps, and whether a
  cancelled request fails with the cancellation or with its cause, is a choice.

## Not modelled

* Drawing, layout, sorting, filtering and the text of the explorer and of the display
  (`explore/view.go`, `tui/draw.go`, most of `explore/terminal.go` and
  `progress/terminal.go`): functions of the state that change nothing else.
* Flags and their validation, the construction of clients and the printing of
  reports (`cmd/crprune/main.go`, `suggest.go`, `pruner/report.go`): sequential
  code without a state of its own.
* The syntax of rule files, durations, regular expressions and image references
  (`rules/parse.go`, `rules/duration.go`, `imageref`), JSON documents and positions:
  conversions whose results the modules take as inputs.
* The worklist that downloads image configurations for their platforms
  (`registry/platform.go`) and the sums of blob sizes of a manifest: the downloads
  go through what FetchManifests models, and the sums have no order or partial state.
* GHCR's scopes, its choice between an organisation's and a user's packages, and
  the second request that tells a missing manifest from a missing permission;
  ACR's listing of tag locks page by page and its credentials.
* The test doubles (`registrytest`), which the modules' own registries replace.
