------------------------------ MODULE PruneRun ------------------------------
(***************************************************************************)
(* Pruner.Prune of internal/pruner/pruner.go: one repository after the     *)
(* other, each by pruneRepository. A repository the credential may not     *)
(* prune, or that cannot be pruned safely, is skipped and reported at the  *)
(* end; any other failure ends the run. The run deletes (live), only       *)
(* reports (dry), or collects a plan to be reviewed (preview).             *)
(*                                                                         *)
(* What pruneRepository does inside is PruneRepository, Retention and      *)
(* DeleteManifests; here it is a beginning, during which the user may      *)
(* interrupt the run, and one of its outcomes.                             *)
(***************************************************************************)
EXTENDS Integers, FiniteSets, FiniteSetsExt

CONSTANTS
  Repositories,  \* how many candidates: 1..Repositories, in their order
  Manifest,      \* what each of them holds
  Modes          \* \subseteq {"live", "dry", "preview"}

ASSUME RepositoriesNatural == Repositories \in Nat
ASSUME ManifestFinite      == IsFiniteSet(Manifest)
ASSUME KnownModes          == Modes \subseteq {"live", "dry", "preview"}

VARIABLES
  mode,
  stored,     \* the manifests of each repository
  at,         \* the repository whose turn it is
  busy,       \* whether pruneRepository is running on it
  cancelled,  \* ctx is cancelled
  failed,     \* the kinds of the errors pruneRepository returned, joined
  pruned, denied, skipped,
  total,      \* PruneStats
  plan,       \* preview.repositories: what is to be deleted of each
  result      \* "listing", "pruning", or what Prune returned

vars == <<mode, stored, at, busy, cancelled, failed, pruned, denied, skipped, total, plan, result>>

Repository == 1..Repositories

\* "unsafe": ErrRepositoryChanged or ErrUnsupportedManifest.
Kinds == {"denied", "unsafe", "canceled", "other"}

Counters == {"repositories", "keptRepositories", "skippedRepositories",
             "seen", "kept", "deleted"}

\* PruneStats.Add
Plus(s, t) == [c \in Counters |-> s[c] + t[c]]

Nothing == [c \in Counters |-> 0]

Counts(seen, deleted, whole, failure) ==
  [repositories |-> 1, keptRepositories |-> IF whole THEN 0 ELSE 1,
   skippedRepositories |-> IF failure THEN 1 ELSE 0,
   seen |-> seen, kept |-> seen - deleted, deleted |-> deleted]

Init ==
  /\ mode \in Modes
  /\ stored = [r \in Repository |-> Manifest]
  /\ at = 1 /\ busy = FALSE
  /\ cancelled = FALSE
  /\ failed = [r \in Repository |-> {}]
  /\ pruned = {} /\ denied = {} /\ skipped = {}
  /\ total = Nothing
  /\ plan = [r \in Repository |-> {}]
  /\ result = "listing"

-----------------------------------------------------------------------------
\* candidateRepositories may have to list the registry, which may fail.
List ==
  /\ result = "listing"
  /\ result' \in {"pruning", "failed"}
  /\ UNCHANGED <<mode, stored, at, busy, cancelled, failed, pruned, denied, skipped, total, plan>>

\* ctx is looked at before every repository.
Start ==
  /\ result = "pruning" /\ ~busy /\ at <= Repositories
  /\ IF cancelled THEN result' = "failed" /\ UNCHANGED busy
                  ELSE busy' = TRUE /\ UNCHANGED result
  /\ UNCHANGED <<mode, stored, at, cancelled, failed, pruned, denied, skipped, total, plan>>

\* Mutant of IsDenied: one denial among the joined errors is enough.
AnyDenied(errs) == "denied" \in errs

\* isDenied: every one of the joined errors must be a denial.
IsDenied(errs) == errs # {} /\ errs \subseteq {"denied"}

Skippable(errs) == "unsafe" \in errs

\* What Prune does with the errors and counts of pruneRepository. A reviewed
\* plan must not omit a repository it was asked for.
Conclude(errs, stats) ==
  LET fatal == IF errs = {} THEN mode = "preview" /\ stats.skippedRepositories > 0
                            ELSE ~IsDenied(errs) /\ ~Skippable(errs)
  IN  /\ failed' = [failed EXCEPT ![at] = errs]
      /\ pruned' = IF errs = {} THEN pruned \cup {at} ELSE pruned
      /\ denied' = IF IsDenied(errs) THEN denied \cup {at} ELSE denied
      /\ skipped' = IF ~IsDenied(errs) /\ Skippable(errs) THEN skipped \cup {at} ELSE skipped
      /\ total' = Plus(total, stats)
      /\ result' = IF fatal THEN "failed" ELSE result
      /\ busy' = FALSE /\ at' = at + 1

Possible(errs) == "canceled" \in errs => cancelled

\* The inspection or the recheck fails: nothing was deleted, and the repository
\* counts as untouched.
Uninspected ==
  /\ busy
  /\ \E kind \in Kinds : Possible({kind}) /\ Conclude({kind}, Counts(0, 0, FALSE, TRUE))
  /\ UNCHANGED <<mode, stored, cancelled, plan>>

\* The repository is gone, or a document is missing.
LeftAlone ==
  /\ busy
  /\ \E seen \in {0, Cardinality(stored[at])} : Conclude({}, Counts(seen, 0, FALSE, TRUE))
  /\ UNCHANGED <<mode, stored, cancelled, plan>>

\* A dry run counts what it would delete.
Preview(chosen) ==
  /\ busy /\ mode # "live"
  /\ plan' = IF mode = "preview" THEN [plan EXCEPT ![at] = chosen] ELSE plan
  /\ Conclude({}, Counts(Cardinality(stored[at]), Cardinality(chosen), chosen = stored[at], FALSE))
  /\ UNCHANGED <<mode, stored, cancelled>>

Delete(chosen) ==
  /\ busy /\ mode = "live"
  /\ stored' = [stored EXCEPT ![at] = @ \ chosen]
  /\ Conclude({}, Counts(Cardinality(stored[at]), Cardinality(chosen), chosen = stored[at], FALSE))
  /\ UNCHANGED <<mode, cancelled, plan>>

\* Mutant of DeleteFailing: the plan is counted, not what was confirmed.
DeleteFailingCounted(chosen) ==
  /\ busy /\ mode = "live" /\ chosen # {}
  /\ \E gone \in SUBSET chosen, errs \in (SUBSET Kinds) \ {{}} :
       /\ Possible(errs) /\ "unsafe" \notin errs
       /\ stored' = [stored EXCEPT ![at] = @ \ gone]
       /\ Conclude(errs, Counts(Cardinality(stored[at]), Cardinality(chosen), FALSE, TRUE))
  /\ UNCHANGED <<mode, cancelled, plan>>

\* A deletion fails: of what is gone, some may not have been confirmed, and
\* nothing is when the whole repository was to go.
DeleteFailing(chosen) ==
  /\ busy /\ mode = "live" /\ chosen # {}
  /\ \E gone \in SUBSET chosen, errs \in (SUBSET Kinds) \ {{}} :
       /\ Possible(errs) /\ "unsafe" \notin errs
       /\ stored' = [stored EXCEPT ![at] = @ \ gone]
       /\ IF chosen = stored[at]
          THEN /\ gone \in {{}, chosen} /\ Cardinality(errs) = 1
               /\ Conclude(errs, Counts(Cardinality(stored[at]), 0, FALSE, TRUE))
          ELSE \E confirmed \in SUBSET gone :
                 Conclude(errs, Counts(Cardinality(stored[at]), Cardinality(confirmed), FALSE, TRUE))
  /\ UNCHANGED <<mode, cancelled, plan>>

Return ==
  /\ result = "pruning" /\ ~busy /\ at > Repositories
  /\ result' = IF denied = {} /\ skipped = {} /\ ~cancelled THEN "ok" ELSE "failed"
  /\ UNCHANGED <<mode, stored, at, busy, cancelled, failed, pruned, denied, skipped, total, plan>>

Interrupt ==
  /\ ~cancelled /\ result \in {"listing", "pruning"}
  /\ cancelled' = TRUE
  /\ UNCHANGED <<mode, stored, at, busy, failed, pruned, denied, skipped, total, plan, result>>

Prune ==
  \/ List \/ Start \/ Uninspected \/ LeftAlone \/ Return
  \/ /\ busy
     /\ \E chosen \in SUBSET stored[at] :
          Preview(chosen) \/ Delete(chosen) \/ DeleteFailing(chosen)

Next == Prune \/ Interrupt

Spec == Init /\ [][Next]_vars

-----------------------------------------------------------------------------
(* Properties *)

TypeOK ==
  /\ mode \in Modes
  /\ stored \in [Repository -> SUBSET Manifest]
  /\ at \in 1..Repositories + 1 /\ busy \in BOOLEAN /\ (busy => at <= Repositories)
  /\ cancelled \in BOOLEAN
  /\ failed \in [Repository -> SUBSET Kinds]
  /\ pruned \subseteq Repository /\ denied \subseteq Repository /\ skipped \subseteq Repository
  /\ total \in [Counters -> Nat]
  /\ plan \in [Repository -> SUBSET Manifest]
  /\ result \in {"listing", "pruning", "ok", "failed"}

\* pruner.go, isDenied: "A denial hiding another failure would skip a repository
\* that should stop the run." After any failure that is neither a denial nor an
\* unsafe repository, alone or joined with denials, nothing else is deleted or
\* planned.
HardFailureEndsTheRun ==
  [][(\E r \in Repository : failed[r] \cap {"other", "canceled"} # {}) => UNCHANGED <<stored, plan, at>>]_vars

\* What the registry lost, and what a preview is to take from it.
Lost    == {rm \in Repository \X Manifest : rm[2] \notin stored[rm[1]]}
Planned == {rm \in Repository \X Manifest : rm[2] \in plan[rm[1]]}

\* The counts the run reports hold together whatever failed: each repository is
\* counted once, what was seen was kept or deleted, and what a live run reports
\* as deleted is gone - all of it, when nothing failed - so that a failure is
\* never counted as the plan it cut short. plan.go, Prepare: "A failed scan yields
\* no executable plan, including when other repositories were inspected
\* successfully": a preview that succeeds left no repository alone, and counts
\* what its plan holds.
CountsAddUp ==
  /\ total["repositories"] = at - 1
  /\ total["seen"] = total["kept"] + total["deleted"]
  /\ mode = "live" =>
       /\ total["deleted"] <= Cardinality(Lost)
       /\ result = "ok" => total["deleted"] = Cardinality(Lost)
       /\ total["repositories"] - total["keptRepositories"]
            <= Cardinality({r \in Repository : stored[r] = {}})
  /\ mode = "preview" /\ result = "ok" =>
       /\ total["skippedRepositories"] = 0
       /\ total["seen"] = Repositories * Cardinality(Manifest)
       /\ total["deleted"] = Cardinality(Planned)

=============================================================================
