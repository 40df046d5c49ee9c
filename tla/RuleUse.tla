------------------------------ MODULE RuleUse ------------------------------
(***************************************************************************)
(* The two uses of rules: to decide a repository (RuleEvaluation), and,    *)
(* generated from an image list, to tell which images are running          *)
(* (RegistryStatistics). The two share no state.                           *)
(***************************************************************************)
EXTENDS RuleEvaluation

CONSTANTS
  Repositories,  \* how many repositories the registry has
  Manifests, Parts, Size, TagSets, Lists

\* Manifests list their parts, and everything has a size.
ASSUME RegistryIsFinite ==
  /\ Repositories \in Nat /\ IsFiniteSet(Manifests)
  /\ \A m \in Manifests : /\ Parts[m] \in Seq(Range(Parts[m]))
                          /\ \A d \in {m} \cup Range(Parts[m]) : Size[d] \in Nat

\* What imageref.Split leaves of a line.
ASSUME ListsAreRead ==
  \A l \in Lists : /\ l \in Seq(Range(l))
                   /\ \A i \in DOMAIN l : Single(l[i].tag) /\ Single(l[i].digest)

VARIABLES list, present, gaps, tags, step, reached, rules, todo, seen, stats, denied, skipped, result

Stats == INSTANCE RegistryStatistics WITH Name <- 1..Repositories

\* The statistics charge each blob to the first repository holding it.
ChargedToTheFirst == Stats!ChargedToTheFirst

\* The running images are those on the list.
RunningIsListed == Stats!RunningIsListed
=============================================================================
