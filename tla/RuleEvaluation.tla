--------------------------- MODULE RuleEvaluation ---------------------------
(***************************************************************************)
(* A repository decided by a rule file: the file is compiled and warned    *)
(* about, the repository's rule found, its manifests ranked for the rules  *)
(* with `newest` (newEvaluator of internal/pruner/eval.go) and each one's  *)
(* first matching rule applied (evaluator.keep). The outcome is what       *)
(* Retention calls a manifest's class "kept".                              *)
(*                                                                         *)
(* Integers end at MaxInt where the code computes with one the rule file   *)
(* gave it. Manifests are numbers, in the order of their references. Times *)
(* are small numbers, now is Now.                                          *)
(***************************************************************************)
EXTENDS RuleSets

CONSTANTS
  Manifest,  \* the manifests of the repository, numbers
  Unknown,   \* the architecture or system of what is no image
  MaxInt,    \* the greatest int
  Now,       \* when the repository is decided
  Inputs     \* what may be decided: rule files, repositories and listings

ASSUME IntAndTime == MaxInt \in Nat \ {0} /\ Now \in Int

\* The length of a list is an int.
ASSUME ManifestsAreNumbers ==
  Manifest \subseteq Nat /\ IsFiniteSet(Manifest) /\ Cardinality(Manifest) <= MaxInt

ListingOf(listing) ==
  \A m \in Manifest : listing[m].tags \subseteq Tag /\ listing[m].updated \in Int

ASSUME InputsAreRead ==
  \A in \in Inputs : FileOf(in.specs) /\ in.repository \in Name /\ ListingOf(in.image)

MinInt == -MaxInt - 1

\* What a computation leaves of x in an int.
Int_(x) == ((x - MinInt) % (MaxInt - MinInt + 1)) + MinInt

VARIABLES
  specs,       \* the rule file
  repository,  \* the repository
  image,       \* its manifests: tags, updated, owned, referrer, platforms
  stage,       \* "file", "rules", "ranked", "decided", "refused" or "ignored"
  ruleSet,     \* the compiled rules
  warned,      \* what Warnings names
  at,          \* the position of the repository's rule
  ranks,       \* evaluator.tagged and evaluator.untagged
  kept         \* the manifests keep keeps

input == <<specs, repository, image>>
vars  == <<input, stage, ruleSet, warned, at, ranks, kept>>

rule == ruleSet[at]

Tagged   == {m \in Manifest : image[m].tags # {}}
Untagged == Manifest \ Tagged

-----------------------------------------------------------------------------
(* The criteria *)

\* matchesPlatform: both constraints must match the same platform, and only a
\* known one.
MatchesPlatform(r, m) ==
  LET Known(p, v) == p.spelled = "nil" \/ (v # Unknown /\ v \in p.names)
  IN \/ r.arch.spelled = "nil" /\ r.os.spelled = "nil"
     \/ \E p \in image[m].platforms : Known(r.arch, p[1]) /\ Known(r.os, p[2])

\* matchesCriteria: every criterion but newest; a zero age is none.
MatchesCriteria(r, m) ==
  /\ MatchesPlatform(r, m)
  /\ MatchString(r.digest, m)
  /\ r.newer # 0 => image[m].updated + r.newer > Now
  /\ r.older # 0 => image[m].updated + r.older < Now

\* byNewest
ByNewest(m, n) == image[m].updated > image[n].updated \/ (image[m].updated = image[n].updated /\ m < n)

\* Mutant of Ranked: what an index lists is ranked like an image.
RankedAll(S) == {m \in S : ~image[m].referrer}

\* Referrers and the manifests of an index take no place among the newest.
Ranked(S) == {m \in S : ~image[m].referrer /\ ~image[m].owned}

\* slices.SortFunc by byNewest
Ordered(S) ==
  CHOOSE s \in [1..Cardinality(S) -> S] :
    \A i, j \in 1..Cardinality(S) : i < j => ByNewest(s[i], s[j])

\* rank: the manifests a rule matches, with how many of them come first in the
\* order; the rules without newest need no ranks.
Rank(S, r) ==
  LET ordered   == Ordered(Ranked(S))
      matching  == {m \in Ranked(S) : MatchAny(r.tag, image[m].tags) /\ MatchesCriteria(r, m)}
      Before(m) == {i \in DOMAIN ordered : ordered[i] \in matching /\ \E k \in DOMAIN ordered : i < k /\ ordered[k] = m}
  IN IF r.newest = 0 THEN <<>> ELSE [m \in matching |-> Cardinality(Before(m))]

\* newEvaluator
Ranks(r) ==
  [tagged   |-> [i \in DOMAIN r.tagged |-> Rank(Tagged, r.tagged[i])],
   untagged |-> [i \in DOMAIN r.untagged |-> Rank(Untagged, r.untagged[i])]]

WithinNewest(newest, position) ==
  IF newest > 0 THEN position < newest ELSE Int_(-position) <= newest

\* evaluator.matches
MatchesRule(positions, r, m) ==
  IF r.newest = 0 THEN MatchesCriteria(r, m)
  ELSE m \in DOMAIN positions /\ WithinNewest(r.newest, positions[m])

-----------------------------------------------------------------------------
(* keep *)

\* A rule with newest leaves the manifests of an index, if it matches them
\* otherwise, to the index.
LeavesToIndex(r, m) == r.newest # 0 /\ image[m].owned

Decides(positions, r, m) ==
  IF LeavesToIndex(r, m) THEN MatchesCriteria(r, m) ELSE MatchesRule(positions, r, m)

\* The first tagged rule that decides a tag, the first untagged rule that
\* decides a manifest, or 0.
DecidesTag(m, t) ==
  Least({i \in DOMAIN rule.tagged : /\ MatchString(rule.tagged[i].tag, t)
                                    /\ Decides(ranks.tagged[i], rule.tagged[i], m)}, 0)

DecidesUntagged(m) ==
  Least({i \in DOMAIN rule.untagged : Decides(ranks.untagged[i], rule.untagged[i], m)}, 0)

Verdict(list, i, m) == i = 0 \/ (~LeavesToIndex(list[i], m) /\ list[i].keep)

\* Mutant of Keep: one tag's rule is enough to delete.
KeepEveryTag(m) ==
  \/ image[m].referrer
  \/ IF m \in Tagged THEN \A t \in image[m].tags : Verdict(rule.tagged, DecidesTag(m, t), m)
     ELSE Verdict(rule.untagged, DecidesUntagged(m), m)

\* evaluator.keep: one tag kept keeps the manifest. Referrers are decided
\* elsewhere.
Keep(m) ==
  \/ image[m].referrer
  \/ IF m \in Tagged THEN \E t \in image[m].tags : Verdict(rule.tagged, DecidesTag(m, t), m)
     ELSE Verdict(rule.untagged, DecidesUntagged(m), m)

-----------------------------------------------------------------------------
Init ==
  /\ \E in \in Inputs : specs = in.specs /\ repository = in.repository /\ image = in.image
  /\ stage = "file"
  /\ ruleSet = <<>> /\ warned = {} /\ at = 0
  /\ ranks = [tagged |-> <<>>, untagged |-> <<>>]
  /\ kept = {}

\* Compile and Warnings
ReadFile ==
  /\ stage = "file"
  /\ IF \E i \in DOMAIN specs : BadRepoRule(specs[i])
     THEN stage' = "refused" /\ UNCHANGED <<ruleSet, warned>>
     ELSE /\ stage' = "rules"
          /\ ruleSet' = CompileAll(specs)
          /\ warned' = Warned(CompileAll(specs))
  /\ UNCHANGED <<input, at, ranks, kept>>

\* RepositoryMatcher.Match: a repository without a rule is left alone.
FindRule ==
  /\ stage = "rules"
  /\ at' = MatchingRule(ruleSet, repository)
  /\ stage' = IF at' = 0 THEN "ignored" ELSE "ranked"
  /\ ranks' = IF at' = 0 THEN ranks ELSE Ranks(ruleSet[at'])
  /\ UNCHANGED <<input, ruleSet, warned, kept>>

Evaluate ==
  /\ stage = "ranked"
  /\ kept' = {m \in Manifest : Keep(m)}
  /\ stage' = "decided"
  /\ UNCHANGED <<input, ruleSet, warned, at, ranks>>

Next == ReadFile \/ FindRule \/ Evaluate

Spec == Init /\ [][Next]_vars

-----------------------------------------------------------------------------
(* Properties *)

TypeOK ==
  /\ stage \in {"file", "rules", "ranked", "decided", "refused", "ignored"}
  /\ at \in 0..Len(ruleSet)
  /\ DOMAIN ruleSet \subseteq DOMAIN specs
  /\ kept \subseteq Manifest

Decided == stage = "decided"

\* The images a rule chooses the newest among, without the ranking.
Candidates(S, r) ==
  {m \in S : /\ ~image[m].referrer /\ ~image[m].owned
             /\ m \in Untagged \/ \E t \in image[m].tags : MatchString(r.tag, t)
             /\ MatchesCriteria(r, m)}

\* How many of them were updated later, or as late and come first by name.
NewerThan(S, r, m) ==
  Cardinality({n \in Candidates(S, r) :
    \/ image[n].updated > image[m].updated
    \/ image[n].updated = image[m].updated /\ n < m})

\* README, "newest": N selects the N newest images that the rule matches
\* otherwise, -N all but the N newest, however many there are and whatever N
\* is, the least integer included; ties are broken the same way every time.
NewestIsExact ==
  Decided => \A S \in {Tagged, Untagged} :
    LET list == IF S = Tagged THEN rule.tagged ELSE rule.untagged
        positions == IF S = Tagged THEN ranks.tagged ELSE ranks.untagged
    IN \A i \in DOMAIN list : list[i].newest # 0 =>
         \A m \in Manifest :
           MatchesRule(positions[i], list[i], m) <=>
             /\ m \in Candidates(S, list[i])
             /\ IF list[i].newest > 0 THEN NewerThan(S, list[i], m) < list[i].newest
                ELSE NewerThan(S, list[i], m) >= -list[i].newest

\* The window meant for rollbacks is full: a first rule that keeps the N newest
\* images of some tags keeps min(N, all) of them, signatures and the parts of
\* multi-platform builds aside, whatever else is tagged.
WindowIsFull ==
  Decided /\ rule.tagged # <<>> =>
    LET r == rule.tagged[1]
        images == Candidates(Tagged, r)
    IN r.newest > 0 /\ r.keep =>
         \/ images \subseteq kept
         \/ Cardinality(images \cap kept) >= r.newest

\* The rules of a list that the tags and untagged manifests are decided by.
Applied ==
  (UNION {{<<at, "tagged", DecidesTag(m, t)>> : t \in image[m].tags} : m \in Tagged})
  \cup {<<at, "untagged", DecidesUntagged(m)>> : m \in Untagged}

\* A rule Warnings says can never apply never does: it is not the repository's
\* rule and decides no manifest. Nor does the warning name the wrong culprit:
\* the rule said to shadow another is the first to match what that one does.
WarnedNeverApply ==
  /\ Decided => ~\E w \in warned : w[1] = at /\ (w[2] = "repository" \/ w \in Applied)
  /\ \A w \in {w \in warned : w[2] = "repository"} :
       \A n \in ruleSet[w[1]].repo.names : FirstRule(ruleSet, n) = w[3] \/ ~IsLiteral(ruleSet[w[1]])

\* A repository is decided by the first rule of the file that matches it: the
\* index of literal names changes nothing, wherever the patterns stand.
FirstRuleDecides ==
  stage \in {"ranked", "decided", "ignored"} => at = FirstRule(ruleSet, repository)

\* Deleting a tagged manifest deletes all its tags, so one is deleted only if,
\* for every tag, a rule matching it and the manifest deletes, and no earlier
\* one keeps: what a rule file does not ask to delete is never lost.
NoTagIsLost ==
  Decided => \A m \in Tagged \ kept : \A t \in image[m].tags :
    \E i \in DOMAIN rule.tagged :
      /\ MatchString(rule.tagged[i].tag, t) /\ MatchesCriteria(rule.tagged[i], m)
      /\ ~rule.tagged[i].keep \/ (image[m].owned /\ rule.tagged[i].newest # 0)
      /\ \A j \in 1..(i - 1) :
           rule.tagged[j].keep /\ MatchString(rule.tagged[j].tag, t) => ~MatchesRule(ranks.tagged[j], rule.tagged[j], m)

\* README, "newest": a platform image that a ranked rule would otherwise match,
\* by any of its tags, is kept exactly when an index listing it is - so not by
\* the rules. Said of the first rule, which no other one comes before.
PlatformImagesFollow ==
  Decided /\ rule.tagged # <<>> /\ rule.tagged[1].newest # 0 =>
    \A m \in kept :
      image[m].referrer \/ ~image[m].owned \/ image[m].tags = {}
        \/ ~MatchAny(rule.tagged[1].tag, image[m].tags) \/ ~MatchesCriteria(rule.tagged[1], m)

\* No rule of a compiled file lost a constraint its text gave it, so no rule
\* meant for some manifests is taken for a catch-all. An age of zero for
\* match_older, which every manifest but the newest passes, is no constraint.
ConstraintsSurvive ==
  stage \notin {"file", "refused"} => \A i \in DOMAIN specs :
    \A f \in {"tagged", "untagged"} : \A j \in DOMAIN specs[i][f] :
      Unconstrained(ruleSet[i][f][j]) =>
        LET s == specs[i][f][j]
        IN s.newest = {} /\ s.newer = {} /\ s.older \subseteq {0}

\* The repository's rule is the first to match, a rule warned of never applies,
\* and none applies to more than its text says.
OnlyTheFirstRuleApplies == FirstRuleDecides /\ WarnedNeverApply /\ ConstraintsSurvive

\* newest selects exactly what it says, and a rollback window is full.
NewestSelects == NewestIsExact /\ WindowIsFull
=============================================================================
