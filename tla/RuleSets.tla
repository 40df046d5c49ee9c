------------------------------ MODULE RuleSets ------------------------------
(***************************************************************************)
(* The rule sets of internal/rules: compiling a rule file, finding the     *)
(* rule of a repository, warning of rules that can never apply, and the    *)
(* rules generated from a list of running images; and runningMatch of      *)
(* internal/pruner/stats.go, which reads them back.                        *)
(*                                                                         *)
(* A pattern is the set of names it matches, and how it is spelled, for    *)
(* that is what LiteralRepoName and matchesAnyName look at: a pattern may  *)
(* match one name, or all of them, without saying so plainly.              *)
(***************************************************************************)
EXTENDS Integers, Sequences, FiniteSets, SequencesExt

CONSTANTS
  Name,    \* repository names
  Tag,     \* tags
  Latest   \* the tag a reference without one means

ASSUME LatestIsATag == Latest \in Tag

Spelling == {"nil", "empty", "literal", "any", "other"}

Nil        == [spelled |-> "nil", names |-> {}]      \* a field left out
EmptyText  == [spelled |-> "empty", names |-> {}]
Literal(n) == [spelled |-> "literal", names |-> {n}]
Anything(S) == [spelled |-> "any", names |-> S]       \* .+ for names in S
Other(S)   == [spelled |-> "other", names |-> S]

\* A literal pattern matches one name of S, one that matches anything all.
PatternOf(p, S) ==
  /\ p.spelled \in Spelling /\ p.names \subseteq S
  /\ p.spelled = "literal" => \E n \in S : p.names = {n}
  /\ p.spelled = "any" => p.names = S

\* matchString: a nil pattern matches unconditionally.
MatchString(p, n) == p.spelled = "nil" \/ n \in p.names

\* matchAny
MatchAny(p, S) == p.spelled = "nil" \/ p.names \cap S # {}

-----------------------------------------------------------------------------
(* compile.go *)

\* A spec's optional numbers are sets of at most one. What a zero newest or a
\* zero age would say is the opposite of the "no constraint" it compiles to.
BadCommon(s) ==
  \/ \E f \in {"arch", "os", "digest"} : s[f].spelled = "empty"
  \/ 0 \in s.newest
  \/ \E n \in s.newer : n <= 0
  \/ \E n \in s.older : n < 0

\* CommonRuleSpec.compile; the tag of an untagged rule is Nil.
Compiled(s) ==
  LET Or(S, default) == IF S = {} THEN default ELSE CHOOSE x \in S : TRUE
  IN [arch |-> s.arch, os |-> s.os, digest |-> s.digest, tag |-> s.tag,
      newest |-> Or(s.newest, 0), newer |-> Or(s.newer, 0), older |-> Or(s.older, 0),
      keep |-> Or(s.keep, TRUE)]

\* What Parse reads.
Single(S) == \A x, y \in S : x = y

EntryOf(s) ==
  /\ \A f \in {"newest", "newer", "older"} : s[f] \subseteq Int /\ Single(s[f])
  /\ s.keep \subseteq BOOLEAN /\ Single(s.keep)
  /\ PatternOf(s.tag, Tag)

FileOf(specs) ==
  /\ specs \in Seq(Range(specs))
  /\ \A i \in DOMAIN specs :
       /\ PatternOf(specs[i].repo, Name)
       /\ specs[i].tagged \in Seq(Range(specs[i].tagged))
       /\ specs[i].untagged \in Seq(Range(specs[i].untagged))
       /\ \A j \in DOMAIN specs[i].tagged : EntryOf(specs[i].tagged[j])
       /\ \A j \in DOMAIN specs[i].untagged :
            EntryOf(specs[i].untagged[j]) /\ specs[i].untagged[j].tag = Nil

\* RepoRuleSpec.Compile refuses an unreadable spec.
BadRepoRule(spec) ==
  \/ spec.repo.spelled = "empty"
  \/ \E i \in DOMAIN spec.untagged : BadCommon(spec.untagged[i])
  \/ \E i \in DOMAIN spec.tagged : BadCommon(spec.tagged[i]) \/ spec.tagged[i].tag.spelled = "empty"

CompileRepoRule(spec) ==
  [repo     |-> spec.repo,
   untagged |-> [i \in DOMAIN spec.untagged |-> Compiled(spec.untagged[i])],
   tagged   |-> [i \in DOMAIN spec.tagged |-> Compiled(spec.tagged[i])]]

CompileAll(specs) == [i \in DOMAIN specs |-> CompileRepoRule(specs[i])]

-----------------------------------------------------------------------------
(* matcher.go and literal.go *)

\* LiteralRepoName
IsLiteral(rule) == rule.repo.spelled = "literal"

NameOf(rule) == CHOOSE n \in rule.repo.names : TRUE

Matches(rule, repository) == repository \in rule.repo.names

Least(S, none) == IF S = {} THEN none ELSE CHOOSE i \in S : \A j \in S : i <= j

\* The literals of NewRepositoryMatcher: the first rule of a literal name.
FirstLiteral(ruleSet, repository) ==
  Least({i \in DOMAIN ruleSet : IsLiteral(ruleSet[i]) /\ NameOf(ruleSet[i]) = repository},
        Len(ruleSet) + 1)

\* Mutant of MatchingRule: a literal rule is not compared with the patterns.
MatchingLiteral(ruleSet, repository) ==
  LET first == FirstLiteral(ruleSet, repository)
      patterns == {i \in DOMAIN ruleSet : ~IsLiteral(ruleSet[i]) /\ Matches(ruleSet[i], repository)}
  IN IF first <= Len(ruleSet) THEN first ELSE Least(patterns, 0)

\* RepositoryMatcher.Match: the position of the rule of a repository, 0 for
\* nil. Patterns are tried up to the first literal rule.
MatchingRule(ruleSet, repository) ==
  LET first == FirstLiteral(ruleSet, repository)
      patterns == {i \in DOMAIN ruleSet : /\ ~IsLiteral(ruleSet[i]) /\ i < first
                                          /\ Matches(ruleSet[i], repository)}
  IN Least(patterns, IF first <= Len(ruleSet) THEN first ELSE 0)

-----------------------------------------------------------------------------
(* warnings.go *)

\* matchesAnyName; a tag pattern may also be left out.
MatchesAnyName(p) == p.spelled = "any"

\* CommonRule.unconstrained
Unconstrained(r) ==
  /\ r.arch.spelled = "nil" /\ r.os.spelled = "nil" /\ r.digest.spelled = "nil"
  /\ r.newest = 0 /\ r.newer = 0 /\ r.older = 0

\* The first pattern that says it matches everything, or one past the end.
CatchAll(ruleSet) ==
  Least({i \in DOMAIN ruleSet : MatchesAnyName(ruleSet[i].repo)}, Len(ruleSet) + 1)

\* An earlier rule matches everything, or the name of a literal rule.
Covers(ruleSet, j, i) ==
  \/ j = CatchAll(ruleSet)
  \/ /\ IsLiteral(ruleSet[i])
     /\ IF IsLiteral(ruleSet[j]) THEN NameOf(ruleSet[j]) = NameOf(ruleSet[i])
        ELSE Matches(ruleSet[j], NameOf(ruleSet[i]))

\* repositoryShadows: the first rule to shadow each rule, 0 for none. No rule
\* after one that matches everything is remembered.
Shadows(ruleSet) ==
  [i \in DOMAIN ruleSet |->
    Least({j \in 1..(i - 1) : j <= CatchAll(ruleSet) /\ Covers(ruleSet, j, i)}, 0)]

CatchAllTagged(t) == Unconstrained(t) /\ (t.tag.spelled = "nil" \/ MatchesAnyName(t.tag))

\* unreachable: the entries of a list after its first catch-all.
AfterCatchAll(list, catchAlls) ==
  {j \in DOMAIN list : \E i \in 1..(j - 1) : list[i] \in catchAlls}

\* Warnings, as the rules, tagged and untagged entries it names. The lists of
\* a rule that never applies are moot.
Warned(ruleSet) ==
  LET shadows == Shadows(ruleSet)
  IN {<<i, "repository", shadows[i]>> : i \in {i \in DOMAIN ruleSet : shadows[i] # 0}}
     \cup UNION {LET rule == ruleSet[i]
                     allTagged   == {t \in Range(rule.tagged) : CatchAllTagged(t)}
                     allUntagged == {u \in Range(rule.untagged) : Unconstrained(u)}
                 IN {<<i, "tagged", j>> : j \in AfterCatchAll(rule.tagged, allTagged)}
                    \cup {<<i, "untagged", j>> : j \in AfterCatchAll(rule.untagged, allUntagged)}
                 : i \in {i \in DOMAIN ruleSet : shadows[i] = 0}}

-----------------------------------------------------------------------------
(* generate.go *)

\* A line of an image list names an image of this registry ("ours"), of
\* another one, or nothing that can be read. A tag or a digest is a set of at
\* most one; imageref.Split reads a plain name as its latest tag.
TagsOf(line) == IF line.tag = {} /\ line.digest = {} THEN {Latest} ELSE line.tag

Unconstraining == [arch |-> Nil, os |-> Nil, digest |-> Nil, tag |-> Nil,
                   newest |-> {}, newer |-> {}, older |-> {}, keep |-> {}]

KeepDigest(d) == [Unconstraining EXCEPT !.digest = Literal(d), !.keep = {TRUE}]
KeepTagged(t) == [Unconstraining EXCEPT !.tag = Literal(t), !.keep = {TRUE}]
DeleteTagged  == [Unconstraining EXCEPT !.tag = Anything(Tag), !.keep = {FALSE}]
DeleteRest    == [Unconstraining EXCEPT !.keep = {FALSE}]

\* Appends what is new, as repoKeeps.seen does.
AppendNew(s, S) == IF S \subseteq Range(s) THEN s ELSE Append(s, CHOOSE x \in S : TRUE)

SpecOf(keep) ==
  LET digests == [i \in DOMAIN keep.digests |-> KeepDigest(keep.digests[i])]
      tags    == [i \in DOMAIN keep.tags |-> KeepTagged(keep.tags[i])]
  IN [repo     |-> Literal(keep.repo),
      tagged   |-> digests \o tags \o <<DeleteTagged>>,
      untagged |-> digests \o <<DeleteRest>>]

\* Mutant of TakeLine: one rule for each run of lines.
TakeNextLine(keeps, line) ==
  LET last     == {i \in DOMAIN keeps : i = Len(keeps) /\ keeps[i].repo = line.repo}
      Add(k)   == [k EXCEPT !.tags = AppendNew(@, TagsOf(line)), !.digests = AppendNew(@, line.digest)]
      Nothing  == [repo |-> line.repo, tags |-> <<>>, digests |-> <<>>]
  IN IF line.kind # "ours" THEN keeps
     ELSE IF last = {} THEN Append(keeps, Add(Nothing))
     ELSE [i \in DOMAIN keeps |-> IF i \in last THEN Add(keeps[i]) ELSE keeps[i]]

\* A line of this registry adds to what its repository keeps.
TakeLine(keeps, line) ==
  LET known   == {i \in DOMAIN keeps : keeps[i].repo = line.repo}
      Add(k)  == [k EXCEPT !.tags = AppendNew(@, TagsOf(line)), !.digests = AppendNew(@, line.digest)]
      Nothing == [repo |-> line.repo, tags |-> <<>>, digests |-> <<>>]
  IN IF line.kind # "ours" THEN keeps
     ELSE IF known = {} THEN Append(keeps, Add(Nothing))
     ELSE [i \in DOMAIN keeps |-> IF i \in known THEN Add(keeps[i]) ELSE keeps[i]]

\* What the repositories keep after the first n lines, in the order they are
\* first seen.
KeepsOf(list) ==
  LET keeps[n \in 0..Len(list)] == IF n = 0 THEN <<>> ELSE TakeLine(keeps[n - 1], list[n])
  IN keeps

\* KeepRulesFromImageList of a list that can be read: one rule for each
\* repository, keeping what is listed and deleting the rest.
KeepRulesFromImageList(list) ==
  LET keeps == KeepsOf(list)[Len(list)]
  IN [i \in DOMAIN keeps |-> SpecOf(keeps[i])]

Unreadable(list) == \E i \in DOMAIN list : list[i].kind = "bad"

-----------------------------------------------------------------------------
(* runningMatch *)

\* runningRulesFor and runningMatch look for the repository's first rule one
\* by one.
FirstRule(ruleSet, repository) ==
  Least({i \in DOMAIN ruleSet : Matches(ruleSet[i], repository)}, 0)

\* The first rule matching a tag, or an untagged manifest, by tag and digest
\* keeps it; for a tagged manifest, one such tag is enough. Only the first
\* rule of the repository applies.
RunningMatch(ruleSet, repository, digest, tags) ==
  LET i == FirstRule(ruleSet, repository)
      KeptBy(list, found) == found # {} /\ list[Least(found, 0)].keep
  IN /\ i # 0
     /\ LET rule == ruleSet[i]
            By(t) == {j \in DOMAIN rule.tagged : /\ MatchString(rule.tagged[j].tag, t)
                                                 /\ MatchString(rule.tagged[j].digest, digest)}
        IN IF tags # {}
           THEN \E t \in tags : KeptBy(rule.tagged, By(t))
           ELSE KeptBy(rule.untagged,
                       {j \in DOMAIN rule.untagged : MatchString(rule.untagged[j].digest, digest)})
=============================================================================
