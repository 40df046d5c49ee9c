-------------------------- MODULE MCRuleEvaluation --------------------------
(***************************************************************************)
(* Instances of RuleEvaluation for TLC: rule files of repository patterns; *)
(* tagged and untagged lists against three manifests; and platforms.       *)
(***************************************************************************)
EXTENDS RuleEvaluation

CONSTANTS a, b, v, w, amd64, linux

Base == [Unconstraining EXCEPT !.keep = {TRUE}]

Plain == [tags |-> {}, updated |-> 0, owned |-> FALSE, referrer |-> FALSE,
          platforms |-> {<<amd64, linux>>}]

Repo(p) == [repo |-> p, tagged |-> <<>>, untagged |-> <<>>]

SeqsUpTo(n, S) == UNION {[1..k -> S] : k \in 0..n}

\* Literal names, broad patterns and catch-alls in every order.
Files == [
  specs      : SeqsUpTo(3, {Repo(p) : p \in {Literal(a), Literal(b), Other({a}), Other({a, b}), Anything({a, b})}})
               \cup {<<Repo(EmptyText)>>},
  repository : {a, b},
  image      : {[m \in Manifest |-> Plain]}]

\* Entries of a tagged list: releases and the rest, ranked both ways, by age,
\* by digest, by any tag, and what a rule file may not say.
TaggedEntries == {
  [Base EXCEPT !.tag = Literal(v), !.newest = {1}],
  [Base EXCEPT !.tag = Literal(v), !.newest = {-1}, !.keep = {FALSE}],
  [Base EXCEPT !.newest = {MinInt}, !.keep = {FALSE}],
  [Base EXCEPT !.tag = Other({v, w}), !.newest = {2}],
  [Base EXCEPT !.newer = {1}],
  [Base EXCEPT !.older = {1}, !.keep = {FALSE}],
  [Base EXCEPT !.digest = Literal(1), !.keep = {FALSE}],
  [Base EXCEPT !.tag = Literal(w), !.keep = {}],
  [Base EXCEPT !.tag = Anything({v, w}), !.keep = {FALSE}],
  [Base EXCEPT !.newest = {0}],
  [Base EXCEPT !.newer = {0}],
  [Base EXCEPT !.older = {0}, !.keep = {FALSE}]}

Images == {
  [Plain EXCEPT !.tags = {v}],
  [Plain EXCEPT !.tags = {v}, !.updated = 1],
  [Plain EXCEPT !.tags = {v, w}],
  [Plain EXCEPT !.tags = {w}, !.updated = 2],
  [Plain EXCEPT !.tags = {v, w}, !.updated = 2, !.owned = TRUE],
  [Plain EXCEPT !.tags = {v}, !.updated = 2, !.referrer = TRUE]}

TaggedLists == [
  specs      : {<<[repo |-> Literal(a), tagged |-> l, untagged |-> <<>>]>> : l \in SeqsUpTo(2, TaggedEntries)},
  repository : {a},
  image      : [Manifest -> Images]]

UntaggedEntries == {
  [Base EXCEPT !.newest = {1}],
  [Base EXCEPT !.newest = {MinInt}],
  [Base EXCEPT !.older = {1}, !.keep = {FALSE}],
  [Base EXCEPT !.keep = {FALSE}]}

UntaggedLists == [
  specs      : {<<[repo |-> Literal(a), tagged |-> <<>>, untagged |-> l]>> : l \in SeqsUpTo(2, UntaggedEntries)},
  repository : {a},
  image      : [Manifest -> {Plain, [Plain EXCEPT !.updated = 1], [Plain EXCEPT !.owned = TRUE],
                             [Plain EXCEPT !.tags = {v}]}]]

\* Platforms, with an attestation's unknown one; both constraints of a rule
\* must match the same platform.
Platforms == [
  specs      : {<<[repo |-> Literal(a), untagged |-> <<>>,
                   tagged |-> <<[Base EXCEPT !.arch = p, !.os = q, !.newest = n, !.keep = {FALSE}]>>]>> :
                  p, q \in {Nil, Literal(amd64), Literal(linux), Other({amd64, linux, Unknown})}, n \in {{}, {1}}},
  repository : {a},
  image      : [Manifest -> {[Plain EXCEPT !.tags = {v}, !.platforms = ps] :
                               ps \in {{}, {<<amd64, linux>>}, {<<Unknown, Unknown>>},
                                       {<<amd64, Unknown>>, <<linux, linux>>}}}]]

AnyInput == Files \cup TaggedLists \cup UntaggedLists \cup Platforms
=============================================================================
