------------------------------- MODULE MCRules -------------------------------
(***************************************************************************)
(* Rule files and image lists, for TLC: a behaviour either decides a       *)
(* repository (MCRuleEvaluation) or collects the registry's statistics,    *)
(* with two repositories and two manifests that share a layer.             *)
(***************************************************************************)
EXTENDS MCRuleEvaluation, RuleUse

CONSTANTS x, y, layer

Ours(r, ts, ds) == [kind |-> "ours", repo |-> r, tag |-> ts, digest |-> ds]
NoImage(k)      == [kind |-> k, repo |-> a, tag |-> {v}, digest |-> {}]

Lines == {Ours(a, {w}, {}), Ours(a, {}, {x}), Ours(b, {}, {}), Ours(b, {w}, {x}),
          NoImage("other"), NoImage("bad")}

Unsorted == <<Ours(a, {w}, {}), Ours(b, {}, {}), Ours(a, {v}, {y})>>

Layers  == x :> <<layer>> @@ y :> <<layer, layer>>
Bytes   == x :> 1 @@ y :> 2 @@ layer :> 4
AnyTags == {{}, {w}, {v, w}}
AnyList == SeqsUpTo(2, Lines) \cup {Unsorted}

scan == <<list, present, gaps, tags, step, reached, rules, todo, seen, stats, denied, skipped, result>>

MCInit ==
  \/ /\ Init
     /\ list = <<>> /\ present = <<>> /\ gaps = <<>> /\ tags = <<>>
     /\ step = "done" /\ reached = 0 /\ rules = <<>> /\ todo = {} /\ seen = {} /\ stats = <<>>
     /\ denied = {} /\ skipped = {} /\ result = <<>>
  \/ /\ Stats!Init
     /\ specs = <<>> /\ repository = a /\ image = <<>>
     /\ stage = "ignored" /\ ruleSet = <<>> /\ warned = {} /\ at = 0 /\ ranks = <<>> /\ kept = {}

MCNext ==
  \/ Next /\ UNCHANGED scan
  \/ Stats!Next /\ UNCHANGED vars

MCSpec == MCInit /\ [][MCNext]_<<vars, scan>>
=============================================================================
