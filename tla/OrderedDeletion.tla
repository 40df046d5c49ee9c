--------------------------- MODULE OrderedDeletion ---------------------------
(***************************************************************************)
(* What DeleteManifests promises its caller, whatever the registry answers *)
(* and whenever the user interrupts it: a manifest disappears only after   *)
(* everything that must go before it, only what disappeared is reported as *)
(* deleted, and a call without an error deleted everything.                *)
(***************************************************************************)
CONSTANT Manifest

VARIABLES
  before,   \* before[m]: the manifests that go before m
  gone,     \* the manifests the registry no longer has
  deleted,  \* the manifests reported as deleted
  outcome   \* "running", or what the call returned

vars == <<before, gone, deleted, outcome>>

Init ==
  /\ before \in [Manifest -> SUBSET Manifest]
  /\ gone = {}
  /\ deleted = {}
  /\ outcome = "running"

\* A deletion takes effect, and may or may not be confirmed.
Remove(m) ==
  /\ outcome = "running"
  /\ m \notin gone /\ before[m] \subseteq gone
  /\ gone' = gone \cup {m}
  /\ deleted' \in {deleted, deleted \cup {m}}
  /\ UNCHANGED <<before, outcome>>

Return ==
  /\ outcome = "running"
  /\ \/ outcome' = "failed"
     \/ deleted = Manifest /\ outcome' = "ok"
  /\ UNCHANGED <<before, gone, deleted>>

Next == (\E m \in Manifest : Remove(m)) \/ Return

Spec == Init /\ [][Next]_vars
=============================================================================
