------------------------- MODULE MCPruneRepository -------------------------
(* An instance of PruneRepository for TLC. *)
EXTENDS PruneRepository

SharedChild == {<<2, 1>>, <<3, 1>>}

\* GitHub's registry, and Azure's with a rule that missing manifests fail.
Registries == {[numbered |-> TRUE, ignoreMissing |-> TRUE], [numbered |-> FALSE, ignoreMissing |-> FALSE]}
=============================================================================
