----------------------------- MODULE MCDeletion -----------------------------
(***************************************************************************)
(* An instance of the two ways pruneRepository deletes: the manifests it   *)
(* does not keep (DeleteManifests), or the repository when it keeps none   *)
(* (DeleteRepository). A behaviour takes one of them.                      *)
(*                                                                         *)
(* Manifests are numbered in the order they were built: an index holds the *)
(* digests it lists, so it only lists earlier ones, while a referrer named *)
(* by tag (sha256-....sig) may name any other manifest as its subject, a   *)
(* cycle included. Graphs of three manifests are deleted without locks,    *)
(* and with locks those that leave the third one alone.                    *)
(***************************************************************************)
EXTENDS Deletion

CONSTANT t1

NewerListsOlder == {<<m, c>> \in Manifest \X Manifest : c < m}
AnySubject      == {<<m, s>> \in Manifest \X Manifest : s # m}
ManyLocks       == {1} \X {OnManifest, t1} \cup {<<2, OnManifest>>}
WholeLocks      == ManyLocks \cup {<<3, t1>>}

MCInit ==
  /\ whole \in BOOLEAN
  /\ Init
  /\ R!Init
  /\ \/ ~whole /\ rseen = {} /\ seen \subseteq ManyLocks
        /\ (seen = {} \/ (lists[3] = {} /\ subject[3] = None /\ 3 \notin {subject[1], subject[2]}))
     \/ whole /\ seen = {} /\ (\A m \in Manifest : lists[m] = {} /\ subject[m] = None)

MCNext ==
  \/ ~whole /\ Next /\ UNCHANGED <<whole, rvars>>
  \/ whole /\ R!Next /\ UNCHANGED <<whole, vars>>

MCFairness ==
  /\ WF_<<vars, rvars>>(~whole /\ Loop /\ UNCHANGED <<whole, rvars>>)
  /\ \A m \in Manifest : WF_<<vars, rvars>>(~whole /\ Goroutine(m) /\ UNCHANGED <<whole, rvars>>)
  /\ WF_<<vars, rvars>>(whole /\ R!Main /\ UNCHANGED <<whole, vars>>)
  /\ \A m \in Manifest : WF_<<vars, rvars>>(whole /\ R!Goroutine(m) /\ UNCHANGED <<whole, vars>>)

MCSpec == MCInit /\ [][MCNext]_<<vars, whole, rvars>> /\ MCFairness

\* Either call returns, whatever fails and whenever it is interrupted.
DeletionEnds == <>(IF whole THEN rphase \in {"failed", "deleted"} ELSE phase \in {"done", "refused"})
=============================================================================
