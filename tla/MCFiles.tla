------------------------------ MODULE MCFiles ------------------------------
(***************************************************************************)
(* Files, for TLC: a behaviour is one of a listing and of files written.   *)
(***************************************************************************)
EXTENDS Files

VARIABLE files  \* whether files are written

MCInit ==
  /\ files \in BOOLEAN
  /\ Init /\ (files => ~ignoreMissing)
  /\ C!Init /\ (~files => path = C!Absent /\ use = "file")

MCNext ==
  \/ ~files /\ Next /\ UNCHANGED <<files, fvars>>
  \/ files /\ C!Next /\ UNCHANGED <<files, vars>>

MCSpec == MCInit /\ [][MCNext]_<<files, vars, fvars>>
=============================================================================
