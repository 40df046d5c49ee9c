----------------------------- MODULE MCRequests -----------------------------
(***************************************************************************)
(* Requests, for TLC: a behaviour is one of the three.                     *)
(***************************************************************************)
EXTENDS Requests

VARIABLE part

\* The limits here lift in time.
ASSUME LimitLiftsEarly == T!LiftsEarly

MCInit ==
  /\ part \in {"throttle", "tokens", "acr"}
  /\ K!Init /\ (part # "tokens" => \A r, s \in Request : ctx[r] = ctx[s])
  /\ T!Init /\ (part # "throttle" => guided = {})
  /\ A!Init

MCNext ==
  \/ part = "tokens" /\ K!Next /\ UNCHANGED <<part, tvars, avars>>
  \/ part = "throttle" /\ T!Next /\ UNCHANGED <<part, kvars, avars>>
  \/ part = "acr" /\ A!Next /\ UNCHANGED <<part, kvars, tvars>>

MCSpec == MCInit /\ [][MCNext]_<<part, kvars, tvars, avars>>
=============================================================================
