------------------------- MODULE ReviewedPlan_proofs -------------------------
(***************************************************************************)
(* What the preparation and the execution of a reviewed plan promise, for  *)
(* any number of repositories, manifests, callers and writes of others.    *)
(* RunInv says how the run that prepares the plan ends, OnceInv that one   *)
(* caller at most executes it, FreshInv what has been seen unchanged while *)
(* that caller goes through the repositories.                              *)
(***************************************************************************)
EXTENDS ReviewedPlan, FiniteSetTheorems, WellFoundedInduction, TLAPS

Hard == {"other", "canceled"}

RunInv ==
  /\ busy => result = "pruning"
  /\ (\E r \in Repository : failed[r] \cap Hard # {}) => result = "failed"
  /\ mode # "preview" => Affected = {}

\* The callers that execute the plan, or have.
Executing == {c \in Caller : step[c] \in {"verifying", "rechecking", "deleting", "ok"} \/ deletedBy[c] # {}}

OnceInv ==
  /\ \A c \in Caller : step[c] # "idle" => mode = "preview" /\ result = "ok" /\ used
  /\ \A c \in Executing : step[c] # "idle"
  /\ \A c, d \in Executing : c = d

FreshInv ==
  /\ \A r \in Repository : inspected[r] <= version[r] /\ (r \in stale => inspected[r] < version[r])
  /\ stale # {} => result = "ok" /\ mode = "preview"
  /\ stale \subseteq Affected
  /\ \A c \in Caller :
       /\ step[c] \in {"verifying", "rechecking"} => turn[c] \in Affected \cup {Repositories + 1}
       /\ step[c] = "verifying" => \A r \in Affected : r < turn[c] => r \notin stale
       /\ step[c] \in {"rechecking", "deleting", "ok"} => stale = {}
       /\ step[c] = "deleting" => turn[c] \in late \/ inspected[turn[c]] = version[turn[c]]
  /\ mode = "preview" /\ Lost # {} => used /\ stale = {}

\* So far nothing failed.
Untroubled == result # "failed" /\ denied = {} /\ skipped = {}

\* The repositories gone through that hold nothing any more.
Emptied == {r \in Repository : r < at /\ stored[r] = {}}

CountInv ==
  /\ total["repositories"] = at - 1
  /\ total["seen"] = total["kept"] + total["deleted"]
  /\ mode = "live" =>
       /\ total["deleted"] <= Cardinality(Lost)
       /\ Untroubled => total["deleted"] = Cardinality(Lost)
       /\ total["repositories"] - total["keptRepositories"] <= Cardinality(Emptied)
  /\ mode = "preview" =>
       /\ \A r \in Repository : r >= at => plan[r] = {}
       /\ result # "ok" => \A r \in Repository : stored[r] = Manifest
       /\ Untroubled => /\ total["skippedRepositories"] = 0
                        /\ total["seen"] = (at - 1) * Cardinality(Manifest)
                        /\ total["deleted"] = Cardinality(Planned)
  /\ result = "ok" => at = Repositories + 1 /\ denied = {} /\ skipped = {}

ReportInv ==
  /\ \A c, d \in Caller : turn[c] # 0 /\ turn[d] # 0 => c = d
  /\ mode = "preview" /\ (\A c \in Caller : turn[c] = 0) => Lost = {}
  /\ \A c \in Caller :
       /\ step[c] = "idle" => turn[c] = 0
       /\ turn[c] = 0 => step[c] \in {"idle", "failed"} /\ deletedBy[c] = {}
       /\ step[c] = "verifying" => Lost = {} /\ deletedBy[c] = {}
       /\ step[c] \in {"rechecking", "deleting"} =>
            deletedBy[c] = {rm \in Planned : rm[1] < turn[c]} /\ Lost = deletedBy[c]
       /\ step[c] = "ok" => deletedBy[c] = Planned /\ Lost = Planned
       /\ step[c] = "failed" => deletedBy[c] \subseteq Lost
       /\ step[c] = "failed" /\ turn[c] # 0 => \A rm \in Lost : rm[1] <= turn[c]

IInv == PlanTypeOK /\ RunInv /\ OnceInv /\ FreshInv

-----------------------------------------------------------------------------
(* The run that prepares the plan *)

\* What a repository contributes to the counts are natural numbers, if no more
\* was deleted than seen.
LEMMA CountsNatural ==
  ASSUME NEW seen \in Nat, NEW deleted \in Nat, deleted <= seen, NEW whole, NEW failure
  PROVE  Counts(seen, deleted, whole, failure) \in [Counters -> Nat]
<1> DEFINE counts == Counts(seen, deleted, whole, failure)
<1>1. seen - deleted \in Nat
  OBVIOUS
<1>2. counts = [c \in Counters |-> counts[c]]
  BY DEF Counts, Counters
<1>3. \A c \in Counters : counts[c] \in Nat
  BY <1>1 DEF Counts, Counters
<1> QED
  BY <1>2, <1>3

\* Subsets of a repository are counted, and hold no more than it does.
LEMMA Counting ==
  ASSUME NEW S \in SUBSET Manifest, NEW T \in SUBSET S
  PROVE  /\ Cardinality(S) \in Nat /\ Cardinality(T) \in Nat
         /\ Cardinality(T) <= Cardinality(S)
<1>1. IsFiniteSet(S)
  BY ManifestFinite, FS_Subset
<1> QED
  BY <1>1, FS_Subset, FS_CardinalityType

\* What became of a repository is recorded, and a failure that is neither a
\* denial nor a repository unfit to be pruned ends the run.
LEMMA ConcludeKeeps ==
  ASSUME TypeOK, RunInv, busy, NEW errs \in SUBSET Kinds, NEW stats \in [Counters -> Nat],
         "unsafe" \notin errs \/ errs \cap Hard = {},
         Conclude(errs, stats)
  PROVE  /\ at' \in 1..Repositories + 1 /\ busy' = FALSE
         /\ failed' \in [Repository -> SUBSET Kinds]
         /\ pruned' \subseteq Repository /\ denied' \subseteq Repository /\ skipped' \subseteq Repository
         /\ total' \in [Counters -> Nat]
         /\ result' \in {"pruning", "failed"} /\ result = "pruning"
         /\ (\E r \in Repository : failed'[r] \cap Hard # {}) => result' = "failed"
<1>1. result = "pruning" /\ at \in Repository /\ at <= Repositories
  BY RepositoriesNatural DEF RunInv, TypeOK, Repository
<1>2. /\ failed' = [failed EXCEPT ![at] = errs] /\ busy' = FALSE /\ at' = at + 1
      /\ pruned' = IF errs = {} THEN pruned \cup {at} ELSE pruned
      /\ denied' = IF IsDenied(errs) THEN denied \cup {at} ELSE denied
      /\ skipped' = IF ~IsDenied(errs) /\ Skippable(errs) THEN skipped \cup {at} ELSE skipped
      /\ total' = Plus(total, stats)
      /\ result' \in {result, "failed"}
      /\ errs # {} /\ ~IsDenied(errs) /\ ~Skippable(errs) => result' = "failed"
  BY DEF Conclude
<1>3. at' \in 1..Repositories + 1
  BY <1>1, <1>2, RepositoriesNatural DEF Repository
<1>4. failed' \in [Repository -> SUBSET Kinds] /\ failed'[at] = errs
  BY <1>1, <1>2 DEF TypeOK
<1>5. pruned' \subseteq Repository /\ denied' \subseteq Repository /\ skipped' \subseteq Repository
  BY <1>1, <1>2 DEF TypeOK
<1>6. total' \in [Counters -> Nat]
  BY <1>2 DEF Plus, TypeOK
<1>7. ASSUME NEW r \in Repository, failed'[r] \cap Hard # {} PROVE result' = "failed"
  <2>1. CASE r = at
    <3>1. errs # {} /\ ~IsDenied(errs) /\ ~Skippable(errs)
      BY <1>4, <1>7, <2>1 DEF IsDenied, Skippable, Hard
    <3> QED
      BY <1>2, <3>1
  <2>2. CASE r # at
    BY <1>1, <1>2, <1>7, <2>2 DEF RunInv, TypeOK
  <2> QED
    BY <2>1, <2>2
<1> QED
  BY <1>1, <1>2, <1>3, <1>4, <1>5, <1>6, <1>7

\* What a step of the run does, and what an interruption does to it: a run that
\* has returned does nothing, and one that only previews deletes nothing.
LEMMA RunStep ==
  ASSUME TypeOK, RunInv, Prune \/ Interrupt
  PROVE  /\ TypeOK' /\ RunInv'
         /\ result \in {"listing", "pruning"} /\ mode' = mode
         /\ mode = "preview" => stored' = stored
<1> USE DEF TypeOK, RunInv
<1>1. ASSUME NEW errs \in SUBSET Kinds, NEW seen \in Nat, NEW deleted \in Nat, deleted <= seen,
             NEW whole, NEW failure, busy, Conclude(errs, Counts(seen, deleted, whole, failure)),
             "unsafe" \notin errs \/ errs \cap Hard = {},
             mode' = mode, cancelled' = cancelled,
             stored' \in [Repository -> SUBSET Manifest], mode = "preview" => stored' = stored,
             plan' \in [Repository -> SUBSET Manifest], mode # "preview" => plan' = plan
      PROVE  /\ TypeOK' /\ RunInv'
             /\ result \in {"listing", "pruning"} /\ mode' = mode
             /\ mode = "preview" => stored' = stored
  <2>1. Counts(seen, deleted, whole, failure) \in [Counters -> Nat]
    BY <1>1, CountsNatural
  <2>2. /\ at' \in 1..Repositories + 1 /\ busy' = FALSE
        /\ failed' \in [Repository -> SUBSET Kinds]
        /\ pruned' \subseteq Repository /\ denied' \subseteq Repository /\ skipped' \subseteq Repository
        /\ total' \in [Counters -> Nat]
        /\ result' \in {"pruning", "failed"} /\ result = "pruning"
        /\ (\E r \in Repository : failed'[r] \cap Hard # {}) => result' = "failed"
    BY <1>1, <2>1, ConcludeKeeps
  <2>3. busy' \in BOOLEAN /\ ~busy'
    BY <2>2
  <2>4. TypeOK'
    BY <1>1, <2>2, <2>3
  <2>5. RunInv'
    BY <1>1, <2>2, <2>3 DEF Affected
  <2> QED
    BY <1>1, <2>2, <2>4, <2>5
<1>2. CASE List
  BY <1>2 DEF List, Affected
<1>3. CASE Start
  <2>1. result = "pruning" /\ at <= Repositories
    BY <1>3 DEF Start
  <2>2. busy' \in BOOLEAN /\ (busy' => result' = "pruning") /\ result' \in {"pruning", "failed"}
    BY <1>3, <2>1 DEF Start
  <2>3. (\E r \in Repository : failed[r] \cap Hard # {}) => result' = "failed"
    BY <2>1
  <2>4. UNCHANGED <<mode, stored, at, cancelled, failed, pruned, denied, skipped, total, plan>>
    BY <1>3 DEF Start
  <2>5. TypeOK'
    BY <2>1, <2>2, <2>4
  <2>6. RunInv'
    BY <2>1, <2>2, <2>3, <2>4 DEF Affected
  <2> QED
    BY <2>1, <2>4, <2>5, <2>6
<1>4. CASE Uninspected
  <2>1. /\ busy /\ UNCHANGED <<mode, stored, cancelled, plan>>
        /\ \E kind \in Kinds : Conclude({kind}, Counts(0, 0, FALSE, TRUE))
    BY <1>4 DEF Uninspected
  <2>2. PICK kind \in Kinds : Conclude({kind}, Counts(0, 0, FALSE, TRUE))
    BY <2>1
  <2>3. {kind} \in SUBSET Kinds /\ ("unsafe" \notin {kind} \/ {kind} \cap Hard = {}) /\ 0 \in Nat /\ 0 <= 0
    BY DEF Hard
  <2>4. /\ stored' \in [Repository -> SUBSET Manifest] /\ stored' = stored
        /\ plan' \in [Repository -> SUBSET Manifest] /\ plan' = plan
        /\ mode' = mode /\ cancelled' = cancelled /\ busy
    BY <2>1
  <2> HIDE DEF TypeOK, RunInv
  <2> QED
    BY <1>1, <2>2, <2>3, <2>4
<1>5. CASE LeftAlone
  <2>1. PICK seen \in {0, Cardinality(stored[at])} : Conclude({}, Counts(seen, 0, FALSE, TRUE))
    BY <1>5 DEF LeftAlone
  <2>2. busy /\ UNCHANGED <<mode, stored, cancelled, plan>> /\ seen \in Nat
    <3>1. busy /\ at \in Repository
      BY <1>5, RepositoriesNatural DEF LeftAlone, Repository
    <3> QED
      BY <1>5, <3>1, Counting DEF LeftAlone
  <2>3. {} \in SUBSET Kinds /\ "unsafe" \notin {} /\ 0 \in Nat /\ 0 <= seen
    BY <2>2
  <2>4. /\ stored' \in [Repository -> SUBSET Manifest] /\ stored' = stored
        /\ plan' \in [Repository -> SUBSET Manifest] /\ plan' = plan
        /\ mode' = mode /\ cancelled' = cancelled /\ busy
    BY <2>2
  <2> HIDE DEF TypeOK, RunInv
  <2> QED
    BY <1>1, <2>1, <2>2, <2>3, <2>4
<1>6. ASSUME NEW chosen \in SUBSET stored[at], Preview(chosen) \/ Delete(chosen) \/ DeleteFailing(chosen), busy
      PROVE  /\ TypeOK' /\ RunInv'
             /\ result \in {"listing", "pruning"} /\ mode' = mode
             /\ mode = "preview" => stored' = stored
  <2>1. at \in Repository /\ stored[at] \in SUBSET Manifest
    BY <1>6, RepositoriesNatural DEF Repository
  <2>2. \A T \in SUBSET stored[at] : Cardinality(T) \in Nat /\ Cardinality(T) <= Cardinality(stored[at])
    BY <2>1, Counting
  <2>3. /\ Cardinality(stored[at]) \in Nat /\ 0 <= Cardinality(stored[at])
        /\ {} \in SUBSET Kinds /\ "unsafe" \notin {}
    BY <2>1, Counting
  <2>4. \A T \in SUBSET stored[at] : [stored EXCEPT ![at] = @ \ T] \in [Repository -> SUBSET Manifest]
    BY <2>1
  <2>5. CASE Preview(chosen)
    <3>1. /\ Conclude({}, Counts(Cardinality(stored[at]), Cardinality(chosen), chosen = stored[at], FALSE))
          /\ UNCHANGED <<mode, stored, cancelled>>
          /\ plan' \in [Repository -> SUBSET Manifest] /\ (mode # "preview" => plan' = plan)
      BY <2>1, <2>5 DEF Preview
    <3> QED
      BY <1>1, <1>6, <2>2, <2>3, <3>1
  <2>6. CASE Delete(chosen)
    <3>1. /\ Conclude({}, Counts(Cardinality(stored[at]), Cardinality(chosen), chosen = stored[at], FALSE))
          /\ UNCHANGED <<mode, plan, cancelled>> /\ mode # "preview"
          /\ stored' \in [Repository -> SUBSET Manifest]
      BY <2>4, <2>6 DEF Delete
    <3> QED
      BY <1>1, <1>6, <2>2, <2>3, <3>1
  <2>7. CASE DeleteFailing(chosen)
    <3>1. /\ UNCHANGED <<mode, plan, cancelled>> /\ mode # "preview"
          /\ stored' \in [Repository -> SUBSET Manifest]
      BY <2>4, <2>7 DEF DeleteFailing
    <3>2. PICK errs \in SUBSET Kinds :
            /\ "unsafe" \notin errs
            /\ \E confirmed \in SUBSET stored[at] :
                 \/ Conclude(errs, Counts(Cardinality(stored[at]), 0, FALSE, TRUE))
                 \/ Conclude(errs, Counts(Cardinality(stored[at]), Cardinality(confirmed), FALSE, TRUE))
      BY <2>7 DEF DeleteFailing
    <3> QED
      BY <1>1, <1>6, <2>2, <2>3, <3>1, <3>2
  <2> QED
    BY <1>6, <2>5, <2>6, <2>7
<1>7. CASE Return
  BY <1>7 DEF Return, Affected
<1>8. CASE Interrupt
  <2>1. cancelled' = TRUE /\ result \in {"listing", "pruning"}
        /\ UNCHANGED <<mode, stored, at, busy, failed, pruned, denied, skipped, total, plan, result>>
    BY <1>8 DEF Interrupt
  <2> QED
    BY <2>1 DEF Affected
<1> QED
  BY <1>2, <1>3, <1>4, <1>5, <1>6, <1>7, <1>8 DEF Prune

-----------------------------------------------------------------------------
(* The plan and its execution *)

\* Some number of a set of numbers is the least.
LEMMA LeastNumber ==
  ASSUME NEW T \in SUBSET Nat, T # {}
  PROVE  \E x \in T : \A y \in T : x <= y
<1> DEFINE R == {ss \in Nat \X Nat : ss[1] < ss[2]}
<1>1. IsWellFoundedOn(R, Nat)
  BY NatLessThanWellFounded DEF OpToRel
<1>2. PICK x \in T : \A y \in T : <<y, x>> \notin R
  <2> HIDE DEF R
  <2> QED
    BY <1>1, WFMin
<1>3. \A y \in T : ~(y < x)
  BY <1>2
<1> QED
  BY <1>3

\* The next repository of the plan is the first of those that follow.
LEMMA AfterIsNext ==
  ASSUME NEW r \in 0..Repositories + 1
  PROVE  /\ After(r) \in Affected \cup {Repositories + 1}
         /\ After(r) \in 0..Repositories + 1
         /\ \A n \in Affected : n > r => After(r) <= n
<1> DEFINE S == {n \in Affected : n > r} \cup {Repositories + 1}
<1>1. S \subseteq 0..Repositories + 1 /\ S # {}
  BY RepositoriesNatural DEF Affected, Repository
<1>2. PICK x \in S : \A y \in S : x <= y
  <2>1. S \in SUBSET Nat
    BY <1>1, RepositoriesNatural
  <2> HIDE DEF S
  <2> QED
    BY <1>1, <2>1, LeastNumber
<1>3. After(r) \in S /\ \A y \in S : After(r) <= y
  BY <1>2 DEF After, Min
<1> QED
  BY <1>1, <1>3

\* While the plan is prepared nobody executes it, and what was inspected of a
\* repository is what it was at some point since.
LEMMA PrepareStep == IInv /\ (Prepare \/ SeeWrite) => IInv'
<1> SUFFICES ASSUME IInv, Prepare \/ SeeWrite PROVE IInv'
  OBVIOUS
<1> USE DEF IInv, execution, others
<1>1. /\ TypeOK' /\ RunInv' /\ result # "ok" /\ mode' = mode
      /\ mode = "preview" => stored' = stored
  <2>1. CASE Prepare
    BY <2>1, RunStep DEF Prepare, PlanTypeOK
  <2>2. CASE SeeWrite
    BY <2>2 DEF SeeWrite, vars, PlanTypeOK, TypeOK, RunInv, Affected
  <2> QED
    BY <2>1, <2>2
<1>2. UNCHANGED <<used, step, turn, deletedBy, version, stale, late, interrupted>>
  BY DEF Prepare, SeeWrite
<1>3. /\ inspected' \in [Repository -> Nat]
      /\ \A r \in Repository : inspected'[r] \in {inspected[r], version[r]}
  <2>1. inspected' = inspected \/ inspected' = [inspected EXCEPT ![at] = version[at]]
    BY DEF Prepare, SeeWrite
  <2> QED
    BY <2>1 DEF PlanTypeOK
<1>4. stale = {} /\ \A c \in Caller : step[c] = "idle"
  BY <1>1 DEF OnceInv, FreshInv
<1>5. PlanTypeOK'
  BY <1>1, <1>2, <1>3, <1>4 DEF PlanTypeOK
<1>6. OnceInv'
  BY <1>2, <1>4 DEF OnceInv, Executing
<1>7. FreshInv'
  <2>1. \A r \in Repository : inspected'[r] <= version[r]
    BY <1>3 DEF FreshInv, PlanTypeOK
  <2>2. mode = "preview" => Lost' = Lost
    BY <1>1 DEF Lost
  <2> QED
    BY <1>1, <1>2, <1>4, <2>1, <2>2 DEF FreshInv
<1> QED
  BY <1>1, <1>5, <1>6, <1>7

\* Where a caller goes next, nothing else of the execution changes.
Moves(c, s, r) ==
  /\ Goto(c, s, r)
  /\ UNCHANGED <<vars, used, deletedBy, others, inspected, interrupted>>

\* A caller goes on, and what it relies on holds where it gets to.
LEMMA MoveKeeps ==
  ASSUME IInv, NEW c \in Caller, NEW s \in Steps, NEW r \in 0..Repositories + 1,
         Moves(c, s, r), step[c] # "idle",
         s # "idle" /\ (s \notin {"failed"} => c \in Executing),
         s \in {"verifying", "rechecking"} => r \in Affected \cup {Repositories + 1},
         s = "verifying" => \A n \in Affected : n < r => n \notin stale,
         s \in {"rechecking", "deleting", "ok"} => stale = {},
         s = "deleting" => r \in Affected /\ (r \in late \/ inspected[r] = version[r])
  PROVE  IInv'
<1> USE DEF IInv, Moves, vars, others
<1>1. /\ step' = [step EXCEPT ![c] = s] /\ turn' = [turn EXCEPT ![c] = r]
      /\ step' \in [Caller -> Steps] /\ turn' \in [Caller -> 0..Repositories + 1]
      /\ step'[c] = s /\ turn'[c] = r
      /\ \A d \in Caller \ {c} : step'[d] = step[d] /\ turn'[d] = turn[d]
  BY DEF Goto, PlanTypeOK
<1>2. PlanTypeOK'
  BY <1>1 DEF PlanTypeOK, TypeOK, Affected
<1>3. RunInv'
  BY DEF RunInv, Affected
<1>4. OnceInv'
  <2>1. Executing' \subseteq Executing
    BY <1>1 DEF Executing
  <2> QED
    BY <1>1, <2>1 DEF OnceInv
<1>5. FreshInv'
  <2>1. Lost' = Lost /\ Affected' = Affected
    BY DEF Lost, Affected
  <2> QED
    BY <1>1, <2>1 DEF FreshInv
<1> QED
  BY <1>2, <1>3, <1>4, <1>5

\* The steps of an execution.
LEMMA ExecuteStep ==
  ASSUME IInv, NEW c \in Caller, Execute(c)
  PROVE  IInv'
<1>1. /\ c \in Executing => step[c] # "idle"
      /\ step[c] # "idle" => mode = "preview" /\ result = "ok" /\ used
      /\ turn[c] \in 0..Repositories + 1
      /\ 0 \in 0..Repositories + 1 /\ Repositories + 1 \in 0..Repositories + 1
  BY RepositoriesNatural DEF IInv, OnceInv, PlanTypeOK
<1>2. CASE Begin(c)
  <2>1. /\ mode = "preview" /\ result = "ok" /\ step[c] = "idle" /\ used' = TRUE
        /\ UNCHANGED <<vars, deletedBy, others, inspected, interrupted>>
        /\ IF used THEN Goto(c, "failed", 0) ELSE Goto(c, "verifying", After(0))
    BY <1>2 DEF Begin
  <2>2. PICK s \in {"failed", "verifying"}, r \in 0..Repositories + 1 :
          /\ step' = [step EXCEPT ![c] = s] /\ turn' = [turn EXCEPT ![c] = r]
          /\ s = "verifying" => ~used /\ r = After(0)
    BY <1>1, <2>1, AfterIsNext DEF Goto
  <2>3. /\ step' \in [Caller -> Steps] /\ turn' \in [Caller -> 0..Repositories + 1]
        /\ step'[c] = s /\ turn'[c] = r
        /\ \A d \in Caller \ {c} : step'[d] = step[d] /\ turn'[d] = turn[d]
    BY <2>2 DEF IInv, PlanTypeOK, Steps
  <2>4. used' \in BOOLEAN
    BY <2>1
  <2>5. PlanTypeOK'
    BY <2>1, <2>3, <2>4, <2>2 DEF IInv, PlanTypeOK, TypeOK, vars, others, Affected
  <2>6. RunInv'
    BY <2>1 DEF IInv, RunInv, vars, Affected
  <2>7. ~used => Executing' \subseteq {c}
    BY <2>1, <2>3 DEF IInv, OnceInv, Executing
  <2>8. used => Executing' \subseteq Executing
    BY <2>1, <2>2, <2>3 DEF Executing
  <2>9. OnceInv'
    BY <2>1, <2>2, <2>3, <2>7, <2>8 DEF IInv, OnceInv, vars
  <2>10. FreshInv'
    <3>1. Lost' = Lost /\ Affected' = Affected
      BY <2>1 DEF Lost, Affected, vars
    <3>3. s = "verifying" => r \in Affected \cup {Repositories + 1}
      BY <1>1, <2>2, AfterIsNext
    <3>2. s = "verifying" => \A n \in Affected : ~(n < r)
      <4>1. \A n \in Affected : n > 0 /\ n \in Nat
        BY RepositoriesNatural DEF Affected, Repository
      <4>2. \A n \in Affected : n > 0 => After(0) <= n
        BY <1>1, AfterIsNext
      <4>3. r \in Nat
        BY RepositoriesNatural
      <4> QED
        BY <2>2, <4>1, <4>2, <4>3
    <3> QED
      BY <2>1, <2>2, <2>3, <3>1, <3>2, <3>3 DEF IInv, FreshInv, vars, others
  <2> QED
    BY <2>5, <2>6, <2>9, <2>10 DEF IInv
<1>3. CASE Verify(c)
  <2>1. step[c] = "verifying" /\ c \in Executing
    BY <1>3 DEF Verify, Executing
  <2>2. CASE turn[c] > Repositories /\ Moves(c, "rechecking", After(0))
    <3>1. \A n \in Affected : n < turn[c]
      BY <1>1, <2>2, RepositoriesNatural DEF Affected, Repository
    <3>2. stale = {}
      BY <2>1, <3>1 DEF IInv, FreshInv
    <3> QED
      BY <1>1, <2>1, <2>2, <3>2, AfterIsNext, MoveKeeps DEF Steps
  <2>3. CASE turn[c] <= Repositories /\ Unchanged(c) /\ Moves(c, "verifying", After(turn[c]))
    <3>1. \A n \in Affected : n < After(turn[c]) => n \notin stale
      <4>1. ASSUME NEW n \in Affected, n < After(turn[c]) PROVE n <= turn[c]
        <5>1. n > turn[c] => After(turn[c]) <= n
          BY <1>1, AfterIsNext
        <5>2. n \in Nat /\ turn[c] \in Nat /\ After(turn[c]) \in Nat
          BY <1>1, AfterIsNext, RepositoriesNatural DEF Affected, Repository
        <5> QED
          BY <4>1, <5>1, <5>2
      <4>2. turn[c] \in Repository => turn[c] \notin stale
        BY <2>3 DEF Unchanged, IInv, FreshInv, PlanTypeOK
      <4>3. \A n \in Affected : n < turn[c] => n \notin stale
        BY <2>1 DEF IInv, FreshInv
      <4>4. \A n \in Affected : n \in Nat /\ n \in Repository /\ turn[c] \in Nat
        BY <1>1, RepositoriesNatural DEF Affected, Repository
      <4> QED
        BY <4>1, <4>2, <4>3, <4>4
    <3> QED
      BY <1>1, <2>1, <2>3, <3>1, AfterIsNext, MoveKeeps DEF Steps
  <2>4. CASE Moves(c, "failed", turn[c])
    BY <1>1, <2>1, <2>4, MoveKeeps DEF Steps
  <2> QED
    BY <1>3, <2>2, <2>3, <2>4 DEF Verify, Moves
<1>4. CASE Recheck(c)
  <2>1. step[c] = "rechecking" /\ c \in Executing /\ stale = {}
    BY <1>4 DEF Recheck, Executing, IInv, FreshInv
  <2>2. CASE \E s \in {"ok", "failed"} : Moves(c, s, turn[c])
    BY <1>1, <2>1, <2>2, MoveKeeps DEF Steps
  <2>3. CASE turn[c] <= Repositories /\ Unchanged(c) /\ Moves(c, "deleting", turn[c])
    <3>1. turn[c] \in Affected /\ inspected[turn[c]] = version[turn[c]]
      BY <1>1, <2>1, <2>3, RepositoriesNatural DEF Unchanged, IInv, FreshInv
    <3> QED
      BY <1>1, <2>1, <2>3, <3>1, MoveKeeps DEF Steps
  <2> QED
    BY <1>4, <2>2, <2>3 DEF Recheck, Moves
<1>5. CASE Remove(c)
  <2>1. /\ step[c] = "deleting" /\ c \in Executing /\ turn[c] \in Affected /\ stale = {}
        /\ mode = "preview" /\ result = "ok" /\ used
    BY <1>1, <1>5 DEF Remove, Executing, IInv, FreshInv, PlanTypeOK
  <2>2. /\ UNCHANGED <<mode, at, busy, cancelled, failed, pruned, denied, skipped, total, plan, result>>
        /\ UNCHANGED <<used, version, stale, late, inspected, interrupted>>
    BY <1>5 DEF Remove, others
  <2>3. PICK s \in {"rechecking", "failed"}, r \in 0..Repositories + 1,
             gone \in SUBSET plan[turn[c]], confirmed \in SUBSET plan[turn[c]] :
          /\ step' = [step EXCEPT ![c] = s] /\ turn' = [turn EXCEPT ![c] = r]
          /\ stored' = [stored EXCEPT ![turn[c]] = @ \ gone]
          /\ deletedBy' = [deletedBy EXCEPT ![c] = @ \cup ({turn[c]} \X confirmed)]
          /\ s = "rechecking" => r \in Affected \cup {Repositories + 1}
    <3>1. CASE /\ stored' = [stored EXCEPT ![turn[c]] = @ \ plan[turn[c]]]
               /\ deletedBy' = [deletedBy EXCEPT ![c] = @ \cup Reviewed(turn[c])]
               /\ Goto(c, "rechecking", After(turn[c]))
      BY <1>1, <3>1, AfterIsNext DEF Goto, Reviewed
    <3>2. CASE \E gone \in SUBSET plan[turn[c]] : \E confirmed \in SUBSET gone :
                 /\ stored' = [stored EXCEPT ![turn[c]] = @ \ gone]
                 /\ deletedBy' = [deletedBy EXCEPT ![c] = @ \cup ({turn[c]} \X confirmed)]
                 /\ Goto(c, "failed", turn[c])
      BY <1>1, <3>2 DEF Goto
    <3> QED
      BY <1>5, <3>1, <3>2 DEF Remove
  <2>4. /\ step' \in [Caller -> Steps] /\ turn' \in [Caller -> 0..Repositories + 1]
        /\ step'[c] = s /\ turn'[c] = r
        /\ \A d \in Caller \ {c} : step'[d] = step[d] /\ turn'[d] = turn[d]
    BY <2>3 DEF IInv, PlanTypeOK, Steps
  <2>5. stored' \in [Repository -> SUBSET Manifest]
    BY <2>3 DEF IInv, PlanTypeOK, TypeOK
  <2>6. /\ deletedBy' \in [Caller -> SUBSET (Repository \X Manifest)]
        /\ \A d \in Caller : d # c => deletedBy'[d] = deletedBy[d]
    <3>1. turn[c] \in Repository /\ plan[turn[c]] \subseteq Manifest
      BY <2>1 DEF Affected, IInv, PlanTypeOK, TypeOK
    <3> QED
      BY <2>3, <3>1 DEF IInv, PlanTypeOK
  <2>7. PlanTypeOK'
    BY <2>2, <2>3, <2>4, <2>5, <2>6 DEF IInv, PlanTypeOK, TypeOK, Affected
  <2>8. RunInv'
    BY <2>2 DEF IInv, RunInv, Affected
  <2>9. OnceInv'
    <3>1. Executing' \subseteq Executing
      BY <2>1, <2>4, <2>6 DEF Executing
    <3> QED
      BY <2>1, <2>2, <2>3, <2>4, <3>1 DEF IInv, OnceInv
  <2>10. FreshInv'
    <3>1. Affected' = Affected
      BY <2>2 DEF Affected
    <3> QED
      BY <2>1, <2>2, <2>3, <2>4, <3>1 DEF IInv, FreshInv
  <2> QED
    BY <2>7, <2>8, <2>9, <2>10 DEF IInv
<1> QED
  BY <1>2, <1>3, <1>4, <1>5 DEF Execute

\* What others write is noticed as long as the plan is not used, and during the
\* deletion of the repository they write to.
LEMMA WriteStep ==
  ASSUME IInv, NEW r \in Repository, Write(r)
  PROVE  IInv'
<1> USE DEF IInv
<1>1. /\ version' = [version EXCEPT ![r] = @ + 1]
      /\ stale' = IF result = "ok" /\ ~used /\ r \in Affected THEN stale \cup {r} ELSE stale
      /\ late' = IF \E c \in Caller : step[c] = "deleting" /\ turn[c] = r THEN late \cup {r} ELSE late
      /\ UNCHANGED <<vars, execution, inspected, interrupted>>
  BY DEF Write
<1>2. /\ version' \in [Repository -> Nat] /\ version'[r] = version[r] + 1
      /\ \A n \in Repository \ {r} : version'[n] = version[n]
  BY <1>1 DEF PlanTypeOK
<1>3. PlanTypeOK' /\ RunInv' /\ OnceInv'
  BY <1>1, <1>2 DEF PlanTypeOK, TypeOK, RunInv, OnceInv, Executing, Affected, vars, execution
<1>4. FreshInv'
  <2>1. Lost' = Lost /\ Affected' = Affected
    BY <1>1 DEF Lost, Affected, vars
  <2>2. \A n \in Repository : inspected[n] <= version'[n] /\ (n \in stale' => inspected[n] < version'[n])
    BY <1>1, <1>2 DEF FreshInv, PlanTypeOK
  <2>3. stale' # {} => result = "ok" /\ mode = "preview"
    BY <1>1 DEF FreshInv, RunInv
  <2>4. used => stale' = stale
    BY <1>1
  <2>5. \A c \in Caller : step[c] # "idle" => used
    BY DEF OnceInv
  <2>6. \A c \in Caller : step[c] = "deleting" =>
          turn[c] \in late' \/ inspected[turn[c]] = version'[turn[c]]
    BY <1>1, <1>2 DEF FreshInv, PlanTypeOK, Affected
  <2>7. stale' \subseteq Affected
    BY <1>1 DEF FreshInv
  <2>8. Lost # {} /\ mode = "preview" => used /\ stale' = {}
    BY <2>4 DEF FreshInv
  <2> QED
    BY <1>1, <2>1, <2>2, <2>3, <2>4, <2>5, <2>6, <2>7, <2>8 DEF FreshInv, vars, execution
<1> QED
  BY <1>3, <1>4

\* The invariant survives what the execution does not see, and nothing at all.
LEMMA OtherSteps == IInv /\ (InterruptExecution \/ UNCHANGED allVars) => IInv'
<1> SUFFICES ASSUME IInv, InterruptExecution \/ UNCHANGED allVars PROVE IInv'
  OBVIOUS
<1>1. UNCHANGED <<vars, execution, others, inspected>>
  BY DEF InterruptExecution, allVars
<1>2. interrupted' \in BOOLEAN
  BY DEF InterruptExecution, allVars, IInv, PlanTypeOK
<1>3. Affected' = Affected /\ Lost' = Lost /\ Executing' = Executing
  BY <1>1 DEF Affected, Lost, Executing, vars, execution
<1>4. PlanTypeOK'
  BY <1>1, <1>2, <1>3 DEF IInv, PlanTypeOK, TypeOK, vars, execution, others
<1>5. RunInv' /\ OnceInv' /\ FreshInv'
  BY <1>1, <1>3 DEF IInv, RunInv, OnceInv, FreshInv, vars, execution, others
<1> QED
  BY <1>4, <1>5 DEF IInv

\* Before anything happens, nothing is planned, used or gone.
LEMMA InitInv == PlanInit => IInv
<1> SUFFICES ASSUME PlanInit PROVE IInv
  OBVIOUS
<1> USE DEF PlanInit, Init
<1>1. Affected = {} /\ Lost = {} /\ Executing = {}
  BY DEF Affected, Lost, Executing, Repository
<1>2. TypeOK
  <2>1. at \in 1..Repositories + 1
    BY RepositoriesNatural
  <2>2. busy \in BOOLEAN /\ ~busy /\ cancelled \in BOOLEAN
    OBVIOUS
  <2>3. total \in [Counters -> Nat]
    BY DEF Nothing
  <2> QED
    BY <2>1, <2>2, <2>3 DEF TypeOK
<1>3. PlanTypeOK
  <2>1. used \in BOOLEAN /\ interrupted \in BOOLEAN
    OBVIOUS
  <2>2. turn \in [Caller -> 0..Repositories + 1]
    BY RepositoriesNatural
  <2> QED
    BY <1>2, <2>1, <2>2 DEF PlanTypeOK, Steps
<1>4. RunInv /\ OnceInv /\ FreshInv
  BY <1>1 DEF RunInv, OnceInv, FreshInv, Hard
<1> QED
  BY <1>3, <1>4 DEF IInv

\* The invariant holds in every state.
THEOREM Invariance == PlanSpec => []IInv
<1>1. IInv /\ [PlanNext]_allVars => IInv'
  BY PrepareStep, ExecuteStep, WriteStep, OtherSteps DEF PlanNext
<1> QED
  BY InitInv, <1>1, PTL DEF PlanSpec

\* Plans, counts and reports have their types.
THEOREM TypeCorrect == PlanSpec => []PlanTypeOK
<1>1. IInv => PlanTypeOK
  BY DEF IInv
<1> QED
  BY Invariance, <1>1, PTL

\* Prune: after a failure that is neither a denial nor a repository unfit to be
\* pruned, alone or joined with denials, nothing else is deleted or planned.
THEOREM HardFailuresEndTheRun == PlanSpec => HardFailureEndsTheRun
<1>1. ASSUME IInv, PlanNext, \E r \in Repository : failed[r] \cap {"other", "canceled"} # {}
      PROVE  UNCHANGED <<stored, plan, at>>
  <2>1. result = "failed" /\ ~busy
    BY <1>1 DEF IInv, RunInv, Hard
  <2>2. ~Prepare /\ ~SeeWrite
    <3>1. ~Prune /\ ~Interrupt
      BY <1>1, <2>1, RunStep DEF IInv, PlanTypeOK
    <3> QED
      BY <2>1, <3>1 DEF Prepare, SeeWrite
  <2>3. ASSUME NEW c \in Caller, Execute(c) PROVE FALSE
    BY <1>1, <2>1, <2>3 DEF Execute, Begin, Verify, Recheck, Remove, IInv, OnceInv
  <2>4. InterruptExecution \/ \E r \in Repository : Write(r)
    BY <1>1, <2>2, <2>3 DEF PlanNext
  <2> QED
    BY <2>4 DEF InterruptExecution, Write, vars
<1>2. IInv /\ [PlanNext]_allVars
        => [((\E r \in Repository : failed[r] \cap {"other", "canceled"} # {}) => UNCHANGED <<stored, plan, at>>)]_vars
  BY <1>1 DEF allVars
<1> QED
  BY Invariance, <1>2, PTL DEF PlanSpec, HardFailureEndsTheRun

\* Execute's second check: what a deletion takes was reviewed, of a repository
\* that is as it was reviewed unless others wrote to it during the deletion.
THEOREM OnlyWhatWasReviewedGoes == PlanSpec => DeletesOnlyWhatWasReviewed
<1>1. ASSUME IInv, PlanNext, NEW r \in Repository, mode = "preview", stored'[r] # stored[r]
      PROVE  /\ stored[r] \ stored'[r] \subseteq plan[r]
             /\ r \in late \/ inspected[r] = version[r]
  <2>1. PICK c \in Caller : Remove(c)
    <3>1. ~Prepare
      BY <1>1, RunStep DEF Prepare, IInv, PlanTypeOK
    <3>2. ASSUME NEW c \in Caller PROVE ~Begin(c) /\ ~Verify(c) /\ ~Recheck(c)
      BY <1>1 DEF Begin, Verify, Recheck, vars
    <3>3. ~SeeWrite /\ ~InterruptExecution /\ \A n \in Repository : ~Write(n)
      BY <1>1 DEF SeeWrite, InterruptExecution, Write, vars
    <3> QED
      BY <1>1, <3>1, <3>2, <3>3 DEF PlanNext, Execute
  <2>2. /\ turn[c] \in Repository
        /\ turn[c] \in late \/ inspected[turn[c]] = version[turn[c]]
    BY <1>1, <2>1 DEF Remove, IInv, PlanTypeOK, FreshInv, Affected
  <2>3. \E gone \in SUBSET plan[turn[c]] : stored' = [stored EXCEPT ![turn[c]] = @ \ gone]
    BY <2>1 DEF Remove
  <2>4. r = turn[c]
    BY <1>1, <2>2, <2>3 DEF IInv, PlanTypeOK, TypeOK
  <2> QED
    BY <1>1, <2>2, <2>3, <2>4 DEF IInv, PlanTypeOK, TypeOK
<1>2. IInv /\ [PlanNext]_allVars
        => [\A r \in Repository : mode = "preview" /\ stored'[r] # stored[r] =>
              /\ stored[r] \ stored'[r] \subseteq plan[r]
              /\ r \in late \/ inspected[r] = version[r]]_allVars
  BY <1>1
<1> QED
  BY Invariance, <1>2, PTL DEF PlanSpec, DeletesOnlyWhatWasReviewed

\* Execute: a plan is executed once, and one that went stale before it was
\* confirmed deletes nothing anywhere.
THEOREM PlansExecuteOnceOrNever == PlanSpec => []ExecutesOnceOrNever
<1>1. ASSUME IInv PROVE StalePlanDeletesNothing
  BY <1>1 DEF IInv, FreshInv, StalePlanDeletesNothing
<1>2. ASSUME IInv PROVE ExecutesOnce
  <2>1. ExecutesOnce <=> Cardinality(Executing) <= 1
    BY DEF ExecutesOnce, Executing
  <2>2. CASE Executing = {}
    BY <2>1, <2>2, FS_EmptySet
  <2>3. CASE Executing # {}
    <3>1. PICK c \in Executing : Executing = {c}
      BY <1>2, <2>3 DEF IInv, OnceInv
    <3> QED
      BY <2>1, <3>1, FS_Singleton
  <2> QED
    BY <2>2, <2>3
<1>3. IInv => ExecutesOnceOrNever
  BY <1>1, <1>2 DEF ExecutesOnceOrNever
<1> QED
  BY Invariance, <1>3, PTL

-----------------------------------------------------------------------------
(* What is counted and reported *)

\* Repositories and their manifests are finitely many.
LEMMA Finite ==
  /\ IsFiniteSet(Repository \X Manifest) /\ IsFiniteSet(Repository)
  /\ Cardinality(Manifest) \in Nat
<1>1. IsFiniteSet(Repository)
  BY RepositoriesNatural, FS_Interval DEF Repository
<1> QED
  BY <1>1, ManifestFinite, FS_Product, FS_CardinalityType

\* Manifests of a repository that are new to a set are counted with it.
LEMMA PairsAdded ==
  ASSUME NEW S \in SUBSET (Repository \X Manifest), NEW r \in Repository, NEW T \in SUBSET Manifest,
         \A m \in T : <<r, m>> \notin S
  PROVE  /\ Cardinality(S \cup ({r} \X T)) = Cardinality(S) + Cardinality(T)
         /\ Cardinality(S) \in Nat /\ Cardinality(T) \in Nat
<1>1. IsFiniteSet(S) /\ IsFiniteSet(T) /\ IsFiniteSet({r})
  BY Finite, ManifestFinite, FS_Subset, FS_Singleton
<1>2. Cardinality({r}) = 1 /\ Cardinality(T) \in Nat /\ Cardinality(S) \in Nat
  BY <1>1, FS_Singleton, FS_CardinalityType
<1>3. IsFiniteSet({r} \X T) /\ Cardinality({r} \X T) = Cardinality(T)
  <2>1. IsFiniteSet({r} \X T) /\ Cardinality({r} \X T) = Cardinality({r}) * Cardinality(T)
    BY <1>1, FS_Product
  <2> QED
    BY <1>2, <2>1
<1>4. S \cap ({r} \X T) = {}
  OBVIOUS
<1>5. Cardinality(S \cup ({r} \X T))
        = Cardinality(S) + Cardinality({r} \X T) - Cardinality(S \cap ({r} \X T))
  BY <1>1, <1>3, FS_Union
<1>6. Cardinality(S \cap ({r} \X T)) = 0
  BY <1>4, FS_EmptySet
<1> QED
  BY <1>2, <1>3, <1>5, <1>6

\* A repository loses what is taken out of it, and no other loses anything.
LEMMA LostGrows ==
  ASSUME TypeOK, NEW r \in Repository, NEW gone \in SUBSET stored[r],
         stored' = [stored EXCEPT ![r] = @ \ gone]
  PROVE  /\ Lost' = Lost \cup ({r} \X gone)
         /\ Cardinality(Lost') = Cardinality(Lost) + Cardinality(gone)
         /\ Cardinality(Lost) \in Nat /\ Cardinality(gone) \in Nat
<1>1. gone \in SUBSET Manifest /\ Lost \in SUBSET (Repository \X Manifest)
  BY DEF TypeOK, Lost
<1>2. Lost' = Lost \cup ({r} \X gone)
  <2>1. \A rm \in Repository \X Manifest :
          rm[2] \notin stored'[rm[1]] <=> rm[2] \notin stored[rm[1]] \/ rm \in {r} \X gone
    <3> TAKE rm \in Repository \X Manifest
    <3>1. CASE rm[1] = r
      BY <3>1 DEF TypeOK
    <3>2. CASE rm[1] # r
      BY <3>2 DEF TypeOK
    <3> QED
      BY <3>1, <3>2
  <2> QED
    BY <1>1, <2>1 DEF Lost
<1>3. \A m \in gone : <<r, m>> \notin Lost
  BY DEF Lost
<1> QED
  BY <1>1, <1>2, <1>3, PairsAdded

\* What is planned for a repository is added to the plan.
LEMMA PlannedGrows ==
  ASSUME TypeOK, NEW r \in Repository, plan[r] = {}, NEW chosen \in SUBSET Manifest,
         plan' = [plan EXCEPT ![r] = chosen]
  PROVE  /\ Cardinality(Planned') = Cardinality(Planned) + Cardinality(chosen)
         /\ Cardinality(Planned) \in Nat /\ Cardinality(chosen) \in Nat
<1>1. Planned \in SUBSET (Repository \X Manifest)
  BY DEF Planned
<1>2. Planned' = Planned \cup ({r} \X chosen)
  <2>1. \A rm \in Repository \X Manifest :
          rm[2] \in plan'[rm[1]] <=> rm[2] \in plan[rm[1]] \/ rm \in {r} \X chosen
    <3> TAKE rm \in Repository \X Manifest
    <3>1. CASE rm[1] = r
      BY <3>1 DEF TypeOK
    <3>2. CASE rm[1] # r
      BY <3>2 DEF TypeOK
    <3> QED
      BY <3>1, <3>2
  <2> QED
    BY <2>1 DEF Planned
<1>3. \A m \in chosen : <<r, m>> \notin Planned
  BY DEF Planned
<1> QED
  BY <1>1, <1>2, <1>3, PairsAdded

\* The counts of a run without failures take the repository into account that
\* it is at.
LEMMA ConcludeCounts ==
  ASSUME TypeOK, RunInv, CountInv, busy, mode' = mode,
         NEW errs \in SUBSET Kinds, NEW seen \in Nat, NEW deleted \in Nat, deleted <= seen,
         NEW whole \in BOOLEAN, NEW failure \in BOOLEAN,
         Conclude(errs, Counts(seen, deleted, whole, failure)),
         \A r \in Repository \ {at} : stored'[r] = stored[r] /\ plan'[r] = plan[r],
         mode = "live" => /\ Cardinality(Lost') \in Nat /\ Cardinality(Lost) \in Nat
                          /\ Cardinality(Lost) + deleted <= Cardinality(Lost')
                          /\ errs = {} => Cardinality(Lost) + deleted = Cardinality(Lost')
                          /\ whole => stored'[at] = {},
         mode = "preview" => /\ stored' = stored
                             /\ errs = {} /\ ~failure =>
                                  /\ seen = Cardinality(stored[at])
                                  /\ Cardinality(Planned') = Cardinality(Planned) + deleted
  PROVE  CountInv'
<1> DEFINE counts == Counts(seen, deleted, whole, failure)
<1>1. result = "pruning" /\ at \in Repository /\ at \in Nat /\ at <= Repositories
  BY RepositoriesNatural DEF RunInv, TypeOK, Repository
<1>2. /\ at' = at + 1 /\ result' \in {"pruning", "failed"}
      /\ denied' = IF IsDenied(errs) THEN denied \cup {at} ELSE denied
      /\ skipped' = IF ~IsDenied(errs) /\ Skippable(errs) THEN skipped \cup {at} ELSE skipped
      /\ total' = Plus(total, counts)
      /\ errs # {} /\ ~IsDenied(errs) /\ ~Skippable(errs) => result' = "failed"
      /\ errs = {} /\ mode = "preview" /\ counts.skippedRepositories > 0 => result' = "failed"
  BY <1>1 DEF Conclude
<1>3. /\ counts["repositories"] = 1 /\ counts["keptRepositories"] = (IF whole THEN 0 ELSE 1)
      /\ counts["skippedRepositories"] = (IF failure THEN 1 ELSE 0)
      /\ counts["seen"] = seen /\ counts["kept"] = seen - deleted /\ counts["deleted"] = deleted
  BY DEF Counts
<1>4. \A c \in Counters : total'[c] = total[c] + counts[c] /\ total[c] \in Nat
  BY <1>2 DEF Plus, TypeOK
<1>5. /\ total'["repositories"] = total["repositories"] + 1
      /\ total'["keptRepositories"] = total["keptRepositories"] + (IF whole THEN 0 ELSE 1)
      /\ total'["skippedRepositories"] = total["skippedRepositories"] + (IF failure THEN 1 ELSE 0)
      /\ total'["seen"] = total["seen"] + seen /\ total'["deleted"] = total["deleted"] + deleted
      /\ total'["kept"] = total["kept"] + (seen - deleted)
      /\ \A c \in Counters : total[c] \in Nat
  BY <1>3, <1>4 DEF Counters
<1>6. Untroubled' => Untroubled /\ errs = {} /\ (mode = "preview" => ~failure)
  <2>1. Untroubled' => errs = {} /\ denied = {} /\ skipped = {}
    BY <1>2 DEF Untroubled
  <2>2. Untroubled' /\ mode = "preview" => ~failure
    BY <1>2, <1>3, <2>1 DEF Untroubled
  <2> QED
    BY <1>1, <2>1, <2>2 DEF Untroubled
<1>7. total'["repositories"] = at' - 1 /\ total'["seen"] = total'["kept"] + total'["deleted"]
  <2>1. /\ total["repositories"] \in Nat /\ total["seen"] \in Nat /\ total["kept"] \in Nat
        /\ total["deleted"] \in Nat
    BY <1>5 DEF Counters
  <2> QED
    BY <1>1, <1>2, <1>5, <2>1 DEF CountInv
<1>8. ASSUME mode = "live"
      PROVE  /\ total'["deleted"] <= Cardinality(Lost')
             /\ Untroubled' => total'["deleted"] = Cardinality(Lost')
             /\ total'["repositories"] - total'["keptRepositories"] <= Cardinality(Emptied')
  <2>1. total["repositories"] \in Nat /\ total["keptRepositories"] \in Nat /\ total["deleted"] \in Nat
    BY <1>5 DEF Counters
  <2>2. total'["deleted"] <= Cardinality(Lost')
    BY <1>5, <1>8, <2>1 DEF CountInv
  <2>3. Untroubled' => total'["deleted"] = Cardinality(Lost')
    BY <1>5, <1>6, <1>8, <2>1 DEF CountInv
  <2>4. /\ Emptied \in SUBSET Emptied' /\ at \notin Emptied
        /\ whole => at \in Emptied'
    <3>1. at \notin Emptied
      BY <1>1 DEF Emptied
    <3>2. ASSUME NEW r \in Emptied PROVE r \in Emptied'
      <4>1. r \in Repository /\ r # at /\ r < at + 1 /\ stored[r] = {}
        BY <1>1 DEF Emptied, Repository
      <4> QED
        BY <1>2, <4>1 DEF Emptied
    <3>3. whole => at \in Emptied'
      BY <1>1, <1>2, <1>8 DEF Emptied
    <3> QED
      BY <3>1, <3>2, <3>3
  <2>5. /\ IsFiniteSet(Emptied') /\ IsFiniteSet(Emptied)
        /\ Cardinality(Emptied) \in Nat /\ Cardinality(Emptied') \in Nat
    BY Finite, FS_Subset, FS_CardinalityType DEF Emptied
  <2>6. Cardinality(Emptied') >= Cardinality(Emptied)
    BY <2>4, <2>5, FS_Subset
  <2>7. whole => Cardinality(Emptied') >= Cardinality(Emptied) + 1
    <3>1. SUFFICES ASSUME whole PROVE Cardinality(Emptied') >= Cardinality(Emptied) + 1
      OBVIOUS
    <3>2. Cardinality(Emptied \cup {at}) = Cardinality(Emptied) + 1
      BY <2>4, <2>5, FS_AddElement
    <3>3. Emptied \cup {at} \in SUBSET Emptied'
      BY <2>4, <3>1
    <3>4. Cardinality(Emptied \cup {at}) <= Cardinality(Emptied')
      BY <2>5, <3>3, FS_Subset
    <3> QED
      BY <2>5, <3>2, <3>4
  <2>8. total'["repositories"] - total'["keptRepositories"] <= Cardinality(Emptied')
    <3>1. total["repositories"] - total["keptRepositories"] <= Cardinality(Emptied)
      BY <1>8 DEF CountInv
    <3>2. CASE whole
      BY <1>5, <2>1, <2>5, <2>7, <3>1, <3>2
    <3>3. CASE ~whole
      BY <1>5, <2>1, <2>5, <2>6, <3>1, <3>3
    <3> QED
      BY <3>2, <3>3
  <2> QED
    BY <2>2, <2>3, <2>8
<1>9. ASSUME mode = "preview"
      PROVE  /\ \A r \in Repository : r >= at' => plan'[r] = {}
             /\ \A r \in Repository : stored'[r] = Manifest
             /\ Untroubled' => /\ total'["skippedRepositories"] = 0
                               /\ total'["seen"] = (at' - 1) * Cardinality(Manifest)
                               /\ total'["deleted"] = Cardinality(Planned')
  <2>1. total["skippedRepositories"] \in Nat /\ total["seen"] \in Nat /\ total["deleted"] \in Nat
    BY <1>5 DEF Counters
  <2>2. \A r \in Repository : stored'[r] = Manifest /\ stored[r] = Manifest
    BY <1>1, <1>9 DEF CountInv
  <2>3. \A r \in Repository : r >= at' => plan'[r] = {}
    <3>1. \A r \in Repository : r >= at + 1 => r # at /\ r >= at
      BY <1>1 DEF Repository
    <3> QED
      BY <1>2, <1>9, <3>1 DEF CountInv
  <2>4. Untroubled' => total'["skippedRepositories"] = 0 /\ total'["deleted"] = Cardinality(Planned')
    BY <1>5, <1>6, <1>9, <2>1 DEF CountInv
  <2>5. Untroubled' => total'["seen"] = (at - 1) * Cardinality(Manifest) + Cardinality(Manifest)
    BY <1>1, <1>5, <1>6, <1>9, <2>1, <2>2 DEF CountInv
  <2>6. (at - 1) * Cardinality(Manifest) + Cardinality(Manifest) = (at' - 1) * Cardinality(Manifest)
    <3>1. \A a \in Nat, m \in Nat : (a - 1) * m + m = ((a + 1) - 1) * m
      OBVIOUS
    <3> QED
      BY <1>1, <1>2, <3>1, Finite
  <2> QED
    BY <2>2, <2>3, <2>4, <2>5, <2>6
<1> QED
  BY <1>2, <1>7, <1>8, <1>9 DEF CountInv

\* The steps of the run count what they do.
LEMMA RunCounts ==
  ASSUME TypeOK, RunInv, CountInv, Prune \/ Interrupt
  PROVE  CountInv'
<1>1. busy => at \in Repository /\ stored[at] \in SUBSET Manifest
  BY RepositoriesNatural DEF TypeOK, Repository
<1>2. /\ Cardinality(Lost) \in Nat /\ Cardinality(Planned) \in Nat
      /\ {} \in SUBSET Kinds
  <2>1. Lost \in SUBSET (Repository \X Manifest) /\ Planned \in SUBSET (Repository \X Manifest)
    BY DEF Lost, Planned
  <2> QED
    BY <2>1, Finite, FS_Subset, FS_CardinalityType
<1>3. ASSUME UNCHANGED <<mode, stored, at, denied, skipped, total, plan>>,
             result' \in {result, "pruning", "failed"}, result \in {"listing", "pruning"}
      PROVE  CountInv'
  <2>1. Lost' = Lost /\ Planned' = Planned /\ Emptied' = Emptied /\ (Untroubled' => Untroubled)
    BY <1>3 DEF Lost, Planned, Emptied, Untroubled
  <2>2. result # "ok" /\ result' # "ok"
    BY <1>3
  <2> QED
    BY <1>3, <2>1, <2>2 DEF CountInv
<1>4. CASE List
  BY <1>3, <1>4 DEF List
<1>5. CASE Start
  BY <1>3, <1>5 DEF Start
<1>6. CASE Interrupt
  BY <1>3, <1>6 DEF Interrupt
<1>7. CASE Return
  <2>1. /\ UNCHANGED <<mode, stored, at, denied, skipped, total, plan>> /\ result = "pruning"
        /\ at > Repositories
        /\ result' = IF denied = {} /\ skipped = {} /\ ~cancelled THEN "ok" ELSE "failed"
    BY <1>7 DEF Return
  <2>2. Lost' = Lost /\ Planned' = Planned /\ Emptied' = Emptied /\ (Untroubled' => Untroubled)
    BY <2>1 DEF Lost, Planned, Emptied, Untroubled
  <2>3. at = Repositories + 1
    BY <2>1, RepositoriesNatural DEF TypeOK
  <2> QED
    BY <2>1, <2>2, <2>3 DEF CountInv
<1>8. CASE Uninspected
  <2>1. /\ busy /\ UNCHANGED <<mode, stored, plan>> /\ 0 \in Nat /\ 0 <= 0
        /\ FALSE \in BOOLEAN /\ TRUE \in BOOLEAN
    BY <1>8 DEF Uninspected
  <2>2. PICK kind \in Kinds : Conclude({kind}, Counts(0, 0, FALSE, TRUE))
    BY <1>8 DEF Uninspected
  <2>3. {kind} \in SUBSET Kinds /\ {kind} # {} /\ Lost' = Lost
    BY <2>1 DEF Lost
  <2>4. Cardinality(Lost') \in Nat /\ Cardinality(Lost) + 0 <= Cardinality(Lost')
    BY <1>2, <2>3
  <2>5. \A r \in Repository \ {at} : stored'[r] = stored[r] /\ plan'[r] = plan[r]
    BY <2>1
  <2> QED
    BY <1>2, <2>1, <2>2, <2>3, <2>4, <2>5, ConcludeCounts
<1>9. CASE LeftAlone
  <2>1. /\ busy /\ UNCHANGED <<mode, stored, plan>> /\ 0 \in Nat
        /\ FALSE \in BOOLEAN /\ TRUE \in BOOLEAN /\ Lost' = Lost
    BY <1>9 DEF LeftAlone, Lost
  <2>2. PICK seen \in {0, Cardinality(stored[at])} : Conclude({}, Counts(seen, 0, FALSE, TRUE))
    BY <1>9 DEF LeftAlone
  <2>3. seen \in Nat /\ 0 <= seen
    BY <1>1, <2>1, Counting
  <2>4. /\ Cardinality(Lost') \in Nat /\ Cardinality(Lost) + 0 <= Cardinality(Lost')
        /\ Cardinality(Lost) + 0 = Cardinality(Lost')
    BY <1>2, <2>1
  <2>5. \A r \in Repository \ {at} : stored'[r] = stored[r] /\ plan'[r] = plan[r]
    BY <2>1
  <2> QED
    BY <1>2, <2>1, <2>2, <2>3, <2>4, <2>5, ConcludeCounts
<1>10. ASSUME NEW chosen \in SUBSET stored[at], Preview(chosen) \/ Delete(chosen) \/ DeleteFailing(chosen), busy
       PROVE  CountInv'
  <2>1. /\ at \in Repository /\ stored[at] \in SUBSET Manifest /\ chosen \in SUBSET Manifest
        /\ Cardinality(stored[at]) \in Nat /\ 0 \in Nat /\ 0 <= Cardinality(stored[at])
        /\ (chosen = stored[at]) \in BOOLEAN /\ FALSE \in BOOLEAN /\ TRUE \in BOOLEAN
    BY <1>1, <1>10, Counting
  <2>2. \A T \in SUBSET stored[at] : Cardinality(T) \in Nat /\ Cardinality(T) <= Cardinality(stored[at])
    BY <2>1, Counting
  <2>3. CASE Preview(chosen)
    <3>1. /\ Conclude({}, Counts(Cardinality(stored[at]), Cardinality(chosen), chosen = stored[at], FALSE))
          /\ UNCHANGED <<mode, stored>> /\ mode # "live"
          /\ plan' = IF mode = "preview" THEN [plan EXCEPT ![at] = chosen] ELSE plan
      BY <2>3 DEF Preview
    <3>2. \A r \in Repository \ {at} : stored'[r] = stored[r] /\ plan'[r] = plan[r]
      BY <3>1 DEF TypeOK
    <3>3. mode = "preview" => Cardinality(Planned') = Cardinality(Planned) + Cardinality(chosen)
      <4>1. SUFFICES ASSUME mode = "preview"
                     PROVE  Cardinality(Planned') = Cardinality(Planned) + Cardinality(chosen)
        OBVIOUS
      <4>2. plan[at] = {} /\ plan' = [plan EXCEPT ![at] = chosen]
        BY <2>1, <3>1, <4>1 DEF CountInv, Repository
      <4> QED
        BY <2>1, <4>2, PlannedGrows
    <3> QED
      BY <1>2, <1>10, <2>1, <2>2, <3>1, <3>2, <3>3, ConcludeCounts
  <2>4. CASE Delete(chosen)
    <3>1. /\ Conclude({}, Counts(Cardinality(stored[at]), Cardinality(chosen), chosen = stored[at], FALSE))
          /\ UNCHANGED <<mode, plan>> /\ mode = "live"
          /\ stored' = [stored EXCEPT ![at] = @ \ chosen]
      BY <2>4 DEF Delete
    <3>2. \A r \in Repository \ {at} : stored'[r] = stored[r] /\ plan'[r] = plan[r]
      BY <3>1 DEF TypeOK
    <3>3. /\ Cardinality(Lost') = Cardinality(Lost) + Cardinality(chosen)
          /\ Cardinality(Lost') \in Nat /\ Cardinality(Lost) + Cardinality(chosen) <= Cardinality(Lost')
      <4>1. /\ Cardinality(Lost') = Cardinality(Lost) + Cardinality(chosen)
            /\ Cardinality(chosen) \in Nat
        BY <1>10, <2>1, <3>1, LostGrows
      <4> QED
        BY <1>2, <4>1
    <3>4. chosen = stored[at] => stored'[at] = {}
      BY <2>1, <3>1 DEF TypeOK
    <3>5. mode # "preview"
      BY <3>1
    <3> QED
      BY <1>2, <1>10, <2>1, <2>2, <3>1, <3>2, <3>3, <3>4, <3>5, ConcludeCounts
  <2>5. CASE DeleteFailing(chosen)
    <3>1. UNCHANGED <<mode, plan>> /\ mode = "live" /\ mode # "preview"
      BY <2>5 DEF DeleteFailing
    <3>2. PICK gone \in SUBSET chosen, errs \in (SUBSET Kinds) \ {{}} :
            /\ stored' = [stored EXCEPT ![at] = @ \ gone]
            /\ \/ Conclude(errs, Counts(Cardinality(stored[at]), 0, FALSE, TRUE))
               \/ \E confirmed \in SUBSET gone :
                    Conclude(errs, Counts(Cardinality(stored[at]), Cardinality(confirmed), FALSE, TRUE))
      BY <2>5 DEF DeleteFailing
    <3>3. PICK deleted \in {0} \cup {Cardinality(confirmed) : confirmed \in SUBSET gone} :
            Conclude(errs, Counts(Cardinality(stored[at]), deleted, FALSE, TRUE))
      BY <3>2
    <3>4. \A r \in Repository \ {at} : stored'[r] = stored[r] /\ plan'[r] = plan[r]
      BY <3>1, <3>2 DEF TypeOK
    <3>5. /\ Cardinality(Lost') = Cardinality(Lost) + Cardinality(gone)
          /\ Cardinality(gone) \in Nat
      BY <1>10, <2>1, <3>2, LostGrows
    <3>6. deleted \in Nat /\ deleted <= Cardinality(gone) /\ deleted <= Cardinality(stored[at])
      <4>1. gone \in SUBSET Manifest
        BY <2>1, <3>2
      <4>2. ASSUME NEW confirmed \in SUBSET gone
            PROVE  /\ Cardinality(confirmed) \in Nat
                   /\ Cardinality(confirmed) <= Cardinality(gone)
                   /\ Cardinality(confirmed) <= Cardinality(stored[at])
        <5>1. Cardinality(confirmed) \in Nat /\ Cardinality(confirmed) <= Cardinality(gone)
          BY <4>1, Counting
        <5>2. confirmed \in SUBSET stored[at]
          BY <1>10, <3>2
        <5> QED
          BY <2>2, <5>1, <5>2
      <4> QED
        BY <2>1, <3>3, <3>5, <4>2
    <3>7. /\ Cardinality(Lost') \in Nat
          /\ Cardinality(Lost) + deleted <= Cardinality(Lost')
          /\ errs \in SUBSET Kinds /\ errs # {}
      <4>1. \A a, b, d \in Nat : d <= b => a + b \in Nat /\ a + d <= a + b
        OBVIOUS
      <4>2. Cardinality(Lost) + deleted <= Cardinality(Lost) + Cardinality(gone)
        BY <1>2, <3>5, <3>6, <4>1
      <4> QED
        BY <1>2, <3>2, <3>5, <4>1, <4>2
    <3> QED
      BY <1>2, <1>10, <2>1, <3>1, <3>3, <3>4, <3>6, <3>7, ConcludeCounts
  <2> QED
    BY <1>10, <2>3, <2>4, <2>5
<1> QED
  BY <1>4, <1>5, <1>6, <1>7, <1>8, <1>9, <1>10 DEF Prune

\* Once the run has returned, its counts and its plan stay as they are: only an
\* execution goes on, of a plan.
LEMMA CountsStay ==
  ASSUME IInv, CountInv,
         UNCHANGED <<mode, at, denied, skipped, total, plan, result>>,
         stored' = stored \/ (mode = "preview" /\ result = "ok")
  PROVE  CountInv'
<1>1. Planned' = Planned /\ (Untroubled' <=> Untroubled)
  BY DEF Planned, Untroubled
<1>2. CASE stored' = stored
  <2>1. Lost' = Lost /\ Emptied' = Emptied
    BY <1>2 DEF Lost, Emptied
  <2> QED
    BY <1>1, <1>2, <2>1 DEF CountInv
<1>3. CASE mode = "preview" /\ result = "ok"
  BY <1>1, <1>3 DEF CountInv
<1> QED
  BY <1>2, <1>3

\* Where the plan ends, and what lies before the next repository of it.
LEMMA PlannedBefore ==
  ASSUME TypeOK, NEW r \in 0..Repositories + 1
  PROVE  /\ After(r) # 0
         /\ \A rm \in Planned : rm[1] \in Affected /\ rm[1] \in 1..Repositories
         /\ {rm \in Planned : rm[1] < After(r)} = {rm \in Planned : rm[1] <= r}
<1>1. /\ After(r) \in Affected \cup {Repositories + 1} /\ After(r) \in Nat
      /\ \A n \in Affected : n > r => After(r) <= n
      /\ r \in Nat
  BY AfterIsNext, RepositoriesNatural
<1>2. \A rm \in Planned : rm[1] \in Affected /\ rm[1] \in 1..Repositories
  BY DEF Planned, Affected, Repository
<1>3. After(r) # 0
  BY <1>1, RepositoriesNatural DEF Affected, Repository
<1>4. After(r) > r \/ (r = Repositories + 1 /\ After(r) = r)
  <2>1. After(r) \in {n \in Affected : n > r} \cup {Repositories + 1}
    <3> DEFINE S == {n \in Affected : n > r} \cup {Repositories + 1}
    <3>1. S \in SUBSET Nat /\ S # {}
      BY RepositoriesNatural DEF Affected, Repository
    <3>2. PICK x \in S : \A y \in S : x <= y
      <4> HIDE DEF S
      <4> QED
        BY <3>1, LeastNumber
    <3> QED
      BY <3>2 DEF After, Min
  <2> QED
    BY <2>1, RepositoriesNatural
<1>5. \A rm \in Planned : rm[1] < After(r) <=> rm[1] <= r
  <2> TAKE rm \in Planned
  <2>1. rm[1] \in Affected /\ rm[1] \in Nat /\ rm[1] <= Repositories
    BY <1>2
  <2>2. rm[1] > r => After(r) <= rm[1]
    BY <1>1, <2>1
  <2> QED
    BY <1>1, <1>4, <2>1, <2>2, RepositoriesNatural
<1> QED
  BY <1>2, <1>3, <1>5

\* The one caller that executes goes on without deleting anything.
LEMMA MoveReports ==
  ASSUME IInv, ReportInv, NEW c \in Caller, NEW s \in Steps \ {"idle"}, NEW r \in 1..Repositories + 1,
         Moves(c, s, r), \A d \in Caller : turn[d] # 0 => c = d,
         s = "verifying" => Lost = {} /\ deletedBy[c] = {},
         s \in {"rechecking", "deleting"} =>
           deletedBy[c] = {rm \in Planned : rm[1] < r} /\ Lost = deletedBy[c],
         s = "ok" => deletedBy[c] = Planned /\ Lost = Planned,
         s = "failed" => deletedBy[c] \subseteq Lost /\ \A rm \in Lost : rm[1] <= r
  PROVE  ReportInv'
<1>1. /\ step'[c] = s /\ turn'[c] = r /\ r # 0 /\ s # "idle"
      /\ \A d \in Caller \ {c} : step'[d] = step[d] /\ turn'[d] = turn[d]
      /\ deletedBy' = deletedBy /\ mode' = mode
  BY RepositoriesNatural DEF Moves, Goto, IInv, PlanTypeOK, vars
<1>2. Lost' = Lost /\ Planned' = Planned
  BY DEF Moves, vars, Lost, Planned
<1>3. \A d \in Caller \ {c} : turn[d] = 0
  OBVIOUS
<1>4. \A d, e \in Caller : turn'[d] # 0 /\ turn'[e] # 0 => d = e
  BY <1>1, <1>3
<1>5. ~(\A d \in Caller : turn'[d] = 0)
  BY <1>1
<1>6. ASSUME NEW d \in Caller
      PROVE  /\ step'[d] = "idle" => turn'[d] = 0
             /\ turn'[d] = 0 => step'[d] \in {"idle", "failed"} /\ deletedBy'[d] = {}
             /\ step'[d] = "verifying" => Lost' = {} /\ deletedBy'[d] = {}
             /\ step'[d] \in {"rechecking", "deleting"} =>
                  deletedBy'[d] = {rm \in Planned' : rm[1] < turn'[d]} /\ Lost' = deletedBy'[d]
             /\ step'[d] = "ok" => deletedBy'[d] = Planned' /\ Lost' = Planned'
             /\ step'[d] = "failed" => deletedBy'[d] \subseteq Lost'
             /\ step'[d] = "failed" /\ turn'[d] # 0 => \A rm \in Lost' : rm[1] <= turn'[d]
  <2>1. CASE d = c
    BY <1>1, <1>2, <2>1
  <2>2. CASE d # c
    BY <1>1, <1>2, <1>3, <2>2 DEF ReportInv
  <2> QED
    BY <2>1, <2>2
<1> QED
  BY <1>4, <1>5, <1>6 DEF ReportInv

\* The steps of an execution report what they do.
LEMMA ExecuteReports ==
  ASSUME IInv, ReportInv, NEW c \in Caller, Execute(c)
  PROVE  ReportInv'
<1>1. /\ turn[c] \in 0..Repositories + 1 /\ TypeOK
      /\ 0 \in 0..Repositories + 1
      /\ \A r \in 0..Repositories + 1 : r # 0 => r \in 1..Repositories + 1
      /\ \A d \in Caller : step[d] # "idle" => mode = "preview" /\ used
  BY RepositoriesNatural DEF IInv, OnceInv, PlanTypeOK
<1>2. \A r \in 0..Repositories + 1 : After(r) \in 1..Repositories + 1
  BY <1>1, AfterIsNext, PlannedBefore
<1>3. step[c] \notin {"idle", "failed"} =>
        /\ turn[c] \in 1..Repositories + 1 /\ turn[c] # 0
        /\ \A d \in Caller : turn[d] # 0 => c = d
  BY <1>1 DEF ReportInv
<1>4. CASE Begin(c)
  <2>1. CASE used /\ Goto(c, "failed", 0)
    <3>1. /\ step'[c] = "failed" /\ turn' = turn /\ turn[c] = 0 /\ deletedBy' = deletedBy
          /\ \A d \in Caller \ {c} : step'[d] = step[d]
          /\ Lost' = Lost /\ Planned' = Planned /\ mode' = mode
          /\ deletedBy[c] = {}
      BY <1>4, <2>1 DEF Begin, Goto, IInv, PlanTypeOK, ReportInv, vars, Lost, Planned
    <3> QED
      BY <3>1 DEF ReportInv
  <2>2. CASE ~used /\ Goto(c, "verifying", After(0))
    <3>1. \A d \in Caller : turn[d] = 0
      BY <1>1, <2>2 DEF ReportInv
    <3>2. Lost = {} /\ deletedBy[c] = {}
      BY <1>4, <3>1 DEF Begin, ReportInv
    <3>3. /\ UNCHANGED <<vars, deletedBy, others, inspected, interrupted>>
          /\ step' = [step EXCEPT ![c] = "verifying"] /\ turn' = [turn EXCEPT ![c] = After(0)]
      BY <1>4, <2>2 DEF Begin, Goto
    <3>4. /\ step'[c] = "verifying" /\ turn'[c] # 0
          /\ \A d \in Caller \ {c} : step'[d] = step[d] /\ turn'[d] = 0
          /\ deletedBy' = deletedBy /\ mode' = mode
      BY <1>1, <1>2, <3>1, <3>3, RepositoriesNatural DEF IInv, PlanTypeOK, vars
    <3>5. Lost' = Lost /\ Planned' = Planned
      BY <3>3 DEF vars, Lost, Planned
    <3> QED
      BY <3>1, <3>2, <3>4, <3>5 DEF ReportInv
  <2> QED
    BY <1>4, <2>1, <2>2 DEF Begin
<1>5. CASE Verify(c)
  <2>1. step[c] = "verifying" /\ Lost = {} /\ deletedBy[c] = {}
    BY <1>5 DEF Verify, ReportInv
  <2>2. CASE Moves(c, "rechecking", After(0))
    <3>1. {rm \in Planned : rm[1] < After(0)} = {}
      BY <1>1, PlannedBefore
    <3> QED
      BY <1>1, <1>2, <1>3, <2>1, <2>2, <3>1, MoveReports DEF Steps
  <2>3. CASE Moves(c, "verifying", After(turn[c]))
    BY <1>1, <1>2, <1>3, <2>1, <2>3, MoveReports DEF Steps
  <2>4. CASE Moves(c, "failed", turn[c])
    BY <1>3, <2>1, <2>4, MoveReports DEF Steps
  <2> QED
    BY <1>5, <2>2, <2>3, <2>4 DEF Verify, Moves
<1>6. CASE Recheck(c)
  <2>1. /\ step[c] = "rechecking"
        /\ deletedBy[c] = {rm \in Planned : rm[1] < turn[c]} /\ Lost = deletedBy[c]
    BY <1>6 DEF Recheck, ReportInv
  <2>2. \A rm \in Lost : rm[1] <= turn[c]
    BY <1>1, <2>1, PlannedBefore, RepositoriesNatural
  <2>3. CASE turn[c] > Repositories /\ \E s \in {"ok", "failed"} : Moves(c, s, turn[c])
    <3>1. Lost = Planned
      <4>1. \A rm \in Planned : rm[1] < turn[c]
        BY <1>1, <2>3, PlannedBefore, RepositoriesNatural
      <4> QED
        BY <2>1, <4>1
    <3> QED
      BY <1>3, <2>1, <2>2, <2>3, <3>1, MoveReports DEF Steps
  <2>4. CASE \E s \in {"deleting", "failed"} : Moves(c, s, turn[c])
    BY <1>3, <2>1, <2>2, <2>4, MoveReports DEF Steps
  <2> QED
    BY <1>6, <2>3, <2>4 DEF Recheck, Moves
<1>7. CASE Remove(c)
  <2> DEFINE r == turn[c]
  <2>1. /\ step[c] = "deleting" /\ mode = "preview"
        /\ deletedBy[c] = {rm \in Planned : rm[1] < r} /\ Lost = deletedBy[c]
        /\ r \in Repository /\ r # 0
        /\ \A d \in Caller \ {c} : turn[d] = 0
    BY <1>1, <1>3, <1>7 DEF Remove, ReportInv, IInv, PlanTypeOK, Affected
  <2>2. PICK s \in {"rechecking", "failed"}, gone \in SUBSET plan[r], confirmed \in SUBSET plan[r] :
          /\ step' = [step EXCEPT ![c] = s]
          /\ turn' = [turn EXCEPT ![c] = IF s = "failed" THEN r ELSE After(r)]
          /\ stored' = [stored EXCEPT ![r] = @ \ gone]
          /\ deletedBy' = [deletedBy EXCEPT ![c] = @ \cup ({r} \X confirmed)]
          /\ confirmed \subseteq gone
          /\ s = "rechecking" => gone = plan[r] /\ confirmed = plan[r]
    <3>1. CASE /\ stored' = [stored EXCEPT ![r] = @ \ plan[r]]
               /\ deletedBy' = [deletedBy EXCEPT ![c] = @ \cup Reviewed(r)]
               /\ Goto(c, "rechecking", After(r))
      BY <3>1 DEF Goto, Reviewed
    <3>2. CASE \E gone \in SUBSET plan[r] : \E confirmed \in SUBSET gone :
                 /\ stored' = [stored EXCEPT ![r] = @ \ gone]
                 /\ deletedBy' = [deletedBy EXCEPT ![c] = @ \cup ({r} \X confirmed)]
                 /\ Goto(c, "failed", r)
      BY <3>2 DEF Goto
    <3> QED
      BY <1>7, <3>1, <3>2 DEF Remove
  <2>3. /\ step'[c] = s /\ turn'[c] = (IF s = "failed" THEN r ELSE After(r)) /\ turn'[c] # 0
        /\ deletedBy'[c] = deletedBy[c] \cup ({r} \X confirmed)
        /\ \A d \in Caller \ {c} : step'[d] = step[d] /\ turn'[d] = 0
    <3>1. After(r) # 0
      BY <1>1, PlannedBefore
    <3> QED
      BY <2>1, <2>2, <3>1 DEF IInv, PlanTypeOK
  <2>4. \A d \in Caller \ {c} : deletedBy'[d] = {}
    BY <2>1, <2>2 DEF ReportInv, IInv, PlanTypeOK
  <2>5. Planned' = Planned
    BY <1>7 DEF Remove, Planned
  <2>6. Lost' = Lost \cup ({r} \X gone)
    <3>1. \A n \in Repository : plan[n] \subseteq Manifest
      BY <1>1 DEF TypeOK
    <3>2. \A rm \in Repository \X Manifest :
            rm[2] \notin stored'[rm[1]] <=> rm[2] \notin stored[rm[1]] \/ rm \in {r} \X gone
      <4> TAKE rm \in Repository \X Manifest
      <4>1. CASE rm[1] = r
        BY <1>1, <2>1, <2>2, <4>1 DEF TypeOK
      <4>2. CASE rm[1] # r
        BY <1>1, <2>1, <2>2, <4>2 DEF TypeOK
      <4> QED
        BY <4>1, <4>2
    <3>3. {r} \X gone \subseteq Repository \X Manifest
      BY <2>1, <2>2, <3>1
    <3> QED
      BY <3>2, <3>3 DEF Lost
  <2>7. deletedBy'[c] \subseteq Lost'
    BY <2>1, <2>2, <2>3, <2>6
  <2>8. \A rm \in Lost' : rm[1] <= r
    <3>1. r \in Nat /\ \A rm \in Planned : rm[1] \in Nat
      BY <1>1, <2>1, PlannedBefore DEF Repository
    <3> QED
      BY <2>1, <2>6, <3>1
  <2>9. s = "rechecking" => deletedBy'[c] = {rm \in Planned : rm[1] < After(r)} /\ Lost' = deletedBy'[c]
    <3>1. SUFFICES ASSUME s = "rechecking"
                   PROVE  deletedBy'[c] = {rm \in Planned : rm[1] < After(r)} /\ Lost' = deletedBy'[c]
      OBVIOUS
    <3>2. {rm \in Planned : rm[1] <= r} = {rm \in Planned : rm[1] < r} \cup ({r} \X plan[r])
      <4>1. r \in Nat /\ \A rm \in Planned : rm[1] \in Nat
        BY <1>1, <2>1, PlannedBefore DEF Repository
      <4>2. \A rm \in Planned : rm[1] = r => rm \in {r} \X plan[r]
        BY DEF Planned
      <4>3. {r} \X plan[r] \subseteq Planned
        BY <1>1, <2>1 DEF Planned, TypeOK
      <4>4. \A rm \in {r} \X plan[r] : rm[1] = r
        OBVIOUS
      <4> QED
        BY <4>1, <4>2, <4>3, <4>4
    <3>3. {rm \in Planned : rm[1] < After(r)} = {rm \in Planned : rm[1] <= r}
      BY <1>1, PlannedBefore
    <3> QED
      BY <2>1, <2>2, <2>3, <2>6, <3>1, <3>2, <3>3
  <2>10. \A d, e \in Caller : turn'[d] # 0 /\ turn'[e] # 0 => d = e
    BY <2>3
  <2>11. ASSUME NEW d \in Caller
         PROVE  /\ step'[d] = "idle" => turn'[d] = 0
                /\ turn'[d] = 0 => step'[d] \in {"idle", "failed"} /\ deletedBy'[d] = {}
                /\ step'[d] = "verifying" => Lost' = {} /\ deletedBy'[d] = {}
                /\ step'[d] \in {"rechecking", "deleting"} =>
                     deletedBy'[d] = {rm \in Planned' : rm[1] < turn'[d]} /\ Lost' = deletedBy'[d]
                /\ step'[d] = "ok" => deletedBy'[d] = Planned' /\ Lost' = Planned'
                /\ step'[d] = "failed" => deletedBy'[d] \subseteq Lost'
                /\ step'[d] = "failed" /\ turn'[d] # 0 => \A rm \in Lost' : rm[1] <= turn'[d]
    <3>1. CASE d = c
      BY <2>2, <2>3, <2>5, <2>7, <2>8, <2>9, <3>1
    <3>2. CASE d # c
      BY <2>1, <2>3, <2>4, <3>2 DEF ReportInv
    <3> QED
      BY <3>1, <3>2
  <2> QED
    BY <2>3, <2>10, <2>11 DEF ReportInv
<1> QED
  BY <1>4, <1>5, <1>6, <1>7 DEF Execute

\* What is counted and reported is true after every step.
LEMMA ReportsStep ==
  ASSUME IInv, CountInv, ReportInv, [PlanNext]_allVars
  PROVE  CountInv' /\ ReportInv'
<1>1. ASSUME UNCHANGED <<mode, stored, plan, step, turn, deletedBy>> PROVE ReportInv'
  <2>1. Lost' = Lost /\ Planned' = Planned
    BY <1>1 DEF Lost, Planned
  <2> QED
    BY <1>1, <2>1 DEF ReportInv
<1>2. CASE Prepare
  <2>1. result # "ok" /\ mode' = mode /\ (mode = "preview" => stored' = stored)
    BY <1>2, RunStep DEF Prepare, IInv, PlanTypeOK
  <2>2. CountInv'
    BY <1>2, RunCounts DEF Prepare, IInv, PlanTypeOK
  <2>3. /\ \A c \in Caller : step[c] = "idle" /\ turn[c] = 0 /\ deletedBy[c] = {}
        /\ UNCHANGED <<step, turn, deletedBy>>
    BY <1>2, <2>1 DEF IInv, OnceInv, ReportInv, Prepare, execution
  <2>4. mode = "preview" => Lost' = {}
    BY <2>1, <2>3 DEF ReportInv, Lost
  <2> QED
    BY <2>1, <2>2, <2>3, <2>4 DEF ReportInv
<1>3. ASSUME NEW c \in Caller, Execute(c) PROVE CountInv' /\ ReportInv'
  <2>1. /\ UNCHANGED <<mode, at, denied, skipped, total, plan, result>>
        /\ stored' = stored \/ step[c] = "deleting"
    BY <1>3 DEF Execute, Begin, Verify, Recheck, Remove, vars
  <2>2. step[c] = "deleting" => mode = "preview" /\ result = "ok"
    BY DEF IInv, OnceInv
  <2> QED
    BY <1>3, <2>1, <2>2, CountsStay, ExecuteReports
<1>4. CASE SeeWrite \/ InterruptExecution \/ (\E r \in Repository : Write(r)) \/ UNCHANGED allVars
  <2>1. UNCHANGED <<vars, execution>>
    BY <1>4 DEF SeeWrite, InterruptExecution, Write, allVars
  <2>2. CountInv'
    BY <2>1, CountsStay DEF vars
  <2> QED
    BY <1>1, <2>1, <2>2 DEF vars, execution
<1> QED
  BY <1>2, <1>3, <1>4 DEF PlanNext

\* Before anything happens, nothing is counted or reported.
LEMMA InitReports == PlanInit => CountInv /\ ReportInv
<1> SUFFICES ASSUME PlanInit PROVE CountInv /\ ReportInv
  OBVIOUS
<1> USE DEF PlanInit, Init
<1>1. Lost = {} /\ Planned = {} /\ Cardinality(Lost) = 0 /\ Cardinality(Planned) = 0
  BY FS_EmptySet DEF Lost, Planned
<1>2. \A c \in Counters : total[c] = 0
  BY DEF Nothing
<1>3. Emptied = {} /\ Cardinality(Emptied) = 0
  <2>1. \A r \in Repository : ~(r < 1)
    BY DEF Repository
  <2> QED
    BY <2>1, FS_EmptySet DEF Emptied
<1>4. /\ total["repositories"] = 0 /\ total["keptRepositories"] = 0 /\ total["deleted"] = 0
      /\ total["skippedRepositories"] = 0 /\ total["seen"] = 0 /\ total["kept"] = 0
  BY <1>2 DEF Counters
<1>5. CountInv
  <2>1. \A m \in Nat : 0 = (1 - 1) * m
    OBVIOUS
  <2> QED
    BY <1>1, <1>3, <1>4, <2>1, Finite DEF CountInv
<1>6. ReportInv
  BY <1>1 DEF ReportInv
<1> QED
  BY <1>5, <1>6

\* Prune and Execute: what is counted of a run and reported of an execution,
\* however it failed, is what happened.
THEOREM ReportsStayTrue == PlanSpec => []ReportsAreTrue
<1>1. IInv /\ CountInv /\ ReportInv => ReportsAreTrue
  <2> SUFFICES ASSUME IInv, CountInv, ReportInv PROVE CountsAddUp /\ ReportsWhatItDid
    BY DEF ReportsAreTrue
  <2>1. CountsAddUp
    <3>1. total["repositories"] = at - 1 /\ total["seen"] = total["kept"] + total["deleted"]
      BY DEF CountInv
    <3>2. ASSUME mode = "live"
          PROVE  /\ total["deleted"] <= Cardinality(Lost)
                 /\ result = "ok" => total["deleted"] = Cardinality(Lost)
                 /\ total["repositories"] - total["keptRepositories"]
                      <= Cardinality({r \in Repository : stored[r] = {}})
      <4>1. /\ total["deleted"] <= Cardinality(Lost)
            /\ result = "ok" => total["deleted"] = Cardinality(Lost)
            /\ total["repositories"] - total["keptRepositories"] <= Cardinality(Emptied)
        BY <3>2 DEF CountInv, Untroubled
      <4>2. Emptied \in SUBSET {r \in Repository : stored[r] = {}}
        BY DEF Emptied
      <4>3. /\ IsFiniteSet({r \in Repository : stored[r] = {}})
            /\ Cardinality(Emptied) \in Nat
            /\ Cardinality({r \in Repository : stored[r] = {}}) \in Nat
        BY Finite, FS_Subset, FS_CardinalityType DEF Emptied
      <4>4. Cardinality(Emptied) <= Cardinality({r \in Repository : stored[r] = {}})
        BY <4>2, <4>3, FS_Subset
      <4>5. total["repositories"] \in Nat /\ total["keptRepositories"] \in Nat
        BY DEF IInv, PlanTypeOK, TypeOK, Counters
      <4> QED
        BY <4>1, <4>3, <4>4, <4>5
    <3>3. ASSUME mode = "preview", result = "ok"
          PROVE  /\ total["skippedRepositories"] = 0
                 /\ total["seen"] = Repositories * Cardinality(Manifest)
                 /\ total["deleted"] = Cardinality(Planned)
      <4>1. /\ total["skippedRepositories"] = 0 /\ total["deleted"] = Cardinality(Planned)
            /\ total["seen"] = (at - 1) * Cardinality(Manifest) /\ at = Repositories + 1
        BY <3>3 DEF CountInv, Untroubled
      <4>2. at - 1 = Repositories
        BY <4>1, RepositoriesNatural
      <4> QED
        BY <4>1, <4>2
    <3> QED
      BY <3>1, <3>2, <3>3 DEF CountsAddUp
  <2>2. ReportsWhatItDid
    <3>1. Planned = UNION {Reviewed(r) : r \in Affected}
      <4>1. \A rm \in Planned : rm \in Reviewed(rm[1]) /\ rm[1] \in Affected
        BY DEF Planned, Reviewed, Affected
      <4>2. \A r \in Affected : Reviewed(r) \subseteq Planned
        BY DEF Planned, Reviewed, Affected, IInv, PlanTypeOK, TypeOK
      <4> QED
        BY <4>1, <4>2
    <3>2. \A c \in Caller : deletedBy[c] \subseteq Lost
      <4>1. \A c \in Caller : step[c] \in Steps
        BY DEF IInv, PlanTypeOK
      <4> QED
        BY <4>1 DEF ReportInv, Steps
    <3> QED
      BY <3>1, <3>2 DEF ReportsWhatItDid, ReportInv
  <2> QED
    BY <2>1, <2>2
<1>2. CountInv /\ ReportInv /\ IInv /\ [PlanNext]_allVars => (CountInv /\ ReportInv)'
  BY ReportsStep
<1>3. PlanSpec => [](CountInv /\ ReportInv)
  BY Invariance, InitReports, <1>2, PTL DEF PlanSpec
<1> QED
  BY Invariance, <1>1, <1>3, PTL

=============================================================================
