-------------------------- MODULE Deletion_proofs --------------------------
(***************************************************************************)
(* What the two ways to delete guarantee for every selection of manifests, *)
(* every graph and every limit of the pool. Of DeleteManifests, PlanInv    *)
(* says what the batches are, ExecInv how far the manifests of each batch  *)
(* can be, LockInv where the locks are that the registry does not hold any *)
(* more; RInv says of DeleteRepository where its locks are.                *)
(***************************************************************************)
EXTENDS Deletion, FiniteSetTheorems, WellFoundedInduction, TLAPS

Placed(m)   == batch[m] # 0
Unplaced(m) == {p \in Parents(m) : batch[p] = 0}

PlanInv ==
  /\ \A m \in Manifest : pending[m] = Cardinality(Unplaced(m))
  /\ ready = {m \in Manifest : batch[m] = 0 /\ pending[m] = 0}
  /\ \A m \in Manifest : Placed(m) =>
       batch[m] <= last /\ \A p \in Parents(m) : Placed(p) /\ batch[p] < batch[m]

\* The tasks of manifests that reached deleteManifest.
Begun == {"unlocking", "deleting", "relocking", "failed", "deleted"}

ExecInv ==
  /\ phase \in {"planning", "refused"} => \A m \in Manifest : task[m] = "waiting"
  /\ phase \in {"deleting", "done"} => \A m \in Manifest : Placed(m)
  /\ phase = "planning" => current = 1
  /\ phase = "done" => Running = {}
  /\ \A m \in Manifest :
       /\ task[m] # "waiting" => batch[m] <= current
       /\ Placed(m) /\ batch[m] < current => m \in Settled
       /\ task[m] \in Begun => \A p \in Parents(m) : task[p] = "deleted"
       /\ m \in deleted <=> task[m] = "deleted"
       /\ m \in deleted => m \in gone
       /\ m \in gone => task[m] \in {"relocking", "failed", "deleted"}

LockInv ==
  /\ \A l \in seen \ locked : l \in relocks \cup warned /\ task[l[1]] \in Begun
  /\ \A l \in sent : task[l[1]] = "unlocking"
  /\ \A l \in relocks : task[l[1]] \in {"unlocking", "deleting", "relocking", "deleted"}

FailureInv ==
  /\ \A m \in Manifest : task[m] = "blocked" => Blocked(m)
  /\ ~cancelled =>
       /\ \A m \in Manifest : task[m] = "failed" => m \in failures
       /\ phase = "done" => \A m \in Manifest : m \in Settled
  /\ phase = "refused" => ready = {} /\ \E m \in Manifest : ~Placed(m)

IInv == TypeOK /\ PlanInv /\ ExecInv /\ LockInv /\ FailureInv

-----------------------------------------------------------------------------
(* Lemmas about the graph *)

\* The parents of a manifest are finitely many manifests of the selection.
LEMMA ParentsFinite ==
  ASSUME NEW m
  PROVE  /\ Parents(m) \subseteq Manifest
         /\ \A S \in SUBSET Parents(m) : IsFiniteSet(S) /\ Cardinality(S) \in Nat
<1>1. Parents(m) \subseteq Manifest
  BY DEF Parents
<1>2. \A S \in SUBSET Manifest : IsFiniteSet(S)
  BY ManifestFinite, FS_Subset
<1> QED
  BY <1>1, <1>2, FS_CardinalityType

\* Some number of a set of numbers is the least.
LEMMA LeastNumber ==
  ASSUME NEW T \in SUBSET Nat, T # {}
  PROVE  \E x \in T : \A y \in T : x <= y
<1> DEFINE Smaller == {ss \in Nat \X Nat : ss[1] < ss[2]}
<1>1. IsWellFoundedOn(Smaller, Nat)
  BY NatLessThanWellFounded DEF OpToRel
<1>2. PICK x \in T : \A y \in T : <<y, x>> \notin Smaller
  <2> HIDE DEF Smaller
  <2> QED
    BY <1>1, WFMin
<1>3. \A y \in T : ~(y < x)
  BY <1>2
<1> QED
  BY <1>3

\* Manifests that each wait for another of them cannot all be placed: the one
\* in the earliest batch waits for none.
LEMMA PlacedHasNoCycle ==
  ASSUME TypeOK, PlanInv,
         NEW S \in SUBSET Manifest, S # {},
         \A m \in S : Placed(m) /\ Parents(m) \cap S # {}
  PROVE  FALSE
<1> DEFINE T == {batch[m] : m \in S}
<1>1. T \in SUBSET Nat /\ T # {}
  BY DEF TypeOK
<1>2. PICK m \in S : \A p \in S : batch[m] <= batch[p]
  <2>1. PICK x \in T : \A y \in T : x <= y
    <3> HIDE DEF T
    <3> QED
      BY <1>1, LeastNumber
  <2> QED
    BY <2>1
<1>3. PICK p \in Parents(m) \cap S : TRUE
  OBVIOUS
<1>4. batch[p] < batch[m]
  BY <1>3 DEF PlanInv
<1> QED
  BY <1>2, <1>3, <1>4 DEF TypeOK

-----------------------------------------------------------------------------
(* Initial states *)

\* The strengthening holds before the first batch is planned.
LEMMA InitInv == Init => IInv
<1> SUFFICES ASSUME Init PROVE IInv
  OBVIOUS
<1> USE DEF Init
<1>1. TypeOK
  <2>1. LocksTypeOK
    BY MayLockAreLocks DEF LocksInit, LocksTypeOK
  <2>2. pending \in [Manifest -> Nat]
    BY ParentsFinite
  <2> QED
    BY <2>1, <2>2 DEF TypeOK, Graphs, Phase, Task
<1>2. PlanInv
  <2>1. \A m \in Manifest : Unplaced(m) = Parents(m)
    BY ParentsFinite DEF Unplaced
  <2>2. \A m \in Manifest : Cardinality(Parents(m)) = 0 <=> Parents(m) = {}
    BY ParentsFinite, FS_EmptySet
  <2> QED
    BY <2>1, <2>2 DEF PlanInv, Placed
<1>3. ExecInv
  BY DEF ExecInv, Placed, Begun, LocksInit
<1>4. LockInv /\ FailureInv
  BY DEF LockInv, FailureInv, LocksInit
<1> QED
  BY <1>1, <1>2, <1>3, <1>4 DEF IInv

-----------------------------------------------------------------------------
(* The plan *)

\* What a round of deletionBatches does to the counts: those of a manifest's
\* parents that are placed are subtracted from what it waits for.
LEMMA PlanBatchInv ==
  ASSUME TypeOK, PlanInv, PlanBatch
  PROVE  PlanInv' /\ pending' \in [Manifest -> Nat] /\ ready' \subseteq Manifest
<1> USE DEF PlanBatch
<1>1. \A m \in Manifest : Parents(m)' = Parents(m)
  BY DEF graph, Parents
<1>2. \A m \in Manifest : Unplaced(m)' = Unplaced(m) \ ready
  BY <1>1, ParentsFinite DEF Unplaced, TypeOK
<1>3. \A m \in Manifest : Unplaced(m) \cap ready = Parents(m) \cap ready
  BY ParentsFinite DEF Unplaced, PlanInv
<1>4. \A m \in Manifest : IsFiniteSet(Unplaced(m))
  BY ParentsFinite DEF Unplaced
<1>5. ASSUME NEW m \in Manifest
      PROVE  /\ pending'[m] = Cardinality(Unplaced(m)')
             /\ pending'[m] \in Nat
  <2>1. /\ IsFiniteSet(Unplaced(m) \ ready)
        /\ Cardinality(Unplaced(m) \ ready) =
             Cardinality(Unplaced(m)) - Cardinality(Unplaced(m) \cap ready)
    BY <1>4, FS_Difference
  <2>2. Cardinality(Unplaced(m) \ ready) \in Nat
    BY <2>1, FS_CardinalityType
  <2> QED
    BY <2>1, <2>2, <1>2, <1>3 DEF PlanInv
<1>6. \A m \in Manifest : pending[m] = 0 <=> Unplaced(m) = {}
  BY <1>4, FS_EmptySet DEF PlanInv
<1>7. ready' = {m \in Manifest : batch'[m] = 0 /\ pending'[m] = 0}
  <2>1. ASSUME NEW m \in Manifest, Parents(m) \cap ready # {}
        PROVE  batch'[m] = 0
    <3>1. PICK p \in Unplaced(m) : TRUE
      BY <2>1, <1>3
    <3>2. ~Placed(m)
      BY <3>1 DEF PlanInv, Placed, Unplaced
    <3>3. m \notin ready
      BY <3>1, <1>6 DEF PlanInv
    <3> QED
      BY <3>2, <3>3 DEF Placed
  <2>2. ASSUME NEW m \in Manifest, batch'[m] = 0, pending'[m] = 0
        PROVE  Parents(m) \cap ready # {}
    <3>1. batch[m] = 0 /\ m \notin ready
      BY <2>2 DEF TypeOK
    <3>2. pending[m] # 0
      BY <3>1 DEF PlanInv
    <3>3. SUFFICES ASSUME Parents(m) \cap ready = {} PROVE FALSE
      OBVIOUS
    <3>4. pending'[m] = pending[m]
      BY <3>3, FS_EmptySet DEF TypeOK
    <3> QED
      BY <2>2, <3>2, <3>4
  <2> QED
    BY <2>1, <2>2
<1>8. ASSUME NEW m \in Manifest, Placed(m)'
      PROVE  batch'[m] <= last' /\ \A p \in Parents(m) : Placed(p)' /\ batch'[p] < batch'[m]
  <2>1. CASE m \in ready
    <3>1. Unplaced(m) = {}
      BY <2>1, <1>6 DEF PlanInv
    <3>2. \A p \in Parents(m) : p \in Manifest /\ Placed(p) /\ batch[p] <= last
      BY <3>1, ParentsFinite DEF Unplaced, Placed, PlanInv
    <3>3. \A p \in Parents(m) : batch'[p] = batch[p]
      BY <3>2 DEF PlanInv, Placed
    <3>4. batch'[m] = last + 1 /\ last' = last + 1
      BY <2>1
    <3>5. \A p \in Parents(m) : batch[p] \in Nat
      BY <3>2 DEF TypeOK
    <3> HIDE DEF PlanBatch
    <3> QED
      BY <3>2, <3>3, <3>4, <3>5 DEF TypeOK, Placed
  <2>2. CASE m \notin ready
    <3>1. Placed(m) /\ batch'[m] = batch[m]
      BY <1>8, <2>2 DEF Placed
    <3>2. \A p \in Parents(m) : p \in Manifest /\ Placed(p) /\ p \notin ready
      BY <3>1, ParentsFinite DEF PlanInv, Placed
    <3> QED
      BY <3>1, <3>2 DEF PlanInv, Placed, TypeOK
  <2> QED
    BY <2>1, <2>2
<1> QED
  BY <1>1, <1>5, <1>7, <1>8 DEF PlanInv, TypeOK

\* Only PlanBatch touches the plan, and nothing touches the graph.
LEMMA PlanUntouched ==
  ASSUME [Next]_vars, ~PlanBatch
  PROVE  UNCHANGED <<graph, plan, seen>>
BY DEF Next, vars, Loop, Goroutine, PlanDone, Skip, Start, EndBatch, UnlockStep, BeginUnlock,
       EndUnlock, Abandon, SendDelete, Confirmed, Refused, RelockStep, RestoreOne, Fail,
       Interrupt, Cancel, lockVars

\* Every step keeps the plan: only PlanBatch writes it.
LEMMA PlanStep == TypeOK /\ PlanInv /\ [Next]_vars => PlanInv'
<1> SUFFICES ASSUME TypeOK, PlanInv, [Next]_vars PROVE PlanInv'
  OBVIOUS
<1>1. CASE PlanBatch
  BY <1>1, PlanBatchInv
<1>2. CASE ~PlanBatch
  BY <1>2, PlanUntouched DEF PlanInv, Placed, Unplaced, Parents, graph, plan
<1> QED
  BY <1>1, <1>2

-----------------------------------------------------------------------------
(* Types *)

\* Every step keeps the types of the variables.
LEMMA TypeStep == TypeOK /\ PlanInv /\ [Next]_vars => TypeOK'
<1> SUFFICES ASSUME TypeOK, PlanInv, [Next]_vars PROVE TypeOK'
  OBVIOUS
<1> USE DEF TypeOK, LocksTypeOK
<1>1. CASE PlanBatch
  BY <1>1, PlanBatchInv DEF PlanBatch, lockVars, graph, result
<1>2. CASE PlanDone
  BY <1>2 DEF PlanDone, lockVars, graph, plan, result, Phase
<1>3. ASSUME NEW m \in Manifest, Skip(m) \/ Start(m) PROVE TypeOK'
  BY <1>3 DEF Skip, Start, lockVars, graph, plan, result, Task
<1>4. CASE EndBatch
  BY <1>4 DEF EndBatch, lockVars, graph, plan, result, Phase
<1>5. ASSUME NEW m \in Manifest, UnlockStep(m) PROVE TypeOK'
  BY <1>5 DEF UnlockStep, BeginUnlock, EndUnlock, Of, graph, plan, result
<1>6. ASSUME NEW m \in Manifest, Abandon(m) \/ SendDelete(m) \/ Fail(m) PROVE TypeOK'
  BY <1>6 DEF Abandon, SendDelete, Fail, lockVars, graph, plan, result, Task
<1>7. ASSUME NEW m \in Manifest, Confirmed(m) \/ Refused(m) PROVE TypeOK'
  BY <1>7 DEF Confirmed, Refused, graph, plan, Task
<1>8. ASSUME NEW m \in Manifest, RelockStep(m) PROVE TypeOK'
  BY <1>8 DEF RelockStep, RestoreOne, Of, graph, plan, result
<1>9. CASE Interrupt
  BY <1>9 DEF Interrupt, Cancel, graph, plan, result
<1>10. CASE UNCHANGED vars
  BY <1>10 DEF vars, lockVars, graph, plan, result
<1> QED
  BY <1>1, <1>2, <1>3, <1>4, <1>5, <1>6, <1>7, <1>8, <1>9, <1>10 DEF Next, Loop, Goroutine

-----------------------------------------------------------------------------
(* The execution *)

\* Every step keeps the order of execution: a worker sends a deletion only for a
\* manifest of the running batch, whose parents are in earlier batches.
LEMMA ExecStep == TypeOK /\ PlanInv /\ ExecInv /\ [Next]_vars => ExecInv'
<1> SUFFICES ASSUME TypeOK, PlanInv, ExecInv, [Next]_vars PROVE ExecInv'
  OBVIOUS
<1>0. ~PlanBatch => \A m \in Manifest : Parents(m)' = Parents(m) /\ batch'[m] = batch[m]
  BY PlanUntouched DEF Parents, graph, plan
<1>p. \A m \in Manifest : Parents(m) \subseteq Manifest
  BY ParentsFinite
<1> USE DEF ExecInv, Begun, Placed
<1>1. CASE PlanBatch
  <2>1. /\ phase' = phase /\ current' = current /\ task' = task /\ deleted' = deleted
        /\ gone' = gone /\ phase = "planning"
    BY <1>1 DEF PlanBatch, lockVars, result
  <2>2. \A m \in Manifest : batch'[m] \in Nat
    BY <1>1 DEF PlanBatch, TypeOK
  <2>3. \A m \in Manifest : task[m] = "waiting"
    BY <2>1
  <2> QED
    BY <2>1, <2>2, <2>3
<1>2. CASE PlanDone
  <2>1. Running' = {}
    BY <1>2 DEF PlanDone, Running
  <2>2. \A m \in Manifest : ~(batch[m] # 0 /\ batch[m] < 1)
    BY DEF TypeOK
  <2> QED
    BY <1>2, <1>0, <2>1, <2>2 DEF PlanDone, PlanBatch, lockVars, plan, result
<1>3. ASSUME NEW m \in Manifest, Skip(m) PROVE ExecInv'
  BY <1>3, <1>0, <1>p DEF Skip, InBatch, lockVars, result, Settled, NotDeleted, TypeOK, PlanBatch
<1>4. ASSUME NEW m \in Manifest, Start(m) PROVE ExecInv'
  <2>1. ASSUME NEW p \in Parents(m) PROVE task[p] = "deleted"
    <3>1. p \in Settled
      BY <1>4, <2>1, <1>p DEF Start, InBatch, PlanInv
    <3>2. p \notin NotDeleted
      BY <1>4, <2>1, <1>p DEF Start, Blocked
    <3> QED
      BY <3>1, <3>2 DEF Settled
  <2> QED
    BY <1>4, <1>0, <1>p, <2>1 DEF Start, InBatch, lockVars, result, Settled, NotDeleted, TypeOK, PlanBatch
<1>5. CASE EndBatch
  <2>1. \A m \in Manifest : batch[m] <= current => m \in Settled
    BY <1>5 DEF EndBatch, TypeOK
  <2>2. phase' = "done" => Running = {}
    BY <1>5, <2>1 DEF EndBatch, Settled, NotDeleted, Running
  <2>3. /\ phase' \in {"deleting", "done"} /\ phase = "deleting"
        /\ task' = task /\ deleted' = deleted /\ gone' = gone
        /\ current' = current \/ current' = current + 1
    BY <1>5 DEF EndBatch, lockVars, result
  <2>4. \A m \in Manifest : batch[m] < current' => batch[m] <= current
    BY <2>3 DEF TypeOK
  <2>5. \A m \in Manifest : batch[m] <= current => batch[m] <= current'
    BY <2>3 DEF TypeOK
  <2>6. Settled' = Settled /\ Running' = Running
    BY <2>3 DEF Settled, NotDeleted, Running
  <2>7. \A m \in Manifest : Parents(m)' = Parents(m) /\ batch'[m] = batch[m]
    BY <1>0, <1>5 DEF EndBatch, PlanBatch
  <2> QED
    BY <2>1, <2>2, <2>3, <2>4, <2>5, <2>6, <2>7
\* A step of the goroutine of m: m is running, so nothing waits for it to be
\* settled.
<1>6. ASSUME NEW m \in Manifest, task[m] \in {"unlocking", "deleting", "relocking"},
             UNCHANGED <<phase, current>>, ~PlanBatch,
             task'[m] \in {"unlocking", "deleting", "relocking", "failed", "deleted"},
             task' = [task EXCEPT ![m] = task'[m]],
             deleted' = IF task'[m] = "deleted" THEN deleted \cup {m} ELSE deleted,
             gone' = gone \/ (gone' = gone \cup {m} /\ task'[m] \in {"relocking", "failed", "deleted"}),
             m \in gone => task'[m] \in {"relocking", "failed", "deleted"},
             task'[m] = "deleted" => m \in gone'
      PROVE  ExecInv'
  <2>1. phase = "deleting"
    BY <1>6 DEF Running, TypeOK, Phase
  <2>2. \A n \in Manifest : n # m => task'[n] = task[n]
    BY <1>6 DEF TypeOK
  <2>3. \A n \in Manifest : n \in Settled => n \in Settled'
    BY <1>6, <2>2 DEF Settled, NotDeleted
  <2>4. \A n \in Manifest : Parents(n)' = Parents(n) /\ batch'[n] = batch[n]
    BY <1>0, <1>6
  <2>5. ASSUME NEW n \in Manifest, task'[n] \in Begun, NEW p \in Parents(n)
        PROVE  task'[p] = "deleted"
    BY <1>6, <2>2, <2>5, <1>p
  <2>6. ASSUME NEW n \in Manifest
        PROVE  /\ n \in deleted' <=> task'[n] = "deleted"
               /\ n \in deleted' => n \in gone'
               /\ n \in gone' => task'[n] \in {"relocking", "failed", "deleted"}
    BY <1>6, <2>2
  <2>7. ASSUME NEW n \in Manifest
        PROVE  /\ task'[n] # "waiting" => batch'[n] <= current'
               /\ batch'[n] # 0 /\ batch'[n] < current' => n \in Settled'
    BY <1>6, <2>2, <2>3, <2>4
  <2> QED
    BY <1>6, <2>1, <2>4, <2>5, <2>6, <2>7
<1>7. ASSUME NEW m \in Manifest, Goroutine(m) PROVE ExecInv'
  <2> USE DEF TypeOK
  <2>0. task = [task EXCEPT ![m] = task[m]]
    OBVIOUS
  <2>1. CASE UnlockStep(m)
    <3>1. /\ task[m] = "unlocking" /\ m \notin gone /\ ~PlanBatch
          /\ UNCHANGED <<task, deleted, gone, phase, current>>
      BY <2>1 DEF UnlockStep, BeginUnlock, EndUnlock, plan, result, PlanBatch
    <3> HIDE DEF ExecInv, TypeOK
    <3> QED
      BY <2>0, <3>1, <1>6
  <2>2. CASE Abandon(m) \/ SendDelete(m)
    <3>1. /\ task[m] = "unlocking" /\ m \notin gone /\ ~PlanBatch
          /\ \/ task' = [task EXCEPT ![m] = "relocking"]
             \/ task' = [task EXCEPT ![m] = "deleting"]
          /\ UNCHANGED <<deleted, gone, phase, current>>
      BY <2>2 DEF Abandon, SendDelete, plan, result, lockVars, PlanBatch
    <3>2. task'[m] \in {"relocking", "deleting"} /\ task' = [task EXCEPT ![m] = task'[m]]
      BY <3>1
    <3> HIDE DEF ExecInv, TypeOK
    <3> QED
      BY <3>1, <3>2, <1>6
  <2>3. CASE Confirmed(m)
    BY <2>3, <1>6 DEF Confirmed, plan, PlanBatch
  <2>4. CASE Refused(m)
    BY <2>4, <1>6 DEF Refused, plan, PlanBatch
  <2>5. CASE RelockStep(m)
    BY <2>5, <1>6 DEF RelockStep, RestoreOne, plan, result, PlanBatch
  <2>6. CASE Fail(m)
    BY <2>6, <1>6 DEF Fail, plan, result, lockVars, PlanBatch
  <2> QED
    BY <1>7, <2>1, <2>2, <2>3, <2>4, <2>5, <2>6 DEF Goroutine
<1>8. CASE Interrupt \/ UNCHANGED vars
  BY <1>8, <1>0 DEF Interrupt, Cancel, vars, lockVars, plan, result, PlanBatch, Settled, NotDeleted, Running
<1> QED
  BY <1>1, <1>2, <1>3, <1>4, <1>5, <1>7, <1>8 DEF Next, Loop

-----------------------------------------------------------------------------
(* The locks *)

\* Only the goroutine of m, and only while it unlocks or relocks, touches the
\* locks of m; what it gives back it has first asked for.
LEMMA LockStep == TypeOK /\ ExecInv /\ LockInv /\ [Next]_vars => LockInv'
<1> SUFFICES ASSUME TypeOK, ExecInv, LockInv, [Next]_vars PROVE LockInv'
  OBVIOUS
<1> USE DEF LockInv, Begun
<1>1. \A l \in seen \cup sent \cup relocks : l[1] \in Manifest
  BY DEF TypeOK, LocksTypeOK, Lock
<1>2. CASE PlanBatch \/ PlanDone \/ EndBatch
  BY <1>2 DEF PlanBatch, PlanDone, EndBatch, lockVars
<1>3. ASSUME NEW m \in Manifest, Skip(m) \/ Start(m) PROVE LockInv'
  <2>1. task[m] = "waiting"
    BY <1>3 DEF Skip, Start, InBatch
  <2>2. UNCHANGED lockVars /\ \A n \in Manifest \ {m} : task'[n] = task[n]
    BY <1>3 DEF Skip, Start, TypeOK
  <2> QED
    BY <1>1, <2>1, <2>2 DEF lockVars
<1>4. ASSUME NEW m \in Manifest, UnlockStep(m) PROVE LockInv'
  BY <1>1, <1>4 DEF UnlockStep, BeginUnlock, EndUnlock, Of
<1>5. ASSUME NEW m \in Manifest, Abandon(m) \/ SendDelete(m) PROVE LockInv'
  <2>1. \A l \in sent : l[1] # m
    BY <1>5 DEF Abandon, SendDelete, UnlockOver, Of
  <2>2. task[m] = "unlocking" /\ task'[m] \in {"relocking", "deleting"}
    BY <1>5 DEF Abandon, SendDelete, TypeOK
  <2>3. UNCHANGED lockVars /\ \A n \in Manifest \ {m} : task'[n] = task[n]
    BY <1>5 DEF Abandon, SendDelete, TypeOK
  <2> QED
    BY <1>1, <2>1, <2>2, <2>3 DEF lockVars
<1>6. ASSUME NEW m \in Manifest, Confirmed(m) \/ Refused(m) PROVE LockInv'
  <2>1. task[m] = "deleting" /\ task'[m] \in {"deleted", "relocking"}
    BY <1>6 DEF Confirmed, Refused, TypeOK
  <2>2. /\ UNCHANGED <<seen, locked, sent, relocks, warned>>
        /\ \A n \in Manifest \ {m} : task'[n] = task[n]
    BY <1>6 DEF Confirmed, Refused, TypeOK
  <2> QED
    BY <1>1, <2>1, <2>2
<1>7. ASSUME NEW m \in Manifest, RelockStep(m) PROVE LockInv'
  BY <1>1, <1>7 DEF RelockStep, RestoreOne, Of
<1>8. ASSUME NEW m \in Manifest, Fail(m) PROVE LockInv'
  <2>1. \A l \in relocks : l[1] # m
    BY <1>8 DEF Fail, Of
  <2>2. task[m] = "relocking" /\ task'[m] = "failed"
    BY <1>8 DEF Fail, TypeOK
  <2>3. UNCHANGED lockVars /\ \A n \in Manifest \ {m} : task'[n] = task[n]
    BY <1>8 DEF Fail, TypeOK
  <2> QED
    BY <1>1, <2>1, <2>2, <2>3 DEF lockVars
<1>9. CASE Interrupt \/ UNCHANGED vars
  BY <1>9 DEF Interrupt, Cancel, vars, lockVars
<1> QED
  BY <1>2, <1>3, <1>4, <1>5, <1>6, <1>7, <1>8, <1>9 DEF Next, Loop, Goroutine

-----------------------------------------------------------------------------
(* The failures *)

\* Every step keeps the account of failures: what is not deleted failed, was
\* cancelled, or waits for a parent that is not deleted.
LEMMA FailureStep == TypeOK /\ PlanInv /\ ExecInv /\ FailureInv /\ [Next]_vars => FailureInv'
<1> SUFFICES ASSUME TypeOK, PlanInv, ExecInv, FailureInv, [Next]_vars PROVE FailureInv'
  OBVIOUS
<1> USE DEF FailureInv
\* What is not deleted stays so, hence what is blocked stays blocked.
<1>0. ASSUME NotDeleted \subseteq NotDeleted',
             \A m \in Manifest : Parents(m)' = Parents(m)
      PROVE  \A m \in Manifest : Blocked(m) => Blocked(m)'
  BY <1>0 DEF Blocked
<1>g. ~PlanBatch => \A m \in Manifest : Parents(m)' = Parents(m) /\ Placed(m)' = Placed(m)
  BY PlanUntouched DEF Parents, graph, plan, Placed
<1>1. CASE PlanBatch
  BY <1>1 DEF PlanBatch, ExecInv, lockVars, result
<1>2. CASE PlanDone
  <2>1. phase' = "done" /\ ~cancelled => Manifest = {}
    BY <1>2 DEF PlanDone, PlanInv, Placed, TypeOK
  <2>2. \A m \in Manifest : task'[m] = "waiting"
    BY <1>2 DEF PlanDone, ExecInv
  <2>3. phase' = "refused" => \E m \in Manifest : batch[m] = 0
    BY <1>2 DEF PlanDone
  <2> QED
    BY <1>2, <2>1, <2>2, <2>3 DEF PlanDone, lockVars, plan, Placed
<1>3. ASSUME NEW m \in Manifest, Skip(m) \/ Start(m) PROVE FailureInv'
  <2>1. /\ task[m] = "waiting" /\ phase = "deleting"
        /\ UNCHANGED <<phase, ready, cancelled, failures>>
        /\ task'[m] = "blocked" => Blocked(m)
        /\ task'[m] # "relocking" /\ (task'[m] = "failed" => cancelled)
        /\ \A n \in Manifest \ {m} : task'[n] = task[n]
        /\ ~PlanBatch
    BY <1>3 DEF Skip, Start, InBatch, TypeOK, lockVars, plan, result, PlanBatch
  <2>2. NotDeleted \subseteq NotDeleted'
    BY <2>1 DEF NotDeleted
  <2> QED
    BY <1>0, <1>g, <2>1, <2>2
<1>4. CASE EndBatch
  <2>1. /\ UNCHANGED <<task, cancelled, failures, ready>>
        /\ phase' # "refused" /\ ~PlanBatch
        /\ phase' = "done" /\ ~cancelled =>
             current = last /\ \A n \in Manifest : batch[n] = current => n \in Settled
    BY <1>4 DEF EndBatch, lockVars, plan, result, PlanBatch
  <2>2. NotDeleted' = NotDeleted /\ Settled' = Settled
    BY <2>1 DEF NotDeleted, Settled
  <2>3. phase' = "done" /\ ~cancelled => \A n \in Manifest : n \in Settled
    BY <1>4, <2>1 DEF EndBatch, ExecInv, PlanInv, TypeOK, Placed
  <2> QED
    BY <1>0, <1>g, <2>1, <2>2, <2>3
<1>5. ASSUME NEW m \in Manifest, Goroutine(m) PROVE FailureInv'
  <2>1. task[m] \in {"unlocking", "deleting", "relocking"}
    BY <1>5 DEF Goroutine, UnlockStep, Abandon, SendDelete, Confirmed, Refused, RelockStep, Fail
  <2>2. phase = "deleting"
    BY <2>1 DEF ExecInv, Running, TypeOK, Phase
  <2>3. /\ UNCHANGED <<phase, ready, cancelled>>
        /\ failures \subseteq failures'
        /\ task'[m] # "blocked"
        /\ ~cancelled /\ task'[m] = "failed" => m \in failures'
        /\ \A n \in Manifest \ {m} : task'[n] = task[n]
    <3> USE DEF plan, result, lockVars, TypeOK
    <3>1. CASE UnlockStep(m)
      BY <3>1 DEF UnlockStep, BeginUnlock, EndUnlock
    <3>2. CASE Abandon(m) \/ SendDelete(m) \/ Confirmed(m) \/ Refused(m) \/ Fail(m)
      BY <3>2 DEF Abandon, SendDelete, Confirmed, Refused, Fail
    <3>3. CASE RelockStep(m)
      BY <3>3 DEF RelockStep, RestoreOne
    <3> QED
      BY <1>5, <3>1, <3>2, <3>3 DEF Goroutine
  <2>4. NotDeleted \subseteq NotDeleted' /\ ~PlanBatch
    BY <2>1, <2>2, <2>3 DEF NotDeleted, PlanBatch
  <2> QED
    BY <1>0, <1>g, <2>2, <2>3, <2>4
<1>6. CASE Interrupt \/ UNCHANGED vars
  <2>1. UNCHANGED <<task, failures, ready, phase>> /\ (cancelled => cancelled')
    BY <1>6 DEF Interrupt, Cancel, vars, lockVars, plan, result
  <2>2. ~PlanBatch \/ phase = "planning"
    BY DEF PlanBatch
  <2>3. NotDeleted' = NotDeleted /\ Settled' = Settled
    BY <2>1 DEF NotDeleted, Settled
  <2>4. \A m \in Manifest : Parents(m)' = Parents(m) /\ Placed(m)' = Placed(m)
    BY <1>6 DEF Interrupt, vars, graph, plan, Parents, Placed
  <2> QED
    BY <1>0, <2>1, <2>3, <2>4
<1> QED
  BY <1>1, <1>2, <1>3, <1>4, <1>5, <1>6 DEF Next, Loop

-----------------------------------------------------------------------------
(* Theorems *)

\* The strengthening all safety properties follow from.
THEOREM Invariance == Spec => []IInv
<1>1. IInv /\ [Next]_vars => IInv'
  BY TypeStep, PlanStep, ExecStep, LockStep, FailureStep DEF IInv
<1> QED
  BY InitInv, <1>1, PTL DEF Spec

\* Every variable keeps its type; in particular deletionBatches never counts a
\* manifest's parents below zero.
THEOREM TypeCorrect == Spec => []TypeOK
<1>1. IInv => TypeOK
  BY DEF IInv
<1> QED
  BY Invariance, <1>1, PTL

\* Nothing is deleted before the indexes that list it, and no referrer (a
\* signature) before the image it refers to.
THEOREM DependenciesAreSafe == Spec => []DependenciesOutliveParents
<1>1. IInv => DependenciesOutliveParents
  <2> SUFFICES ASSUME IInv, NEW m \in gone PROVE Parents(m) \subseteq gone
    BY DEF DependenciesOutliveParents, Parents, IInv, TypeOK, LocksTypeOK
  <2> QED
    BY ParentsFinite DEF IInv, ExecInv, Begun, TypeOK, LocksTypeOK
<1> QED
  BY Invariance, <1>1, PTL

\* What the call returns as deleted, the registry no longer has.
THEOREM DeletedAreGone == Spec => []DeletedIsGone
<1>1. IInv => DeletedIsGone
  BY DEF IInv, ExecInv, DeletedIsGone, TypeOK
<1> QED
  BY Invariance, <1>1, PTL

\* A lock is only ever removed once everything that could keep its manifest
\* from being deleted is gone.
THEOREM OnlyUnblockedAreUnlocked == Spec => []UnlockedOnlyUnblocked
<1>1. IInv => UnlockedOnlyUnblocked
  BY ParentsFinite DEF IInv, ExecInv, LockInv, UnlockedOnlyUnblocked, TypeOK, LocksTypeOK, Lock
<1> QED
  BY Invariance, <1>1, PTL

\* A manifest that was not deleted has its locks back, or a warning names the
\* ones it lost.
THEOREM LocksAreRestored == Spec => []LocksRestored
<1>1. IInv => LocksRestored
  BY DEF IInv, ExecInv, LockInv, LocksRestored, Settled, NotDeleted, Begun, TypeOK, LocksTypeOK, Lock
<1> QED
  BY Invariance, <1>1, PTL

\* The invariant says it of every state: without a failure, what is not deleted
\* would have to wait for something else that is not, in circles.
LEMMA OnlyFailuresBlockInv == IInv => OnlyFailuresBlock
<1> SUFFICES ASSUME IInv, phase = "done", ~cancelled
             PROVE  /\ \A m \in Manifest \ deleted :
                         m \in failures \/ Parents(m) \ deleted # {}
                    /\ failures = {} => deleted = Manifest
  BY DEF OnlyFailuresBlock
<1> USE DEF IInv
<1>1. \A m \in Manifest : m \notin deleted <=> m \in NotDeleted
  BY DEF FailureInv, ExecInv, Settled, NotDeleted
<1>2. \A m \in NotDeleted : m \in failures \/ Parents(m) \cap NotDeleted # {}
  BY DEF FailureInv, NotDeleted, Blocked
<1>3. \A m \in Manifest : Parents(m) \cap NotDeleted \subseteq Parents(m) \ deleted
  BY <1>1, ParentsFinite
<1>4. ASSUME failures = {} PROVE deleted = Manifest
  <2>1. \A m \in NotDeleted : Placed(m) /\ Parents(m) \cap NotDeleted # {}
    BY <1>2, <1>4 DEF ExecInv, NotDeleted
  <2>2. NotDeleted = {}
    <3>1. NotDeleted \in SUBSET Manifest
      BY DEF NotDeleted
    <3> QED
      BY <2>1, <3>1, PlacedHasNoCycle
  <2> QED
    BY <1>1, <2>2 DEF TypeOK
<1> QED
  BY <1>1, <1>2, <1>3, <1>4

\* An uninterrupted call leaves out only what failed and what depends on it,
\* and without a failure it leaves out nothing.
THEOREM OnlyFailuresKeep == Spec => []OnlyFailuresBlock
BY Invariance, OnlyFailuresBlockInv, PTL

\* deletionBatches refuses the cyclic graphs and no other, before anything is
\* unlocked or deleted.
THEOREM CyclesAreRefused == Spec => []RefusesCycles
<1>1. IInv => RefusesCycles
  <2> SUFFICES ASSUME IInv PROVE RefusesCycles
    OBVIOUS
  <2> USE DEF IInv
  <2>1. ASSUME phase = "refused" PROVE Cyclic /\ gone = {} /\ locked = seen
    <3> DEFINE S == {m \in Manifest : ~Placed(m)}
    <3>1. S # {}
      BY <2>1 DEF FailureInv
    <3>2. \A m \in S : pending[m] # 0
      BY <2>1 DEF FailureInv, PlanInv, Placed
    <3>3. \A m \in S : Unplaced(m) # {}
      BY <3>2, FS_EmptySet DEF PlanInv
    <3>4. \A m \in S : Parents(m) \cap S # {}
      BY <3>3, ParentsFinite DEF Unplaced, Placed
    <3>5. Cyclic
      <4>1. S \in SUBSET Manifest
        OBVIOUS
      <4> HIDE DEF S
      <4> QED
        BY <3>1, <3>4, <4>1 DEF Cyclic
    <3>6. \A m \in Manifest : task[m] = "waiting"
      BY <2>1 DEF ExecInv
    <3>7. gone = {}
      BY <3>6 DEF ExecInv, TypeOK, LocksTypeOK
    <3>8. locked = seen
      BY <3>6 DEF LockInv, Begun, TypeOK, LocksTypeOK, Lock
    <3> QED
      BY <3>5, <3>7, <3>8
  <2>2. ASSUME phase \in {"deleting", "done"}, Cyclic PROVE FALSE
    <3>1. PICK S \in SUBSET Manifest : S # {} /\ \A m \in S : Parents(m) \cap S # {}
      BY <2>2 DEF Cyclic
    <3>2. \A m \in S : Placed(m)
      BY <2>2 DEF ExecInv
    <3> QED
      BY <3>1, <3>2, PlacedHasNoCycle
  <2> QED
    BY <2>1, <2>2 DEF RefusesCycles
<1> QED
  BY Invariance, <1>1, PTL

\* A manifest keeps or regains its locks unless it was deleted, and those kept
\* because of another never lose one.
THEOREM LocksStaySafe == Spec => []LocksAreSafe
<1>1. UnlockedOnlyUnblocked /\ LocksRestored => LocksAreSafe
  BY DEF LocksAreSafe
<1> QED
  BY OnlyUnblockedAreUnlocked, LocksAreRestored, <1>1, PTL

\* What fails keeps what depends on it and no more, and a cycle keeps everything.
THEOREM FailuresStayContained == Spec => []FailuresAreContained
<1>1. OnlyFailuresBlock /\ RefusesCycles => FailuresAreContained
  BY DEF FailuresAreContained
<1> QED
  BY OnlyFailuresKeep, CyclesAreRefused, <1>1, PTL

-----------------------------------------------------------------------------
(* Refinement *)

\* Once all manifests are placed, those of the last batch are the only ones
\* left to settle, so a call that returns without a failure deleted everything.
LEMMA CompleteAtReturn ==
  ASSUME IInv, IInv', [Next]_vars, phase' = "done", ~cancelled', failures' = {}
  PROVE  deleted' = Manifest
<1>1. (IInv => OnlyFailuresBlock)'
  BY OnlyFailuresBlockInv, PTL
<1> QED
  BY <1>1 DEF OnlyFailuresBlock

\* The call does what OrderedDeletion promises: a confirmed deletion, or one
\* that fails although it took effect, removes a manifest everything before is
\* gone of; the end of the plan or of the last batch returns the outcome.
THEOREM Refinement == Spec => ImplementsOrderedDeletion
<1> DEFINE before == [m \in Manifest |-> Parents(m)]
<1>1. Init => Abstract!Init
  BY ParentsFinite DEF Init, LocksInit, Outcome, Abstract!Init
<1>2. IInv /\ IInv' /\ [Next]_vars => [Abstract!Next]_(Abstract!vars)
  <2> SUFFICES ASSUME IInv, IInv', [Next]_vars
               PROVE  [Abstract!Next]_(Abstract!vars)
    OBVIOUS
  <2>1. before' = before
    BY PlanUntouched DEF PlanBatch, graph, Parents
  <2>2. ASSUME UNCHANGED <<gone, deleted, phase>>,
               phase = "done" => UNCHANGED <<failures, cancelled>>
        PROVE  UNCHANGED Abstract!vars
    BY <2>1, <2>2 DEF Outcome, Abstract!vars
  <2>3. ASSUME UNCHANGED <<gone, deleted, failures, cancelled>>,
               phase \in {"planning", "deleting"}, phase' \in {"done", "refused"}
        PROVE  Abstract!Return
    <3>1. phase' = "done" /\ failures' = {} /\ ~cancelled' => deleted = Manifest
      BY <2>3, CompleteAtReturn
    <3> QED
      BY <2>1, <2>3, <3>1 DEF Outcome, Abstract!Return
  <2>4. CASE PlanBatch
    BY <2>2, <2>4 DEF PlanBatch, lockVars, result
  <2>5. CASE PlanDone
    <3>1. CASE phase' = "deleting"
      BY <2>1, <2>5, <3>1 DEF PlanDone, lockVars, result, Outcome, Abstract!vars
    <3>2. CASE phase' \in {"done", "refused"}
      BY <2>3, <2>5, <3>2 DEF PlanDone, lockVars, result, Abstract!Next
    <3> QED
      BY <2>5, <3>1, <3>2 DEF PlanDone
  <2>6. CASE EndBatch
    BY <2>2, <2>3, <2>6 DEF EndBatch, lockVars, result, Abstract!Next
  <2>7. ASSUME NEW m \in Manifest, Skip(m) \/ Start(m) PROVE UNCHANGED Abstract!vars
    BY <2>2, <2>7 DEF Skip, Start, lockVars, result
  <2>8. ASSUME NEW m \in Manifest,
               UnlockStep(m) \/ Abandon(m) \/ SendDelete(m) \/ RelockStep(m) \/ Fail(m)
        PROVE  UNCHANGED Abstract!vars
    <3>1. CASE UnlockStep(m) \/ Abandon(m) \/ SendDelete(m) \/ RelockStep(m)
      BY <2>2, <3>1 DEF UnlockStep, BeginUnlock, EndUnlock, Abandon, SendDelete, RelockStep,
                        RestoreOne, lockVars, result
    <3>2. CASE Fail(m)
      <4>1. task[m] = "relocking" /\ UNCHANGED <<gone, deleted, phase>>
        BY <3>2 DEF Fail
      <4>2. phase = "deleting"
        BY <4>1 DEF IInv, ExecInv, Running, TypeOK, Phase
      <4> QED
        BY <2>2, <4>1, <4>2
    <3> QED
      BY <2>8, <3>1, <3>2
  <2>9. ASSUME NEW m \in Manifest, Confirmed(m) \/ Refused(m)
        PROVE  [Abstract!Next]_(Abstract!vars)
    <3>1. task[m] = "deleting" /\ phase' = phase /\ phase = "deleting"
      BY <2>9 DEF Confirmed, Refused, IInv, ExecInv, Running, TypeOK, Phase
    <3>2. m \notin gone /\ m \notin deleted
      BY <3>1 DEF IInv, ExecInv
    <3>3. before[m] \subseteq gone
      BY <3>1, ParentsFinite DEF IInv, ExecInv, Begun
    <3>4. CASE gone' = gone
      BY <2>2, <2>9, <3>1, <3>2, <3>4 DEF Confirmed, Refused
    <3>5. CASE gone' = gone \cup {m}
      <4>1. deleted' \in {deleted, deleted \cup {m}}
        BY <2>9 DEF Confirmed, Refused
      <4>2. Outcome = "running" /\ Outcome' = "running"
        BY <3>1 DEF Outcome
      <4>3. Abstract!Remove(m)
        BY <2>1, <3>2, <3>3, <3>5, <4>1, <4>2 DEF Abstract!Remove
      <4> QED
        BY <4>3 DEF Abstract!Next
    <3> QED
      BY <2>9, <3>4, <3>5 DEF Confirmed, Refused
  <2>10. CASE Interrupt
    BY <2>2, <2>10 DEF Interrupt, Cancel, result
  <2>11. CASE UNCHANGED vars
    BY <2>2, <2>11 DEF vars, lockVars, result
  <2> QED
    BY <2>4, <2>5, <2>6, <2>7, <2>8, <2>9, <2>10, <2>11 DEF Next, Loop, Goroutine
<1> QED
  BY Invariance, <1>1, <1>2, PTL DEF Spec, ImplementsOrderedDeletion, Abstract!Spec

-----------------------------------------------------------------------------
(* DeleteRepository *)

\* A request is under way only on behalf of a goroutine, the goroutines are done
\* before the deletion begins, and a lock the registry lost is waiting to be
\* restored or was warned of.
RInv ==
  /\ R!TypeOK
  /\ \A l \in rsent : l[1] \in unlocking
  /\ unlocking # {} => rphase = "unlocking"
  /\ rphase \in {"checking", "failed"} => rrelocks = {}
  /\ rseen \ rlocked \subseteq rrelocks \cup rwarned

\* A call begins with every lock as the registry has it.
LEMMA RInitInv == R!Init => RInv
BY MayLockAreLocks DEF R!Init, R!LocksInit, RInv, R!TypeOK, R!LocksTypeOK, R!Phase, Lock, OnManifest,
   R!Lock, R!OnManifest

\* Whichever unlock, request or restore comes next, the invariant survives.
LEMMA RNextInv == RInv /\ [R!Next]_(R!vars) => RInv'
<1> SUFFICES ASSUME RInv, [R!Next]_(R!vars) PROVE RInv'
  OBVIOUS
<1> USE DEF RInv, R!TypeOK, R!LocksTypeOK, R!Phase
<1>1. CASE R!Check
  BY <1>1 DEF R!Check, R!lockVars
<1>2. ASSUME NEW m \in Manifest, R!StartUnlock(m) PROVE RInv'
  BY <1>2 DEF R!StartUnlock, R!lockVars
<1>3. CASE R!SendDelete
  BY <1>3 DEF R!SendDelete, R!AllUnlocked, R!lockVars
<1>4. CASE R!Deleted
  BY <1>4 DEF R!Deleted
<1>5. CASE R!Refused
  BY <1>5 DEF R!Refused
<1>6. CASE R!RelockStep
  <2>1. PICK l \in rrelocks : R!RestoreOne(l)
    BY <1>6 DEF R!RelockStep
  <2>2. rlocked' \in {rlocked, rlocked \cup {l}} /\ (l \notin rlocked' => l \in rwarned')
    BY <2>1 DEF R!RestoreOne
  <2> QED
    BY <1>6, <2>1, <2>2 DEF R!RelockStep, R!RestoreOne
<1>7. CASE R!Fail
  BY <1>7 DEF R!Fail, R!lockVars
<1>8. ASSUME NEW m \in Manifest, R!UnlockStep(m) PROVE RInv'
  <2>1. CASE \E l \in R!Of(m, rtodo) : R!BeginUnlock(m, l)
    BY <1>8, <2>1 DEF R!UnlockStep, R!BeginUnlock, R!NextToUnlock, R!Of
  <2>2. CASE \E l \in R!Of(m, rsent) : R!EndUnlock(l)
    BY <1>8, <2>2 DEF R!UnlockStep, R!EndUnlock, R!Of
  <2> QED
    BY <1>8, <2>1, <2>2 DEF R!UnlockStep
<1>9. ASSUME NEW m \in Manifest, R!Unlocked(m) PROVE RInv'
  BY <1>9 DEF R!Unlocked, R!UnlockOver, R!Of, R!lockVars
<1>10. CASE R!Interrupt
  BY <1>10 DEF R!Interrupt, R!Cancel
<1>11. CASE UNCHANGED R!vars
  BY <1>11 DEF R!vars, R!lockVars
<1> QED
  BY <1>1, <1>2, <1>3, <1>4, <1>5, <1>6, <1>7, <1>8, <1>9, <1>10, <1>11 DEF R!Next, R!Main, R!Goroutine

\* The invariant holds throughout.
THEOREM RInvariance == R!Spec => []RInv
BY RInitInv, RNextInv, PTL DEF R!Spec

\* The variables keep their types.
THEOREM RTypeCorrect == R!Spec => [](R!TypeOK)
<1>1. RInv => R!TypeOK
  BY DEF RInv
<1> QED
  BY RInvariance, <1>1, PTL

\* A call that fails leaves no lock removed without a warning, and once the
\* deletion or the restore has begun no lock is removed any more.
THEOREM RepositoryLocksStaySafe == R!Spec => RepositoryLocksAreSafe
<1>1. RInv => R!LocksRestored
  BY DEF RInv, R!LocksRestored
<1>2. RInv /\ [R!Next]_(R!vars) =>
        [(rphase \in {"deleting", "relocking"}) => rlocked \subseteq rlocked']_(R!vars)
  <2> SUFFICES ASSUME RInv, R!Next, rphase \in {"deleting", "relocking"}
               PROVE  rlocked \subseteq rlocked'
    BY DEF R!vars
  <2>1. unlocking = {}
    BY DEF RInv
  <2>2. CASE R!RelockStep
    BY <2>2 DEF R!RelockStep, R!RestoreOne
  <2>3. CASE R!Deleted \/ R!Refused \/ R!Fail \/ R!Interrupt
    BY <2>3 DEF R!Deleted, R!Refused, R!Fail, R!Interrupt, R!Cancel, R!lockVars
  <2> QED
    BY <2>1, <2>2, <2>3 DEF R!Next, R!Main, R!Goroutine, R!UnlockStep, R!Unlocked, R!Check, R!StartUnlock, R!SendDelete
<1> QED
  BY RInvariance, <1>1, <1>2, PTL DEF R!Spec, RepositoryLocksAreSafe,
    R!RepositoryLocksAreSafe, R!UnlockingIsOver

=============================================================================
