----------------------- MODULE PruneRepository_proofs -----------------------
(***************************************************************************)
(* What one pruneRepository call may take from a registry others write to, *)
(* whatever they write before the recheck and however pages are numbered.  *)
(* RecheckInv says what the pages listed again have shown, DeletionInv     *)
(* that the repository is what was inspected but for what was deleted.     *)
(***************************************************************************)
EXTENDS PruneRepository, FiniteSetTheorems, SequenceTheorems, TLAPS

\* What the pages before the next one hold, as long as nobody writes.
Seen == IF opt.numbered THEN {repo[i] : i \in 1..next \cap DOMAIN repo}
        ELSE {m \in Stored : m <= next}

AsInspected(m) == m \in Listed /\ snapshot[m] = version[m]

PhaseInv ==
  /\ removed # {} => stage \in {"deleting", "deleted", "failed"}
  /\ stage \in {"rechecking", "deleting"} \/ removed # {} => toDelete = Listed \ Kept
  /\ stage = "deleting" /\ Whole => removed = {}

RecheckInv ==
  stage = "rechecking" /\ ~late =>
    /\ remaining \subseteq Listed /\ Listed \subseteq remaining \cup Seen
    /\ \A m \in Seen : AsInspected(m)

DeletionInv ==
  (stage = "deleting" \/ removed # {}) /\ ~late =>
    /\ Stored = Listed \ removed
    /\ removed \subseteq toDelete
    /\ \A m \in Listed : AsInspected(m)
    /\ \A p \in Stored : lists[p] \cap removed = {}

IInv == TypeOK /\ PhaseInv /\ RecheckInv /\ DeletionInv

-----------------------------------------------------------------------------
(* The repository as a sequence *)

\* A sequence without its ith element.
LEMMA RemoveAtDoes ==
  ASSUME NEW S, NEW s \in Seq(S), NEW i \in 1..Len(s)
  PROVE  /\ RemoveAt(s, i) \in Seq(S) /\ Len(RemoveAt(s, i)) = Len(s) - 1
         /\ \A j \in 1..Len(s) - 1 : RemoveAt(s, i)[j] = IF j < i THEN s[j] ELSE s[j + 1]
<1> DEFINE before == SubSeq(s, 1, i - 1)
           after  == SubSeq(s, i + 1, Len(s))
<1>1. Len(s) \in Nat /\ i \in Nat
  OBVIOUS
<1>2. /\ before \in Seq(S) /\ Len(before) = i - 1
      /\ \A j \in 1..i - 1 : before[j] = s[j]
  OBVIOUS
<1>3. /\ after \in Seq(S) /\ Len(after) = Len(s) - i
      /\ \A j \in 1..Len(s) - i : after[j] = s[i + j]
  OBVIOUS
<1>4. RemoveAt(s, i) = before \o after
  BY DEF RemoveAt
<1> HIDE DEF before, after
<1>5. /\ before \o after \in Seq(S) /\ Len(before \o after) = Len(before) + Len(after)
      /\ \A j \in 1..Len(before) + Len(after) :
           (before \o after)[j] = IF j <= Len(before) THEN before[j] ELSE after[j - Len(before)]
  <2> USE <1>2, <1>3
  <2> QED
    BY ConcatProperties
<1>6. ASSUME NEW j \in 1..Len(s) - 1
      PROVE  RemoveAt(s, i)[j] = IF j < i THEN s[j] ELSE s[j + 1]
  <2>1. (before \o after)[j] = IF j <= i - 1 THEN before[j] ELSE after[j - (i - 1)]
    BY <1>1, <1>2, <1>3, <1>5
  <2>2. CASE j < i
    BY <1>1, <1>2, <1>4, <2>1, <2>2
  <2>3. CASE j >= i
    <3>1. j - (i - 1) \in 1..Len(s) - i /\ i + (j - (i - 1)) = j + 1
      BY <1>1, <2>3
    <3>2. (before \o after)[j] = after[j - (i - 1)]
      BY <1>1, <2>1, <2>3
    <3>3. after[j - (i - 1)] = s[j + 1]
      BY <1>3, <3>1
    <3> QED
      BY <1>1, <1>4, <2>3, <3>2, <3>3
  <2> QED
    BY <1>1, <2>2, <2>3
<1> QED
  BY <1>1, <1>2, <1>3, <1>4, <1>5, <1>6

Distinct(s) == \A i, j \in DOMAIN s : s[i] = s[j] => i = j

\* A manifest that is gone is gone, and nothing else.
LEMMA RemoveFirstDoes ==
  ASSUME NEW s \in Seq(Manifest), Distinct(s), NEW m \in Manifest
  PROVE  /\ RemoveFirst(s, m) \in Seq(Manifest)
         /\ Distinct(RemoveFirst(s, m))
         /\ Range(RemoveFirst(s, m)) = Range(s) \ {m}
<1>1. CASE m \notin Range(s)
  <2>1. DOMAIN s = 1..Len(s)
    OBVIOUS
  <2>2. ~\E i \in 1..Len(s) : s[i] = m
    BY <1>1, <2>1 DEF Range
  <2>3. RemoveFirst(s, m) = s
    BY <2>2 DEF RemoveFirst
  <2>4. Range(s) = Range(s) \ {m}
    BY <1>1
  <2> QED
    BY <2>3, <2>4
<1>2. CASE m \in Range(s)
  <2>1. PICK i \in 1..Len(s) : s[i] = m
    BY <1>2 DEF Range
  <2>2. {j \in 1..Len(s) : s[j] = m} = {i}
    BY <2>1 DEF Distinct
  <2>3. RemoveFirst(s, m) = RemoveAt(s, i)
    <3>1. Min({i}) = i
      BY DEF Min
    <3> QED
      BY <2>1, <2>2, <3>1 DEF RemoveFirst, SelectInSeq
  <2> DEFINE t == RemoveAt(s, i)
  <2>4. /\ t \in Seq(Manifest) /\ Len(t) = Len(s) - 1
        /\ \A j \in 1..Len(s) - 1 : t[j] = IF j < i THEN s[j] ELSE s[j + 1]
    BY RemoveAtDoes
  <2> HIDE DEF t
  <2>5. Len(s) \in Nat /\ i \in Nat /\ DOMAIN s = 1..Len(s) /\ DOMAIN t = 1..Len(s) - 1
    BY <2>4
  <2>6. Distinct(t)
    <3>1. SUFFICES ASSUME NEW j \in 1..Len(s) - 1, NEW k \in 1..Len(s) - 1, t[j] = t[k]
                   PROVE  j = k
      BY <2>5 DEF Distinct
    <3> DEFINE Old(n) == IF n < i THEN n ELSE n + 1
    <3>2. Old(j) \in 1..Len(s) /\ Old(k) \in 1..Len(s) /\ (Old(j) = Old(k) => j = k)
      BY <2>5
    <3>3. t[j] = s[Old(j)] /\ t[k] = s[Old(k)]
      BY <2>4
    <3>4. Old(j) = Old(k)
      <4> HIDE DEF Old
      <4> QED
        BY <2>5, <3>1, <3>2, <3>3 DEF Distinct
    <3> QED
      BY <3>2, <3>4
  <2>7. ASSUME NEW j \in 1..Len(s) - 1 PROVE t[j] \in Range(s) \ {m}
    <3>1. PICK k \in 1..Len(s) : t[j] = s[k] /\ k # i
      <4>1. CASE j < i
        BY <2>4, <2>5, <4>1
      <4>2. CASE j >= i
        <5>1. j + 1 \in 1..Len(s) /\ j + 1 # i
          BY <2>5, <4>2
        <5>2. t[j] = s[j + 1]
          BY <2>4, <2>5, <4>2
        <5> QED
          BY <5>1, <5>2
      <4> QED
        BY <2>5, <4>1, <4>2
    <3>2. s[k] # s[i]
      BY <2>5, <3>1 DEF Distinct
    <3> QED
      BY <2>1, <2>5, <3>1, <3>2 DEF Range
  <2>8. ASSUME NEW x \in Range(s) \ {m} PROVE x \in Range(t)
    <3>1. PICK j \in 1..Len(s) : s[j] = x /\ j # i
      BY <2>1, <2>5 DEF Range
    <3>2. CASE j < i
      <4>1. j \in 1..Len(t) /\ t[j] = x
        BY <2>4, <2>5, <3>1, <3>2
      <4> QED
        BY <4>1 DEF Range
    <3>3. CASE j > i
      <4>1. j - 1 \in 1..Len(s) - 1 /\ ~(j - 1 < i) /\ (j - 1) + 1 = j
        BY <2>5, <3>3
      <4>2. t[j - 1] = x
        BY <2>4, <3>1, <4>1
      <4> QED
        BY <2>5, <4>1, <4>2 DEF Range
    <3> QED
      BY <2>5, <3>1, <3>2, <3>3
  <2>9. Range(t) = Range(s) \ {m}
    <3>1. Range(t) \subseteq Range(s) \ {m}
      BY <2>5, <2>7 DEF Range
    <3> QED
      BY <2>8, <3>1
  <2> QED
    BY <2>3, <2>4, <2>6, <2>9 DEF t
<1> QED
  BY <1>1, <1>2

\* Nothing of a page is behind the place where the next one starts, and when
\* there is no next one, everything was on some page.
LEMMA PagesCover ==
  ASSUME TypeOK, next' \in After, UNCHANGED <<opt, repo>>
  PROVE  /\ Seen' = Seen \cup Page
         /\ Page \subseteq Stored
         /\ ~More => Stored = Seen \cup Page
         /\ next' \in Nat
<1> USE PageSizePositive
<1>1. repo \in Seq(Manifest) /\ next \in Nat /\ DOMAIN repo = 1..Len(repo) /\ Len(repo) \in Nat
  BY DEF TypeOK
<1>2. Stored' = Stored /\ Stored \subseteq Manifest /\ Stored \subseteq Nat
  <2>1. Stored' = Stored
    BY DEF Stored
  <2>2. Stored \subseteq Manifest
    BY <1>1 DEF Stored, Range
  <2> QED
    BY <2>1, <2>2, ManifestNumbers
<1>3. CASE opt.numbered
  <2>1. next' = next + PageSize
    BY <1>3 DEF After
  <2>2. Page = {repo[i] : i \in (next + 1 .. next + PageSize) \cap DOMAIN repo}
    BY <1>3 DEF Page
  <2>3. Seen = {repo[i] : i \in 1..next \cap DOMAIN repo}
        /\ Seen' = {repo[i] : i \in 1..next + PageSize \cap DOMAIN repo}
    BY <1>3, <2>1 DEF Seen
  <2>4. (1..next + PageSize) \cap DOMAIN repo
          = ((1..next) \cap DOMAIN repo) \cup ((next + 1 .. next + PageSize) \cap DOMAIN repo)
    BY <1>1
  <2>5. Seen' = Seen \cup Page
    BY <2>2, <2>3, <2>4
  <2>6. Seen' \subseteq Stored /\ Page \subseteq Stored
    BY <2>2, <2>3 DEF Stored, Range
  <2>7. ASSUME ~More PROVE Stored \subseteq Seen'
    <3>1. Len(repo) <= next + PageSize
      BY <1>1, <1>3, <2>7 DEF More
    <3>2. DOMAIN repo = (1..next + PageSize) \cap DOMAIN repo
      BY <1>1, <3>1
    <3> QED
      BY <2>3, <3>2 DEF Stored, Range
  <2> QED
    BY <1>1, <2>1, <2>5, <2>6, <2>7
<1>4. CASE ~opt.numbered
  <2> DEFINE Upto(m) == {n \in Stored : next < n /\ n <= m}
  <2>1. Page = {m \in Stored : m > next /\ Cardinality(Upto(m)) <= PageSize}
    BY <1>4 DEF Page
  <2>2. next' \in Page \cup {next} /\ \A n \in Page : n <= next'
    BY <1>4 DEF After
  <2>3. Seen = {m \in Stored : m <= next} /\ Seen' = {m \in Stored : m <= next'}
    BY <1>2, <1>4 DEF Seen
  <2>4. next' \in Nat /\ next <= next'
    BY <1>1, <1>2, <2>1, <2>2
  <2>5. ASSUME NEW m \in Stored, next < m, m <= next' PROVE m \in Page
    <3>1. next' \in Page
      BY <1>1, <1>2, <2>2, <2>5
    <3>2. Upto(m) \subseteq Upto(next') /\ Upto(next') \subseteq Manifest
      <4>1. ASSUME NEW n \in Stored, n <= m PROVE n <= next'
        <5>1. n \in Nat /\ m \in Nat /\ next' \in Nat
          BY <1>2, <2>4
        <5> QED
          BY <2>5, <4>1, <5>1
      <4>2. Upto(m) \subseteq Upto(next')
        BY <4>1
      <4> QED
        BY <1>2, <4>2
    <3>3. Cardinality(Upto(m)) <= Cardinality(Upto(next'))
          /\ Cardinality(Upto(m)) \in Nat /\ Cardinality(Upto(next')) \in Nat
      <4> HIDE DEF Upto
      <4> QED
        BY <3>2, ManifestFinite, FS_Subset, FS_CardinalityType
    <3>4. Cardinality(Upto(next')) <= PageSize
      BY <2>1, <3>1
    <3>5. Cardinality(Upto(m)) <= PageSize
      <4> HIDE DEF Upto
      <4> QED
        BY <3>3, <3>4
    <3> QED
      BY <2>1, <2>5, <3>5
  <2>6. Seen' = Seen \cup Page
    <3>1. ASSUME NEW m \in Stored, m <= next', m \notin Page PROVE m <= next
      <4>1. m \in Nat
        BY <1>2
      <4> QED
        BY <1>1, <2>5, <3>1, <4>1
    <3>2. ASSUME NEW m \in Stored, m <= next PROVE m <= next'
      <4>1. m \in Nat
        BY <1>2
      <4> QED
        BY <1>1, <2>4, <3>2, <4>1
    <3>3. Page \subseteq Seen'
      BY <2>1, <2>2, <2>3
    <3>4. Seen' \subseteq Seen \cup Page
      BY <2>3, <3>1
    <3>5. Seen \subseteq Seen'
      BY <2>3, <3>2
    <3> QED
      BY <3>3, <3>4, <3>5
  <2>7. ~More => Stored \subseteq Seen \cup Page
    BY <1>1, <1>2, <1>4, <2>3 DEF More
  <2> QED
    BY <2>1, <2>3, <2>4, <2>6, <2>7
<1> QED
  BY <1>3, <1>4

-----------------------------------------------------------------------------
(* What is kept *)

\* What the rules keep is kept, and so is what a kept index lists.
LEMMA KeptIsClosed ==
  /\ wanted \cap Listed \subseteq Kept /\ Kept \subseteq Listed
  /\ \A p \in Kept : lists[p] \cap Listed \subseteq Kept
BY DEF Kept

\* The decision rests on the listing, not on what the repository holds by now.
LEMMA DecisionStands ==
  ASSUME UNCHANGED <<lists, wanted, snapshot>>
  PROVE  Listed' = Listed /\ Kept' = Kept
<1>1. Listed' = Listed
  BY DEF Listed
<1> QED
  BY <1>1 DEF Kept

\* A type-correct repository stores manifests.
LEMMA StoredManifests ==
  ASSUME TypeOK PROVE Stored \subseteq Manifest
BY DEF TypeOK, Stored, Range

-----------------------------------------------------------------------------
(* Inductiveness *)

\* A call starts with nothing inspected and nothing deleted.
LEMMA InitInv == Init => IInv
<1> SUFFICES ASSUME Init PROVE IInv
  OBVIOUS
<1>1. PICK S \in SUBSET Manifest : repo \in [1..Cardinality(S) -> S] /\ NewestFirst(repo)
  BY DEF Init
<1>2. Cardinality(S) \in Nat
  BY ManifestFinite, FS_Subset, FS_CardinalityType
<1>3. repo \in Seq(Manifest) /\ DOMAIN repo = 1..Cardinality(S)
  BY <1>1, <1>2
<1>4. ASSUME NEW i \in DOMAIN repo, NEW j \in DOMAIN repo, repo[i] = repo[j]
      PROVE  i = j
  <2>1. repo[i] \in Nat /\ repo[j] \in Nat /\ i \in Nat /\ j \in Nat
    <3>1. repo[i] \in Manifest /\ repo[j] \in Manifest /\ i \in Nat /\ j \in Nat
      BY <1>2, <1>3
    <3> QED
      BY <3>1, ManifestNumbers
  <2>2. (i < j => repo[i] > repo[j]) /\ (j < i => repo[j] > repo[i])
    BY <1>1 DEF NewestFirst
  <2> QED
    BY <1>4, <2>1, <2>2
<1>5. opt \in Option /\ lists \in [Manifest -> SUBSET Manifest] /\ wanted \subseteq Manifest
  BY KnownOptions DEF Init
<1>6. writes \in 0..MaxWrites /\ late \in BOOLEAN
  <2>1. 0 \in 0..MaxWrites
    BY WritesBound
  <2>2. writes = 0 /\ late \in BOOLEAN
    BY DEF Init
  <2> QED
    BY <2>1, <2>2
<1>7. version \in [Manifest -> Nat \ {0}] /\ snapshot \in [Manifest -> Nat]
  BY DEF Init
<1>8. TypeOK
  BY <1>3, <1>4, <1>5, <1>6, <1>7 DEF Init, TypeOK, Stage
<1> QED
  BY <1>8 DEF Init, IInv, PhaseInv, RecheckInv, DeletionInv

\* What others write: before the recheck it may change anything, afterwards it
\* is late.
LEMMA WriteInv == IInv /\ Write => IInv'
<1> SUFFICES ASSUME IInv, Write PROVE IInv'
  OBVIOUS
<1> USE DEF IInv
<1>1. UNCHANGED <<opt, lists, wanted, stage, next, snapshot, toFetch, missing, remaining, toDelete, removed>>
      /\ late' = (late \/ stage \in {"rechecking", "deleting"})
      /\ stage \in {"listing", "deciding", "rechecking", "deleting"}
  BY DEF Write
<1>2. writes' \in 0..MaxWrites
  BY WritesBound DEF Write, TypeOK
<1>3. repo' \in Seq(Manifest) /\ Distinct(repo)' /\ version' \in [Manifest -> Nat \ {0}]
  <2>1. PICK m \in Manifest : Push(m) \/ Withdraw(m) \/ Touch(m)
    BY DEF Write
  <2>2. repo \in Seq(Manifest) /\ Distinct(repo) /\ version \in [Manifest -> Nat \ {0}]
    BY DEF TypeOK, Distinct
  <2>3. CASE Push(m)
    <3>1. repo' = <<m>> \o repo /\ m \notin Stored /\ version' = version
      BY <2>3 DEF Push
    <3>2. <<m>> \in Seq(Manifest) /\ Len(<<m>>) = 1 /\ <<m>>[1] = m /\ Len(repo) \in Nat
      BY <2>2
    <3>3. /\ repo' \in Seq(Manifest) /\ Len(repo') = 1 + Len(repo)
          /\ \A i \in 1..1 + Len(repo) :
               repo'[i] = IF i <= 1 THEN <<m>>[i] ELSE repo[i - 1]
      <4> HIDE DEF IInv
      <4>1. /\ <<m>> \o repo \in Seq(Manifest)
            /\ Len(<<m>> \o repo) = Len(<<m>>) + Len(repo)
            /\ \A i \in 1..Len(<<m>>) + Len(repo) :
                 (<<m>> \o repo)[i] = IF i <= Len(<<m>>) THEN <<m>>[i] ELSE repo[i - Len(<<m>>)]
        BY <2>2, <3>2, ConcatProperties
      <4> QED
        BY <3>1, <3>2, <4>1
    <3>4. \A i \in 1..Len(repo) : repo[i] # m
      BY <2>2, <3>1 DEF Stored, Range
    <3>5. ASSUME NEW i \in 1..1 + Len(repo), NEW j \in 1..1 + Len(repo), repo'[i] = repo'[j]
          PROVE  i = j
      <4>1. CASE i = 1 /\ j = 1
        BY <4>1
      <4>2. CASE i > 1 /\ j = 1
        BY <3>2, <3>3, <3>4, <3>5, <4>2
      <4>3. CASE i = 1 /\ j > 1
        BY <3>2, <3>3, <3>4, <3>5, <4>3
      <4>4. CASE i > 1 /\ j > 1
        <5>1. i - 1 \in 1..Len(repo) /\ j - 1 \in 1..Len(repo)
          BY <3>2, <4>4
        <5>2. repo[i - 1] = repo[j - 1]
          BY <3>2, <3>3, <3>5, <4>4
        <5>3. i - 1 = j - 1
          BY <2>2, <5>1, <5>2 DEF Distinct
        <5> QED
          BY <3>2, <5>3
      <4> QED
        BY <3>2, <4>1, <4>2, <4>3, <4>4
    <3>6. DOMAIN repo' = 1..1 + Len(repo)
      BY <3>3
    <3> QED
      BY <2>2, <3>1, <3>3, <3>5, <3>6 DEF Distinct
  <2>4. CASE Withdraw(m)
    <3>1. repo' = RemoveFirst(repo, m) /\ version' = version
      BY <2>4 DEF Withdraw
    <3>2. RemoveFirst(repo, m) \in Seq(Manifest) /\ Distinct(RemoveFirst(repo, m))
      BY <2>2, RemoveFirstDoes
    <3> QED
      BY <2>2, <3>1, <3>2 DEF Distinct
  <2>5. CASE Touch(m)
    BY <2>2, <2>5 DEF Touch, Distinct
  <2> QED
    BY <2>1, <2>3, <2>4, <2>5
<1>4. late' \in BOOLEAN
  BY <1>1
<1>5. TypeOK'
  BY <1>1, <1>2, <1>3, <1>4 DEF TypeOK, Distinct
<1>6. PhaseInv'
  BY <1>1, DecisionStands DEF PhaseInv, Whole
<1>7. RecheckInv' /\ DeletionInv'
  BY <1>1 DEF PhaseInv, RecheckInv, DeletionInv
<1> QED
  BY <1>5, <1>6, <1>7

\* Reading the pages and the documents deletes nothing and checks nothing.
LEMMA InspectInv ==
  IInv /\ (ListPage \/ \E m \in Manifest : Fetch(m)) => IInv'
<1> SUFFICES ASSUME IInv, ListPage \/ \E m \in Manifest : Fetch(m) PROVE IInv'
  OBVIOUS
<1> USE DEF IInv
<1>1. CASE ListPage
  <2>1. stage = "listing" /\ stage' \in {"listing", "deciding", "skipped", "failed"}
        /\ UNCHANGED <<registry, missing, remaining, toDelete, removed>>
    BY <1>1 DEF ListPage
  <2>2. next' \in Nat /\ toFetch' \subseteq Manifest /\ snapshot' \in [Manifest -> Nat]
    <3>1. CASE UNCHANGED <<next, snapshot, toFetch>>
      BY <3>1 DEF TypeOK
    <3>2. CASE /\ next' \in After /\ toFetch' = toFetch \cup Page
               /\ snapshot' = [m \in Manifest |-> IF m \in Page THEN version[m] ELSE snapshot[m]]
      <4>1. Page \subseteq Manifest /\ next' \in Nat
        BY <2>1, <3>2, PagesCover, StoredManifests DEF registry
      <4> QED
        BY <3>2, <4>1 DEF TypeOK
    <3> QED
      BY <1>1, <3>1, <3>2 DEF ListPage
  <2>3. TypeOK'
    BY <2>1, <2>2 DEF TypeOK, registry, Stage
  <2>4. removed = {} /\ removed' = {}
    BY <2>1 DEF PhaseInv
  <2> QED
    BY <2>1, <2>3, <2>4 DEF PhaseInv, RecheckInv, DeletionInv
<1>2. CASE \E m \in Manifest : Fetch(m)
  <2>1. stage \in {"listing", "deciding"} /\ stage' \in {"listing", "deciding", "failed"}
        /\ toFetch' \subseteq toFetch /\ missing' \in BOOLEAN
        /\ UNCHANGED <<registry, next, snapshot, remaining, toDelete, removed>>
    BY <1>2 DEF Fetch, TypeOK
  <2>2. TypeOK'
    BY <2>1 DEF TypeOK, registry, Stage
  <2>3. removed = {} /\ removed' = {}
    BY <2>1 DEF PhaseInv
  <2> QED
    BY <2>1, <2>2, <2>3 DEF PhaseInv, RecheckInv, DeletionInv
<1> QED
  BY <1>1, <1>2

\* The recheck starts before the first page, with everything listed remaining.
LEMMA DecideInv == IInv /\ Decide => IInv'
<1> SUFFICES ASSUME IInv, Decide PROVE IInv'
  OBVIOUS
<1> USE DEF IInv
<1>1. /\ stage = "deciding" /\ stage' \in {"skipped", "failed", "deleted", "rechecking"}
      /\ toDelete' = Listed \ Kept /\ remaining' = Listed /\ next' = 0
      /\ UNCHANGED <<registry, snapshot, toFetch, missing, removed>>
  BY DEF Decide
<1>2. Listed' = Listed /\ Kept' = Kept
  BY <1>1, DecisionStands DEF registry
<1>3. TypeOK'
  BY <1>1 DEF TypeOK, registry, Stage, Listed
<1>4. removed = {} /\ removed' = {}
  BY <1>1 DEF PhaseInv
<1>5. Seen' = {}
  <2>1. Stored' \subseteq Nat \ {0}
    BY <1>3, StoredManifests, ManifestNumbers DEF TypeOK, Stored, Range
  <2>2. {m \in Stored' : m <= 0} = {}
    <3>1. ASSUME NEW m \in Stored' PROVE ~(m <= 0)
      <4>1. m \in Nat \ {0}
        BY <2>1
      <4> QED
        BY <4>1
    <3> QED
      BY <3>1
  <2>3. (1..0) \cap DOMAIN repo' = {}
    OBVIOUS
  <2> QED
    BY <1>1, <2>2, <2>3 DEF Seen
<1>6. RecheckInv'
  BY <1>1, <1>2, <1>5 DEF RecheckInv
<1> QED
  BY <1>1, <1>2, <1>3, <1>4, <1>6 DEF PhaseInv, DeletionInv

\* A page listed again as it was inspected moves its manifests from remaining
\* to Seen; after the last page, what was listed is what there is.
LEMMA VerifyInv == IInv /\ VerifyPage => IInv'
<1> SUFFICES ASSUME IInv, VerifyPage PROVE IInv'
  OBVIOUS
<1> USE DEF IInv
<1>1. stage = "rechecking" /\ UNCHANGED <<registry, snapshot, toFetch, missing, toDelete, removed>>
  BY DEF VerifyPage
<1>2. Listed' = Listed /\ Kept' = Kept /\ Stored' = Stored
  BY <1>1, DecisionStands DEF registry, Stored
<1>3. removed = {} /\ removed' = {} /\ toDelete' = Listed \ Kept
  BY <1>1 DEF PhaseInv
<1>4. CASE stage' = "skipped" /\ UNCHANGED <<remaining, next>>
  <2>1. TypeOK'
    BY <1>1, <1>4 DEF TypeOK, registry, Stage
  <2> QED
    BY <1>3, <1>4, <2>1 DEF PhaseInv, RecheckInv, DeletionInv
<1>5. CASE /\ \A m \in Page : Unchanged(m)
           /\ remaining' = remaining \ Page /\ next' \in After
           /\ stage' = IF More THEN "rechecking"
                       ELSE IF remaining' = {} THEN "deleting" ELSE "skipped"
  <2>1. /\ Seen' = Seen \cup Page /\ Page \subseteq Stored
        /\ (~More => Stored = Seen \cup Page) /\ next' \in Nat
    BY <1>1, <1>5, PagesCover DEF registry
  <2>2. TypeOK'
    BY <1>1, <1>5, <2>1 DEF TypeOK, registry, Stage
  <2>3. PhaseInv'
    BY <1>2, <1>3, <1>5 DEF PhaseInv
  <2>4. ASSUME ~late'
        PROVE  /\ remaining' \subseteq Listed /\ Listed \subseteq remaining' \cup Seen'
               /\ \A m \in Seen' : AsInspected(m)'
    <3>1. ~late
      BY <1>1, <2>4 DEF registry
    <3>2. /\ remaining \subseteq Listed /\ Listed \subseteq remaining \cup Seen
          /\ \A m \in Seen : AsInspected(m)
      BY <1>1, <3>1 DEF RecheckInv
    <3>3. \A m \in Page : AsInspected(m)
      BY <1>5, <3>2 DEF Unchanged, AsInspected
    <3>4. \A m : AsInspected(m)' <=> AsInspected(m)
      BY <1>1, <1>2 DEF AsInspected, registry
    <3> QED
      BY <1>5, <2>1, <3>2, <3>3, <3>4
  <2>5. RecheckInv'
    BY <1>2, <2>4 DEF RecheckInv
  <2>6. ASSUME stage' = "deleting", ~late'
        PROVE  Stored' = Listed' /\ \A m \in Listed' : AsInspected(m)'
    <3>1. ~More /\ remaining' = {}
      BY <1>5, <2>6
    <3>2. Stored = Seen' /\ Listed \subseteq Seen' /\ \A m \in Seen' : AsInspected(m)'
      BY <2>1, <2>4, <2>6, <3>1
    <3> QED
      BY <1>2, <3>2 DEF AsInspected
  <2>7. DeletionInv'
    BY <1>3, <2>6 DEF DeletionInv
  <2> QED
    BY <2>2, <2>3, <2>5, <2>7
<1> QED
  BY <1>4, <1>5 DEF VerifyPage

\* A repository deleted as a whole holds what was inspected, and nothing else.
LEMMA DeleteRepositoryInv == IInv /\ DeleteRepository => IInv'
<1> SUFFICES ASSUME IInv, DeleteRepository PROVE IInv'
  OBVIOUS
<1> USE DEF IInv
<1>1. /\ stage = "deleting" /\ Whole /\ repo' = <<>> /\ removed' = Stored /\ stage' = "deleted"
      /\ UNCHANGED <<opt, lists, wanted, version, writes, late, next, snapshot, toFetch,
                     missing, remaining, toDelete>>
  BY DEF DeleteRepository
<1>2. Listed' = Listed /\ Kept' = Kept
  BY <1>1, DecisionStands
<1>3. Stored' = {}
  BY <1>1 DEF Stored, Range
<1>4. TypeOK'
  <2>1. repo' \in Seq(Manifest) /\ DOMAIN repo' = {}
    BY <1>1
  <2> QED
    BY <1>1, <2>1, StoredManifests DEF TypeOK, Stage
<1>5. PhaseInv'
  BY <1>1, <1>2 DEF PhaseInv
<1>6. ASSUME ~late' PROVE DeletionInv'
  <2>1. removed = {}
    BY <1>1 DEF PhaseInv
  <2>2. Stored = Listed /\ \A m \in Listed : AsInspected(m)
    BY <1>1, <1>6, <2>1 DEF DeletionInv
  <2>3. \A m \in Listed' : AsInspected(m)'
    BY <1>1, <1>2, <2>2 DEF AsInspected
  <2> QED
    BY <1>1, <1>2, <1>3, <2>2, <2>3 DEF DeletionInv, Whole
<1> QED
  BY <1>1, <1>4, <1>5, <1>6 DEF RecheckInv, DeletionInv

\* A manifest goes after every index that lists it: kept indexes list only what
\* is kept, and those to be deleted are gone.
LEMMA DeleteManifestInv ==
  ASSUME IInv, NEW m \in Manifest, DeleteManifest(m)
  PROVE  IInv'
<1> USE DEF IInv
<1>1. /\ stage = "deleting" /\ ~Whole /\ m \in toDelete \ removed
      /\ {p \in toDelete : m \in lists[p]} \subseteq removed
      /\ repo' = RemoveFirst(repo, m) /\ removed' = removed \cup {m}
      /\ stage' \in {"deleted", "deleting"}
      /\ UNCHANGED <<opt, lists, wanted, version, writes, late, next, snapshot, toFetch,
                     missing, remaining, toDelete>>
  BY DEF DeleteManifest
<1>2. Listed' = Listed /\ Kept' = Kept
  BY <1>1, DecisionStands
<1>3. repo' \in Seq(Manifest) /\ Distinct(repo') /\ Stored' = Stored \ {m}
  <2>1. repo \in Seq(Manifest) /\ Distinct(repo)
    BY DEF TypeOK, Distinct
  <2> QED
    BY <1>1, <2>1, RemoveFirstDoes DEF Stored
<1>4. TypeOK'
  BY <1>1, <1>3 DEF TypeOK, Stage, Distinct
<1>5. toDelete = Listed \ Kept
  BY <1>1 DEF PhaseInv
<1>6. PhaseInv'
  BY <1>1, <1>2, <1>5 DEF PhaseInv, Whole
<1>7. ASSUME ~late' PROVE DeletionInv'
  <2>1. /\ Stored = Listed \ removed /\ removed \subseteq toDelete
        /\ \A n \in Listed : AsInspected(n)
        /\ \A p \in Stored : lists[p] \cap removed = {}
    BY <1>1, <1>7 DEF DeletionInv
  <2>2. \A n \in Listed' : AsInspected(n)'
    BY <1>1, <1>2, <2>1 DEF AsInspected
  <2>3. ASSUME NEW p \in Stored PROVE m \notin lists[p]
    <3>1. p \notin toDelete => p \in Kept
      BY <1>5, <2>1
    <3>2. m \in Listed /\ m \notin Kept
      BY <1>1, <1>5
    <3> QED
      BY <1>1, <2>1, <3>1, <3>2, KeptIsClosed
  <2>4. \A p \in Stored' : lists'[p] \cap removed' = {}
    BY <1>1, <1>3, <2>1, <2>3
  <2> QED
    BY <1>1, <1>2, <1>3, <2>1, <2>2, <2>4 DEF DeletionInv
<1> QED
  BY <1>1, <1>4, <1>6, <1>7 DEF RecheckInv, DeletionInv

\* A request that fails leaves everything as it is.
LEMMA FailInv == IInv /\ Fail => IInv'
<1> SUFFICES ASSUME IInv, Fail PROVE IInv'
  OBVIOUS
<1> USE DEF IInv
<1>1. stage' = "failed" /\ UNCHANGED <<registry, next, snapshot, toFetch, missing, remaining, toDelete, removed>>
  BY DEF Fail
<1>2. Listed' = Listed /\ Kept' = Kept /\ Stored' = Stored
  BY <1>1, DecisionStands DEF registry, Stored
<1>3. TypeOK'
  BY <1>1 DEF TypeOK, registry, Stage
<1>4. PhaseInv'
  BY <1>1, <1>2 DEF PhaseInv
<1>5. DeletionInv'
  BY <1>1, <1>2 DEF DeletionInv, AsInspected, registry
<1> QED
  BY <1>1, <1>3, <1>4, <1>5 DEF RecheckInv

\* Every step preserves the invariant.
LEMMA StepInv == IInv /\ [Next]_vars => IInv'
<1> SUFFICES ASSUME IInv, [Next]_vars PROVE IInv'
  OBVIOUS
<1>1. CASE Write
  BY <1>1, WriteInv
<1>2. CASE ListPage \/ \E m \in Manifest : Fetch(m)
  BY <1>2, InspectInv
<1>3. CASE Decide
  BY <1>3, DecideInv
<1>4. CASE VerifyPage
  BY <1>4, VerifyInv
<1>5. CASE DeleteRepository
  BY <1>5, DeleteRepositoryInv
<1>6. CASE \E m \in Manifest : DeleteManifest(m)
  BY <1>6, DeleteManifestInv
<1>7. CASE Fail
  BY <1>7, FailInv
<1>8. CASE UNCHANGED vars
  <2>1. Listed' = Listed /\ Kept' = Kept /\ Stored' = Stored /\ Seen' = Seen
    BY <1>8, DecisionStands DEF vars, registry, Stored, Seen
  <2>2. TypeOK'
    BY <1>8 DEF IInv, TypeOK, vars, registry
  <2>3. PhaseInv'
    BY <1>8, <2>1 DEF IInv, PhaseInv, Whole, vars
  <2>4. RecheckInv' /\ DeletionInv'
    BY <1>8, <2>1 DEF IInv, RecheckInv, DeletionInv, AsInspected, vars, registry
  <2> QED
    BY <2>2, <2>3, <2>4 DEF IInv
<1> QED
  BY <1>1, <1>2, <1>3, <1>4, <1>5, <1>6, <1>7, <1>8 DEF Next, Call

-----------------------------------------------------------------------------
(* Theorems *)

\* The call's bookkeeping stays well formed, whatever others write.
THEOREM TypeCorrect == Spec => []TypeOK
<1>1. IInv => TypeOK
  BY DEF IInv
<1> QED
  BY <1>1, InitInv, StepInv, PTL DEF Spec

\* delete.go and pruner.go: as long as others leave the repository alone from
\* the recheck on, no index is left without a manifest the call deleted, and
\* nothing the rules or a protection keep is deleted - whatever the listing
\* missed, and whatever was pushed or changed during the inspection.
THEOREM OthersAreNeverHarmed == Spec => []OthersAreUnharmed
<1>1. IInv => OthersAreUnharmed
  <2> SUFFICES ASSUME IInv, ~late
               PROVE  /\ \A p \in Stored : lists[p] \cap removed = {}
                      /\ removed \cap wanted = {}
    BY DEF OthersAreUnharmed, LeavesNoBrokenIndex, WantedSurvive
  <2>1. CASE removed = {}
    BY <2>1
  <2>2. CASE removed # {}
    <3>1. removed \subseteq Listed \ Kept /\ \A p \in Stored : lists[p] \cap removed = {}
      BY <2>2 DEF IInv, PhaseInv, DeletionInv
    <3> QED
      BY <3>1, KeptIsClosed
  <2> QED
    BY <2>1, <2>2
<1> QED
  BY <1>1, InitInv, StepInv, PTL DEF Spec

\* delete.go, VerifyRepositorySnapshot: on the same condition what is deleted
\* is what was inspected, unchanged since: its tags, locks and update time.
THEOREM DeletesOnlyTheInspected == Spec => DeletesOnlyWhatWasInspected
<1>1. ASSUME IInv, Next, ~late', NEW m \in Stored \cap removed'
      PROVE  m \in toDelete /\ snapshot[m] = version[m]
  <2>1. ~late
    BY <1>1 DEF Next, Call, ListPage, Fetch, Decide, VerifyPage, DeleteRepository, DeleteManifest,
                Fail, Write, registry
  <2>2. CASE removed' = removed
    BY <1>1, <2>1, <2>2 DEF IInv, DeletionInv
  <2>3. CASE DeleteRepository
    <3>1. stage = "deleting" /\ Whole /\ removed = {}
      BY <1>1, <2>3 DEF DeleteRepository, IInv, PhaseInv
    <3>2. Stored = Listed /\ AsInspected(m)
      BY <1>1, <2>1, <3>1 DEF IInv, DeletionInv
    <3> QED
      BY <1>1, <3>1, <3>2 DEF Whole, AsInspected
  <2>4. ASSUME NEW n \in Manifest, DeleteManifest(n) PROVE m \in toDelete /\ snapshot[m] = version[m]
    <3>1. stage = "deleting" /\ n \in toDelete /\ removed' = removed \cup {n}
      BY <2>4 DEF DeleteManifest
    <3>2. Stored = Listed \ removed /\ \A l \in Listed : AsInspected(l)
      BY <1>1, <2>1, <3>1 DEF IInv, DeletionInv
    <3> QED
      BY <1>1, <3>1, <3>2 DEF AsInspected
  <2> QED
    BY <1>1, <2>2, <2>3, <2>4 DEF Next, Call, ListPage, Fetch, Decide, VerifyPage, Fail, Write
<1>2. IInv /\ [Next]_vars
        => [~late' => \A m \in Stored \cap removed' : m \in toDelete /\ snapshot[m] = version[m]]_vars
  BY <1>1
<1> QED
  BY <1>2, InitInv, StepInv, PTL DEF Spec, DeletesOnlyWhatWasInspected

=============================================================================
