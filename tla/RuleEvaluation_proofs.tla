----------------------- MODULE RuleEvaluation_proofs -----------------------
(***************************************************************************)
(* What a rule file decides, for every file, repository and listing. The   *)
(* least of a set of positions is one of it (Leasts), and the position of  *)
(* a manifest in a sorted list is the number of those updated later        *)
(* (RankIsPosition): from the first follows which rule applies, from the   *)
(* second what `newest` selects. And what the statistics say of every      *)
(* registry and image list: whom a blob is charged to, and which images    *)
(* are running.                                                            *)
(***************************************************************************)
EXTENDS RuleUse, FiniteSetTheorems, WellFoundedInduction, TLAPS

-----------------------------------------------------------------------------
(* Numbers *)

\* A set of naturals that is not empty has a least element.
LEMMA Leasts ==
  ASSUME NEW S \in SUBSET Nat, NEW none
  PROVE  /\ S = {} => Least(S, none) = none
         /\ S # {} => Least(S, none) \in S /\ \A j \in S : Least(S, none) <= j
<1> DEFINE Smaller == {p \in Nat \X Nat : p[1] < p[2]}
<1>1. IsWellFoundedOn(Smaller, Nat)
  BY NatLessThanWellFounded DEF OpToRel
<1>2. ASSUME S # {} PROVE \E i \in S : \A j \in S : i <= j
  <2>1. PICK i \in S : \A j \in S : <<j, i>> \notin Smaller
    <3> HIDE DEF Smaller
    <3> QED
      BY <1>1, <1>2, WFMin
  <2>2. \A j \in S : ~(j < i)
    BY <2>1
  <2> QED
    BY <2>2
<1> QED
  BY <1>2 DEF Least

\* A position can be negated in an int.
LEMMA Negated == \A p \in 0..MaxInt : Int_(-p) = -p
<1> SUFFICES ASSUME NEW p \in 0..MaxInt PROVE Int_(-p) = -p
  OBVIOUS
<1> DEFINE x == MaxInt + 1 - p
           w == 2 * MaxInt + 2
<1>1. x \in Nat /\ w \in Nat /\ x < w /\ w > 0
  BY IntAndTime
<1>2. x % w = x
  <2> HIDE DEF x, w
  <2> QED
    BY <1>1
<1>3. -p - MinInt = x /\ MaxInt - MinInt + 1 = w
  BY IntAndTime DEF MinInt
<1> QED
  BY <1>2, <1>3, IntAndTime DEF Int_, MinInt

-----------------------------------------------------------------------------
(* Manifests from newest to oldest *)

Before(S, m) == {n \in S : ByNewest(n, m)}

\* byNewest is a strict total order.
LEMMA NewestOrders ==
  ASSUME ListingOf(image), NEW l \in Manifest, NEW m \in Manifest, NEW n \in Manifest
  PROVE  /\ ~ByNewest(m, m)
         /\ ByNewest(l, m) /\ ByNewest(m, n) => ByNewest(l, n)
         /\ ByNewest(m, n) \/ ByNewest(n, m) \/ m = n
BY ManifestsAreNumbers DEF ListingOf, ByNewest

\* Manifests can be counted.
LEMMA Counted ==
  ASSUME NEW S \in SUBSET Manifest
  PROVE  IsFiniteSet(S) /\ Cardinality(S) \in 0..MaxInt
<1>1. IsFiniteSet(S) /\ Cardinality(S) <= Cardinality(Manifest)
  BY ManifestsAreNumbers, FS_Subset
<1>2. Cardinality(S) \in Nat /\ Cardinality(Manifest) \in Nat
  BY <1>1, ManifestsAreNumbers, FS_CardinalityType
<1> QED
  BY <1>1, <1>2, ManifestsAreNumbers, IntAndTime

Position(S) == [m \in S |-> Cardinality(Before(S, m))]

\* The number of those before it is a different one for each manifest, from 0
\* to the last.
LEMMA Positions ==
  ASSUME ListingOf(image), NEW S \in SUBSET Manifest
  PROVE  /\ Position(S) \in Bijection(S, 0..(Cardinality(S) - 1))
         /\ \A m, n \in S : ByNewest(m, n) => Position(S)[m] < Position(S)[n]
<1> DEFINE pos == Position(S)
           last == Cardinality(S) - 1
<1>1. IsFiniteSet(S) /\ Cardinality(S) \in Nat
  BY Counted
<1>2. \A m \in S : Before(S, m) \in SUBSET Manifest /\ Cardinality(Before(S, m)) \in Nat
  <2>1. \A m \in S : Before(S, m) \in SUBSET Manifest
    BY DEF Before
  <2> QED
    BY <2>1, Counted
<1>3. \A m \in S : Cardinality(Before(S, m)) <= last
  <2> SUFFICES ASSUME NEW m \in S PROVE Cardinality(Before(S, m)) <= last
    OBVIOUS
  <2>1. Before(S, m) \in SUBSET S /\ m \notin Before(S, m)
    BY NewestOrders DEF Before
  <2>2. Cardinality(Before(S, m)) <= Cardinality(S) /\ Cardinality(Before(S, m)) # Cardinality(S)
    BY <1>1, <2>1, FS_Subset
  <2> QED
    BY <1>1, <1>2, <2>2
<1>4. ASSUME NEW m \in S, NEW n \in S, ByNewest(m, n)
      PROVE  pos[m] < pos[n]
  <2>1. Before(S, m) \in SUBSET Before(S, n)
    BY <1>4, NewestOrders DEF Before
  <2>2. m \in Before(S, n) /\ m \notin Before(S, m)
    BY <1>4, NewestOrders DEF Before
  <2>3. IsFiniteSet(Before(S, n))
    BY <1>2, Counted
  <2>4. Cardinality(Before(S, m)) <= Cardinality(Before(S, n))
        /\ Cardinality(Before(S, m)) # Cardinality(Before(S, n))
    BY <2>1, <2>2, <2>3, FS_Subset
  <2> QED
    BY <1>2, <2>4 DEF Position
<1>5. pos \in [S -> 0..last]
  BY <1>1, <1>2, <1>3 DEF Position
<1>6. pos \in Injection(S, 0..last)
  <2>1. \A m, n \in S : m # n => pos[m] # pos[n]
    <3> SUFFICES ASSUME NEW m \in S, NEW n \in S, m # n PROVE pos[m] # pos[n]
      OBVIOUS
    <3>1. ByNewest(m, n) \/ ByNewest(n, m)
      BY NewestOrders
    <3>2. pos[m] \in Nat /\ pos[n] \in Nat
      BY <1>2 DEF Position
    <3> QED
      BY <1>4, <3>1, <3>2
  <2> HIDE DEF pos, last
  <2> QED
    BY <1>5, <2>1 DEF Injection, IsInjective
<1>7. IsFiniteSet(0..last) /\ Cardinality(0..last) = Cardinality(S)
  <2>1. 0 \in Int /\ last \in Int /\ Cardinality(S) \in Nat /\ Cardinality(S) = last + 1
    BY <1>1
  <2> HIDE DEF last
  <2>2. IsFiniteSet(0..last) /\ Cardinality(0..last) = IF 0 > last THEN 0 ELSE last - 0 + 1
    BY <2>1, FS_Interval, Zenon
  <2> QED
    BY <2>1, <2>2
<1>8. pos \in Surjection(S, 0..last)
  <2> HIDE DEF pos, last
  <2> QED
    BY <1>6, <1>7, FS_Injection
<1> QED
  BY <1>4, <1>6, <1>8 DEF Bijection

Sorted(S, s) == \A i, j \in 1..Cardinality(S) : i < j => ByNewest(s[i], s[j])

\* A set of manifests can be sorted, and the sorted list has each of them once.
LEMMA SortedOnce ==
  ASSUME ListingOf(image), NEW S \in SUBSET Manifest
  PROVE  Ordered(S) \in Bijection(1..Cardinality(S), S) /\ Sorted(S, Ordered(S))
<1> DEFINE size == Cardinality(S)
           s    == Ordered(S)
<1>1. IsFiniteSet(S) /\ size \in Nat
  BY Counted
<1>2. \E t \in [1..size -> S] : Sorted(S, t)
  <2> DEFINE pos == Position(S)
             t   == [i \in 1..size |-> CHOOSE m \in S : pos[m] = i - 1]
  <2>1. \A i \in 1..size : \E m \in S : pos[m] = i - 1
    <3>1. pos \in Surjection(S, 0..(size - 1))
      BY Positions DEF Bijection
    <3>2. \A k \in 0..(size - 1) : \E m \in S : pos[m] = k
      <4> HIDE DEF pos, size
      <4> QED
        BY <3>1 DEF Surjection
    <3>3. \A i \in 1..size : i - 1 \in 0..(size - 1)
      BY <1>1
    <3> QED
      BY <3>2, <3>3
  <2>2. \A i \in 1..size : t[i] \in S /\ pos[t[i]] = i - 1
    <3> HIDE DEF pos, size
    <3> QED
      BY <2>1
  <2>3. \A i, j \in 1..size : i < j => ByNewest(t[i], t[j])
    <3> SUFFICES ASSUME NEW i \in 1..size, NEW j \in 1..size, i < j PROVE ByNewest(t[i], t[j])
      OBVIOUS
    <3> HIDE DEF t
    <3>1. t[i] \in Manifest /\ t[j] \in Manifest
      BY <2>2
    <3>2. pos[t[i]] < pos[t[j]]
      BY <1>1, <2>2
    <3>3. ~ByNewest(t[j], t[i])
      <4>1. ByNewest(t[j], t[i]) => pos[t[j]] < pos[t[i]]
        BY <2>2, Positions
      <4> QED
        BY <1>1, <2>2, <3>2, <4>1
    <3>4. t[i] # t[j]
      BY <1>1, <2>2
    <3> QED
      BY <3>1, <3>3, <3>4, NewestOrders
  <2>4. t \in [1..size -> S]
    BY <2>2
  <2> QED
    BY <2>3, <2>4 DEF Sorted
<1>3. s \in [1..size -> S] /\ Sorted(S, s)
  BY <1>2 DEF Ordered, Sorted
<1>4. \A i, j \in 1..size : s[i] = s[j] => i = j
  <2> SUFFICES ASSUME NEW i \in 1..size, NEW j \in 1..size, i < j PROVE s[i] # s[j]
    BY <1>1
  <2>1. ByNewest(s[i], s[j]) /\ s[i] \in Manifest
    BY <1>3 DEF Sorted
  <2> QED
    BY <2>1, NewestOrders
<1>5. IsFiniteSet(1..size) /\ Cardinality(1..size) = size
  BY <1>1, FS_Interval
<1> HIDE DEF s, size
<1>6. s \in Injection(1..size, S)
  BY <1>3, <1>4 DEF Injection, IsInjective
<1>7. s \in Surjection(1..size, S)
  BY <1>1, <1>5, <1>6, FS_Injection DEF size
<1> QED
  BY <1>3, <1>6, <1>7 DEF Bijection, size, s

Matching(S, r) ==
  {m \in Ranked(S) : MatchAny(r.tag, image[m].tags) /\ MatchesCriteria(r, m)}

\* rank numbers a manifest by how many of those the rule matches come before.
LEMMA RankIsPosition ==
  ASSUME ListingOf(image), NEW S \in SUBSET Manifest, NEW r, r.newest # 0
  PROVE  Rank(S, r) = Position(Matching(S, r))
<1> DEFINE order == Ordered(Ranked(S))
           size == Cardinality(Ranked(S))
           matching == Matching(S, r)
           Earlier(m) == {i \in 1..size : order[i] \in matching /\ \E k \in 1..size : i < k /\ order[k] = m}
<1>1. Ranked(S) \in SUBSET Manifest /\ matching \in SUBSET Ranked(S)
  BY DEF Ranked, Matching
<1>2. size \in Nat
  BY <1>1, Counted
<1>3. order \in Bijection(1..size, Ranked(S)) /\ Sorted(Ranked(S), order)
  BY <1>1, SortedOnce
<1> HIDE DEF order, size, matching
<1>4. /\ order \in [1..size -> Ranked(S)]
      /\ \A i, j \in 1..size : order[i] = order[j] => i = j
      /\ \A m \in Ranked(S) : \E i \in 1..size : order[i] = m
  BY <1>3 DEF Bijection, Injection, IsInjective, Surjection
<1>5. ASSUME NEW m \in matching PROVE Cardinality(Earlier(m)) = Cardinality(Before(matching, m))
  <2> DEFINE f == [i \in Earlier(m) |-> order[i]]
  <2>1. \A i \in Earlier(m) : order[i] \in Before(matching, m)
    <3> SUFFICES ASSUME NEW i \in 1..size, order[i] \in matching, NEW k \in 1..size, i < k, order[k] = m
                 PROVE  order[i] \in Before(matching, m)
      OBVIOUS
    <3>1. ByNewest(order[i], order[k])
      BY <1>3 DEF Sorted, size
    <3> QED
      BY <3>1 DEF Before
  <2>2. \A n \in Before(matching, m) : \E i \in Earlier(m) : order[i] = n
    <3> SUFFICES ASSUME NEW n \in matching, ByNewest(n, m) PROVE \E i \in Earlier(m) : order[i] = n
      BY DEF Before
    <3>1. PICK i \in 1..size : order[i] = n
      BY <1>1, <1>4
    <3>2. PICK k \in 1..size : order[k] = m
      BY <1>1, <1>4
    <3>3. n \in Manifest /\ m \in Manifest
      BY <1>1
    <3>4. ~ByNewest(m, n) /\ m # n
      BY <3>3, NewestOrders
    <3>5. ~(k < i) /\ i # k
      BY <1>3, <3>1, <3>2, <3>4 DEF Sorted, size
    <3>6. i < k
      BY <3>5
    <3> QED
      BY <3>1, <3>2, <3>6
  <2>3. f \in Bijection(Earlier(m), Before(matching, m))
    <3>1. f \in [Earlier(m) -> Before(matching, m)]
      BY <2>1
    <3>2. \A i, j \in Earlier(m) : f[i] = f[j] => i = j
      BY <1>4
    <3>3. \A n \in Before(matching, m) : \E i \in Earlier(m) : f[i] = n
      BY <2>2
    <3> HIDE DEF f, Earlier
    <3> QED
      BY <3>1, <3>2, <3>3 DEF Bijection, Injection, IsInjective, Surjection
  <2>4. IsFiniteSet(Earlier(m))
    <3>1. IsFiniteSet(1..size) /\ Earlier(m) \in SUBSET (1..size)
      BY <1>2, FS_Interval
    <3> QED
      BY <3>1, FS_Subset
  <2>5. ExistsBijection(Earlier(m), Before(matching, m))
    BY <2>3 DEF ExistsBijection
  <2> QED
    BY <2>4, <2>5, FS_Bijection
<1>6. DOMAIN order = 1..size
  BY <1>4
<1>7. Rank(S, r) = [m \in matching |-> Cardinality(Earlier(m))]
  BY <1>6, r.newest # 0 DEF Rank, matching, Matching, order
<1> QED
  BY <1>5, <1>7 DEF Position, matching

-----------------------------------------------------------------------------
(* Compiled files *)

\* A set of naturals has no other least element.
LEMMA LeastIs ==
  ASSUME NEW S \in SUBSET Nat, NEW none, NEW x \in S, \A j \in S : x <= j
  PROVE  Least(S, none) = x
<1>1. Least(S, none) \in S /\ Least(S, none) <= x /\ x <= Least(S, none)
  BY Leasts
<1>2. Least(S, none) \in Nat /\ x \in Nat
  BY <1>1
<1> HIDE DEF Least
<1> QED
  BY <1>1, <1>2

IsList(s) == Len(s) \in Nat /\ DOMAIN s = 1..Len(s)

CompiledOf(rs) ==
  /\ IsList(rs)
  /\ \A i \in DOMAIN rs :
       /\ PatternOf(rs[i].repo, Name)
       /\ IsList(rs[i].tagged) /\ IsList(rs[i].untagged)
       /\ \A j \in DOMAIN rs[i].tagged :
            PatternOf(rs[i].tagged[j].tag, Tag) /\ rs[i].tagged[j].newest \in Int
       /\ \A j \in DOMAIN rs[i].untagged :
            rs[i].untagged[j].tag = Nil /\ rs[i].untagged[j].newest \in Int

\* Compiling keeps the lists and the patterns.
LEMMA FilesCompile ==
  ASSUME NEW file, FileOf(file)
  PROVE  CompiledOf(CompileAll(file)) /\ DOMAIN CompileAll(file) = DOMAIN file
<1> DEFINE rs == CompileAll(file)
<1>1. IsList(file)
  BY DEF FileOf, IsList
<1>2. DOMAIN rs = DOMAIN file
  BY DEF CompileAll
<1>3. IsList(rs)
  BY <1>1, <1>2 DEF IsList
<1>4. ASSUME NEW i \in DOMAIN file
      PROVE  /\ PatternOf(rs[i].repo, Name)
             /\ IsList(rs[i].tagged) /\ IsList(rs[i].untagged)
             /\ \A j \in DOMAIN rs[i].tagged :
                  PatternOf(rs[i].tagged[j].tag, Tag) /\ rs[i].tagged[j].newest \in Int
             /\ \A j \in DOMAIN rs[i].untagged :
                  rs[i].untagged[j].tag = Nil /\ rs[i].untagged[j].newest \in Int
  <2>1. /\ rs[i].repo = file[i].repo
        /\ rs[i].tagged = [j \in DOMAIN file[i].tagged |-> Compiled(file[i].tagged[j])]
        /\ rs[i].untagged = [j \in DOMAIN file[i].untagged |-> Compiled(file[i].untagged[j])]
    BY DEF CompileAll, CompileRepoRule
  <2>2. \A s : Compiled(s).tag = s.tag /\ (EntryOf(s) => Compiled(s).newest \in Int)
    <3> SUFFICES ASSUME NEW s PROVE Compiled(s).tag = s.tag /\ (EntryOf(s) => Compiled(s).newest \in Int)
      OBVIOUS
    <3>1. s.newest # {} => (CHOOSE x \in s.newest : TRUE) \in s.newest
      OBVIOUS
    <3>2. EntryOf(s) => s.newest \subseteq Int
      BY DEF EntryOf
    <3> QED
      BY <3>1, <3>2 DEF Compiled
  <2>3. IsList(file[i].tagged) /\ IsList(file[i].untagged)
    BY DEF FileOf, IsList
  <2>4. IsList(rs[i].tagged) /\ IsList(rs[i].untagged)
    <3> HIDE DEF rs
    <3> QED
      BY <2>1, <2>3 DEF IsList
  <2>5. /\ PatternOf(file[i].repo, Name)
        /\ \A j \in DOMAIN file[i].tagged : EntryOf(file[i].tagged[j]) /\ PatternOf(file[i].tagged[j].tag, Tag)
        /\ \A j \in DOMAIN file[i].untagged : EntryOf(file[i].untagged[j]) /\ file[i].untagged[j].tag = Nil
    BY DEF FileOf, EntryOf
  <2> HIDE DEF rs
  <2> QED
    BY <2>1, <2>2, <2>4, <2>5
<1>5. CompiledOf(rs)
  <2> HIDE DEF rs
  <2> QED
    BY <1>2, <1>3, <1>4 DEF CompiledOf
<1> QED
  BY <1>2, <1>5

\* A literal rule matches its name, and one that says so everything.
LEMMA SpellingsMean ==
  ASSUME NEW rs, CompiledOf(rs), NEW i \in DOMAIN rs, NEW n \in Name
  PROVE  /\ IsLiteral(rs[i]) => (Matches(rs[i], n) <=> NameOf(rs[i]) = n) /\ NameOf(rs[i]) \in Name
         /\ MatchesAnyName(rs[i].repo) => Matches(rs[i], n)
BY DEF CompiledOf, PatternOf, IsLiteral, Matches, NameOf, MatchesAnyName

\* The first rule to match a repository, if one does.
LEMMA FirstRuleIsFirst ==
  ASSUME NEW rs, CompiledOf(rs), NEW n
  PROVE  /\ FirstRule(rs, n) \in 0..Len(rs)
         /\ FirstRule(rs, n) # 0 => Matches(rs[FirstRule(rs, n)], n)
         /\ \A i \in DOMAIN rs : Matches(rs[i], n) => FirstRule(rs, n) # 0 /\ FirstRule(rs, n) <= i
<1> DEFINE S == {i \in DOMAIN rs : Matches(rs[i], n)}
<1>1. S \in SUBSET Nat /\ S \subseteq 1..Len(rs) /\ Len(rs) \in Nat
  BY DEF CompiledOf, IsList
<1>2. S = {} => Least(S, 0) = 0
  BY <1>1, Leasts
<1>3. S # {} => Least(S, 0) \in S /\ \A j \in S : Least(S, 0) <= j
  BY <1>1, Leasts
<1>4. FirstRule(rs, n) = Least(S, 0)
  BY DEF FirstRule
<1>5. \A i \in DOMAIN rs : Matches(rs[i], n) <=> i \in S
  OBVIOUS
<1>6. \A i \in S : i \in DOMAIN rs /\ Matches(rs[i], n)
  OBVIOUS
<1> HIDE DEF S
<1>7. FirstRule(rs, n) \in S \/ (S = {} /\ FirstRule(rs, n) = 0)
  BY <1>2, <1>3, <1>4
<1>8. 0 \notin S /\ S \subseteq 0..Len(rs) /\ 0 \in 0..Len(rs)
  BY <1>1
<1>9. \A i \in S : FirstRule(rs, n) # 0 /\ FirstRule(rs, n) <= i
  BY <1>3, <1>4, <1>8
<1>10. FirstRule(rs, n) \in 0..Len(rs)
  <2> HIDE DEF FirstRule
  <2> QED
    BY <1>7, <1>8
<1>11. FirstRule(rs, n) # 0 => Matches(rs[FirstRule(rs, n)], n)
  BY <1>6, <1>7
<1> QED
  BY <1>5, <1>9, <1>10, <1>11

\* The index of literal names finds the same rule.
LEMMA IndexIsExact ==
  ASSUME NEW rs, CompiledOf(rs), NEW n \in Name
  PROVE  MatchingRule(rs, n) = FirstRule(rs, n)
<1> DEFINE literals == {i \in DOMAIN rs : IsLiteral(rs[i]) /\ NameOf(rs[i]) = n}
           first    == FirstLiteral(rs, n)
           patterns == {i \in DOMAIN rs : ~IsLiteral(rs[i]) /\ i < first /\ Matches(rs[i], n)}
           all      == {i \in DOMAIN rs : Matches(rs[i], n)}
<1>1. Len(rs) \in Nat /\ DOMAIN rs = 1..Len(rs)
  BY DEF CompiledOf, IsList
<1>2. literals \in SUBSET Nat /\ patterns \in SUBSET Nat /\ all \in SUBSET Nat
  BY <1>1
<1>3. \A i \in all : i \in literals \/ ~IsLiteral(rs[i])
  BY SpellingsMean
<1>4. literals \subseteq all /\ patterns \subseteq all
  BY SpellingsMean
<1>5. first = Least(literals, Len(rs) + 1)
  BY DEF FirstLiteral
<1>6. /\ literals = {} => first = Len(rs) + 1
      /\ literals # {} => first \in literals /\ \A j \in literals : first <= j
  <2> HIDE DEF literals, first
  <2> QED
    BY <1>2, <1>5, Leasts
<1>7. MatchingRule(rs, n) = Least(patterns, IF first <= Len(rs) THEN first ELSE 0)
  BY DEF MatchingRule
<1>8. FirstRule(rs, n) = Least(all, 0)
  BY DEF FirstRule
<1>9. \A i \in all : i \in patterns \/ first <= i
  BY <1>1, <1>3, <1>6
<1> HIDE DEF literals, first, patterns, all
<1>10. CASE patterns # {}
  <2> DEFINE p == Least(patterns, IF first <= Len(rs) THEN first ELSE 0)
  <2>1. p \in patterns /\ \A j \in patterns : p <= j
    BY <1>2, <1>10, Leasts
  <2>2. p < first /\ p \in Nat
    BY <1>2, <2>1 DEF patterns
  <2>3. first \in Nat
    <3>1. CASE literals = {}
      BY <1>1, <1>6, <3>1
    <3>2. CASE literals # {}
      BY <1>2, <1>6, <3>2
    <3> QED
      BY <3>1, <3>2
  <2> HIDE DEF p
  <2>4. p \in all /\ \A j \in all : p <= j
    BY <1>2, <1>4, <1>9, <2>1, <2>2, <2>3
  <2>5. Least(all, 0) = p
    BY <1>2, <2>4, LeastIs
  <2> QED
    BY <1>7, <1>8, <2>5 DEF p
<1>11. CASE patterns = {} /\ literals # {}
  <2>1. first \in all /\ (\A j \in all : first <= j) /\ first <= Len(rs)
    BY <1>1, <1>4, <1>6, <1>9, <1>11 DEF literals
  <2>2. Least(all, 0) = first
    BY <1>2, <2>1, LeastIs
  <2>3. MatchingRule(rs, n) = first
    BY <1>2, <1>7, <1>11, <2>1, Leasts
  <2> QED
    BY <1>8, <2>2, <2>3
<1>12. CASE patterns = {} /\ literals = {}
  <2>1. first = Len(rs) + 1 /\ ~(first <= Len(rs))
    BY <1>1, <1>6, <1>12
  <2>2. all = {}
    BY <1>1, <1>9, <1>12, <2>1 DEF all
  <2>3. Least(all, 0) = 0
    BY <1>2, <2>2, Leasts
  <2>4. MatchingRule(rs, n) = 0
    BY <1>2, <1>7, <1>12, <2>1, Leasts
  <2> QED
    BY <1>8, <2>3, <2>4
<1> QED
  BY <1>10, <1>11, <1>12

-----------------------------------------------------------------------------
(* The stages *)

\* What each stage has found out.
StageInv ==
  /\ FileOf(specs) /\ repository \in Name /\ ListingOf(image)
  /\ stage \in {"file", "refused"} => ruleSet = <<>> /\ warned = {}
  /\ stage \notin {"file", "refused"} =>
       /\ ~\E i \in DOMAIN specs : BadRepoRule(specs[i])
       /\ ruleSet = CompileAll(specs) /\ warned = Warned(ruleSet)
  /\ stage \in {"file", "rules", "refused"} => at = 0
  /\ stage \in {"ranked", "decided", "ignored"} => at = MatchingRule(ruleSet, repository)
  /\ stage \in {"ranked", "decided"} => at # 0 /\ \A r : r = rule => ranks = Ranks(r)
  /\ \A m \in kept : m \in Manifest
  /\ stage = "decided" => \A m \in Manifest : m \in kept <=> Keep(m)

IInv == TypeOK /\ StageInv

\* A step that does not decide changes no ranking.
LEMMA RanksStay ==
  ASSUME image' = image
  PROVE  \A r : Ranks(r)' = Ranks(r)
<1>1. Tagged' = Tagged /\ Untagged' = Untagged
  BY DEF Tagged, Untagged
<1>2. \A S : Ranked(S)' = Ranked(S)
  BY DEF Ranked
<1>3. \A r, m : MatchesCriteria(r, m)' <=> MatchesCriteria(r, m)
  BY DEF MatchesCriteria, MatchesPlatform
<1>4. \A S : Ordered(S)' = Ordered(S)
  BY DEF Ordered, ByNewest
<1>5. \A S, r : Matching(S, r)' = Matching(S, r)
  BY <1>2, <1>3 DEF Matching
<1>6. \A S, r : Rank(S, r)' = Rank(S, r)
  <2> SUFFICES ASSUME NEW S, NEW r PROVE Rank(S, r)' = Rank(S, r)
    OBVIOUS
  <2>1. Ordered(Ranked(S))' = Ordered(Ranked(S))
    BY <1>2, <1>4
  <2> QED
    BY <1>5, <2>1 DEF Rank, Matching
<1> QED
  BY <1>1, <1>6 DEF Ranks

\* Deciding twice decides the same.
LEMMA KeepStays ==
  ASSUME UNCHANGED <<image, ruleSet, at, ranks>>
  PROVE  \A m : Keep(m)' <=> Keep(m)
<1>1. rule' = rule /\ Tagged' = Tagged
  BY DEF rule, Tagged
<1>2. \A r, m : (MatchesCriteria(r, m)' <=> MatchesCriteria(r, m)) /\ (LeavesToIndex(r, m)' <=> LeavesToIndex(r, m))
  BY DEF MatchesCriteria, MatchesPlatform, LeavesToIndex
<1>3. \A p, r, m : Decides(p, r, m)' <=> Decides(p, r, m)
  BY <1>2 DEF Decides, MatchesRule
<1>4. \A m, t : DecidesTag(m, t)' = DecidesTag(m, t)
  BY <1>1, <1>3 DEF DecidesTag
<1>5. \A m : DecidesUntagged(m)' = DecidesUntagged(m)
  BY <1>1, <1>3 DEF DecidesUntagged
<1>6. \A entries, i, m : Verdict(entries, i, m)' <=> Verdict(entries, i, m)
  BY <1>2 DEF Verdict
<1> QED
  BY <1>1, <1>4, <1>5, <1>6 DEF Keep

\* Before the file is read nothing is known.
LEMMA InitInv == Init => IInv
<1> SUFFICES ASSUME Init PROVE IInv
  OBVIOUS
<1>1. FileOf(specs) /\ repository \in Name /\ ListingOf(image)
  BY InputsAreRead DEF Init
<1>2. TypeOK
  BY DEF Init, TypeOK
<1> QED
  BY <1>1, <1>2 DEF Init, IInv, StageInv

\* Each step finds out what its stage is to know.
LEMMA StageStep == IInv /\ [Next]_vars => IInv'
<1> SUFFICES ASSUME IInv, [Next]_vars PROVE IInv'
  OBVIOUS
<1>1. UNCHANGED <<specs, repository, image>>
  BY DEF Next, ReadFile, FindRule, Evaluate, vars, input
<1>2. /\ (FileOf(specs) /\ repository \in Name /\ ListingOf(image))'
      /\ FileOf(specs)
  BY <1>1 DEF IInv, StageInv
<1>3. CompiledOf(CompileAll(specs)) /\ DOMAIN CompileAll(specs) = DOMAIN specs
  BY <1>2, FilesCompile
<1>4. CASE ReadFile
  <2>1. CASE \E i \in DOMAIN specs : BadRepoRule(specs[i])
    BY <1>1, <1>2, <1>4, <2>1 DEF ReadFile, IInv, TypeOK, StageInv
  <2>2. CASE ~\E i \in DOMAIN specs : BadRepoRule(specs[i])
    <3>1. /\ stage = "file" /\ stage' = "rules" /\ at' = at /\ at = 0 /\ kept' = kept
          /\ ruleSet' = CompileAll(specs) /\ warned' = Warned(ruleSet')
      BY <1>4, <2>2 DEF ReadFile, IInv, StageInv
    <3>2. (~\E i \in DOMAIN specs : BadRepoRule(specs[i]))'
      BY <1>1, <2>2
    <3>3. TypeOK'
      BY <1>1, <1>3, <3>1 DEF TypeOK, IInv, CompiledOf, IsList
    <3>4. StageInv'
      BY <1>1, <1>2, <3>1, <3>2 DEF StageInv, IInv
    <3> QED
      BY <3>3, <3>4 DEF IInv
  <2> QED
    BY <2>1, <2>2
<1>5. CASE FindRule
  <2>1. /\ stage = "rules" /\ stage' \in {"ranked", "ignored"}
        /\ UNCHANGED <<ruleSet, warned, kept>>
        /\ at' = MatchingRule(ruleSet, repository)
        /\ stage' = "ranked" => at' # 0 /\ ranks' = Ranks(ruleSet[at'])
    BY <1>5 DEF FindRule
  <2>2. ruleSet = CompileAll(specs) /\ warned = Warned(ruleSet) /\ ~\E i \in DOMAIN specs : BadRepoRule(specs[i])
    BY <2>1 DEF IInv, StageInv
  <2>3. at' \in 0..Len(ruleSet)
    BY <1>3, <2>1, <2>2, IndexIsExact, FirstRuleIsFirst DEF IInv, StageInv
  <2>4. stage' = "ranked" => \A r : r = rule' => ranks' = Ranks(r)'
    <3>1. \A r : Ranks(r)' = Ranks(r)
      BY <1>1, RanksStay
    <3>2. rule' = ruleSet[at']
      BY <2>1 DEF rule
    <3> QED
      BY <2>1, <3>1, <3>2
  <2>5. TypeOK'
    BY <1>1, <2>1, <2>3 DEF TypeOK, IInv
  <2>6. StageInv'
    BY <1>1, <1>2, <2>1, <2>2, <2>4 DEF StageInv, IInv
  <2> QED
    BY <2>5, <2>6 DEF IInv
<1>6. CASE Evaluate
  <2>1. /\ stage = "ranked" /\ stage' = "decided" /\ kept' = {m \in Manifest : Keep(m)}
        /\ UNCHANGED <<image, ruleSet, warned, at, ranks>>
    BY <1>6 DEF Evaluate, input
  <2>2. \A m : Keep(m)' <=> Keep(m)
    BY <2>1, KeepStays
  <2>3. \A r : r = rule' => ranks' = Ranks(r)'
    <3>1. rule' = rule
      BY <2>1 DEF rule
    <3>2. \A r : Ranks(r)' = Ranks(r)
      BY <1>1, RanksStay
    <3> QED
      BY <2>1, <3>1, <3>2 DEF IInv, StageInv
  <2>4. TypeOK'
    BY <1>1, <2>1 DEF TypeOK, IInv
  <2>5. StageInv'
    BY <1>1, <1>2, <2>1, <2>2, <2>3 DEF StageInv, IInv
  <2> QED
    BY <2>4, <2>5 DEF IInv
<1>7. CASE UNCHANGED vars
  <2>1. UNCHANGED <<stage, ruleSet, warned, at, ranks, kept, rule>>
    BY <1>7 DEF vars, rule
  <2>2. (\A m : Keep(m)' <=> Keep(m)) /\ \A r : Ranks(r)' = Ranks(r)
    BY <1>1, <2>1, RanksStay, KeepStays
  <2>3. TypeOK'
    BY <1>1, <2>1 DEF TypeOK, IInv
  <2>4. StageInv'
    BY <1>1, <1>2, <2>1, <2>2 DEF StageInv, IInv
  <2> QED
    BY <2>3, <2>4 DEF IInv
<1> QED
  BY <1>4, <1>5, <1>6, <1>7 DEF Next

\* The invariant the properties follow from.
THEOREM Invariance == Spec => []IInv
BY InitInv, StageStep, PTL DEF Spec

\* The variables keep their types.
THEOREM TypeCorrect == Spec => []TypeOK
<1>1. IInv => TypeOK
  BY DEF IInv
<1> QED
  BY Invariance, <1>1, PTL

-----------------------------------------------------------------------------
(* Which rule applies *)

\* The rule and the lists a repository is decided by.
LEMMA DecidedBy ==
  ASSUME IInv, Decided
  PROVE  /\ CompiledOf(ruleSet) /\ ListingOf(image) /\ repository \in Name
         /\ at \in DOMAIN ruleSet /\ at = FirstRule(ruleSet, repository) /\ Matches(rule, repository)
         /\ IsList(rule.tagged) /\ IsList(rule.untagged)
         /\ \A j \in DOMAIN rule.tagged : PatternOf(rule.tagged[j].tag, Tag) /\ rule.tagged[j].newest \in Int
         /\ \A j \in DOMAIN rule.untagged : rule.untagged[j].tag = Nil /\ rule.untagged[j].newest \in Int
         /\ ranks = Ranks(rule) /\ \A m \in Manifest : m \in kept <=> Keep(m)
<1>1. CompiledOf(ruleSet) /\ repository \in Name /\ ListingOf(image)
  BY FilesCompile DEF IInv, StageInv, Decided
<1>2. at = FirstRule(ruleSet, repository) /\ at # 0
  BY <1>1, IndexIsExact DEF IInv, StageInv, Decided
<1>3. at \in DOMAIN ruleSet /\ Matches(rule, repository)
  <2>1. Len(ruleSet) \in Nat /\ DOMAIN ruleSet = 1..Len(ruleSet)
    BY <1>1 DEF CompiledOf, IsList
  <2>2. at \in 0..Len(ruleSet) /\ Matches(ruleSet[at], repository)
    BY <1>1, <1>2, FirstRuleIsFirst
  <2> QED
    BY <1>2, <2>1, <2>2 DEF rule
<1>4. /\ IsList(rule.tagged) /\ IsList(rule.untagged)
      /\ \A j \in DOMAIN rule.tagged : PatternOf(rule.tagged[j].tag, Tag) /\ rule.tagged[j].newest \in Int
      /\ \A j \in DOMAIN rule.untagged : rule.untagged[j].tag = Nil /\ rule.untagged[j].newest \in Int
  BY <1>1, <1>3 DEF CompiledOf, rule
<1>5. ranks = Ranks(rule) /\ \A m \in Manifest : m \in kept <=> Keep(m)
  BY DEF IInv, StageInv, Decided
<1> QED
  BY <1>1, <1>2, <1>3, <1>4, <1>5

\* The first rule of a list that decides a tag, or an untagged manifest.
LEMMA DecidesFirst ==
  ASSUME IInv, Decided, NEW m
  PROVE  /\ \A t : /\ DecidesTag(m, t) # 0 =>
                       /\ DecidesTag(m, t) \in DOMAIN rule.tagged
                       /\ MatchString(rule.tagged[DecidesTag(m, t)].tag, t)
                       /\ Decides(ranks.tagged[DecidesTag(m, t)], rule.tagged[DecidesTag(m, t)], m)
                   /\ \A i \in DOMAIN rule.tagged :
                        MatchString(rule.tagged[i].tag, t) /\ Decides(ranks.tagged[i], rule.tagged[i], m)
                          => DecidesTag(m, t) # 0 /\ DecidesTag(m, t) <= i
         /\ \A i \in DOMAIN rule.untagged :
              Decides(ranks.untagged[i], rule.untagged[i], m)
                => DecidesUntagged(m) # 0 /\ DecidesUntagged(m) <= i
<1>1. IsList(rule.tagged) /\ IsList(rule.untagged)
  BY DecidedBy
<1>2. ASSUME NEW t
      PROVE  /\ DecidesTag(m, t) # 0 =>
                 /\ DecidesTag(m, t) \in DOMAIN rule.tagged
                 /\ MatchString(rule.tagged[DecidesTag(m, t)].tag, t)
                 /\ Decides(ranks.tagged[DecidesTag(m, t)], rule.tagged[DecidesTag(m, t)], m)
             /\ \A i \in DOMAIN rule.tagged :
                  MatchString(rule.tagged[i].tag, t) /\ Decides(ranks.tagged[i], rule.tagged[i], m)
                    => DecidesTag(m, t) # 0 /\ DecidesTag(m, t) <= i
  <2> DEFINE S == {i \in DOMAIN rule.tagged :
                     MatchString(rule.tagged[i].tag, t) /\ Decides(ranks.tagged[i], rule.tagged[i], m)}
  <2>1. S \in SUBSET Nat /\ 0 \notin S
    BY <1>1 DEF IsList
  <2>2. /\ S = {} => Least(S, 0) = 0
        /\ S # {} => Least(S, 0) \in S /\ \A j \in S : Least(S, 0) <= j
    <3> HIDE DEF S
    <3> QED
      BY <2>1, Leasts
  <2>3. DecidesTag(m, t) = Least(S, 0)
    BY DEF DecidesTag
  <2> QED
    BY <2>1, <2>2, <2>3
<1>3. \A i \in DOMAIN rule.untagged :
        Decides(ranks.untagged[i], rule.untagged[i], m)
          => DecidesUntagged(m) # 0 /\ DecidesUntagged(m) <= i
  <2> DEFINE S == {i \in DOMAIN rule.untagged : Decides(ranks.untagged[i], rule.untagged[i], m)}
  <2>1. S \in SUBSET Nat /\ 0 \notin S
    BY <1>1 DEF IsList
  <2>2. S # {} => Least(S, 0) \in S /\ \A j \in S : Least(S, 0) <= j
    <3> HIDE DEF S
    <3> QED
      BY <2>1, Leasts
  <2>3. DecidesUntagged(m) = Least(S, 0)
    BY DEF DecidesUntagged
  <2> QED
    BY <2>1, <2>2, <2>3
<1> QED
  BY <1>2, <1>3

\* A rule without criteria matches every manifest.
LEMMA UnconstrainedDecides ==
  ASSUME NEW r, Unconstrained(r), NEW positions, NEW m
  PROVE  Decides(positions, r, m)
BY DEF Unconstrained, Decides, LeavesToIndex, MatchesRule, MatchesCriteria, MatchesPlatform, MatchString

\* A rule shadowed matches nothing the rule said to shadow it does not; and if
\* it has one name, no earlier rule matches that.
LEMMA ShadowsMatch ==
  ASSUME NEW rs, CompiledOf(rs), NEW i \in DOMAIN rs, Shadows(rs)[i] # 0,
         NEW n \in Name, Matches(rs[i], n)
  PROVE  /\ Shadows(rs)[i] \in 1..(i - 1) /\ Matches(rs[Shadows(rs)[i]], n)
         /\ IsLiteral(rs[i]) => \A j \in 1..(Shadows(rs)[i] - 1) : ~Matches(rs[j], n)
<1> DEFINE anys == {j \in DOMAIN rs : MatchesAnyName(rs[j].repo)}
           c    == CatchAll(rs)
           S    == {j \in 1..(i - 1) : j <= c /\ Covers(rs, j, i)}
           s    == Least(S, 0)
<1>1. Len(rs) \in Nat /\ DOMAIN rs = 1..Len(rs)
  BY DEF CompiledOf, IsList
<1>2. c = Least(anys, Len(rs) + 1) /\ anys \in SUBSET Nat
  BY <1>1 DEF CatchAll
<1>3. anys = {} => c = Len(rs) + 1
  <2> HIDE DEF anys, c
  <2> QED
    BY <1>2, Leasts
<1>4. anys # {} => c \in anys
  <2> HIDE DEF anys, c
  <2> QED
    BY <1>2, Leasts
<1>5. c \in Nat /\ (c \in DOMAIN rs => MatchesAnyName(rs[c].repo))
  <2>1. CASE anys = {}
    <3>1. c = Len(rs) + 1
      BY <1>3, <2>1
    <3> HIDE DEF c
    <3> QED
      BY <1>1, <3>1
  <2>2. CASE anys # {}
    <3>1. c \in anys
      BY <1>4, <2>2
    <3> HIDE DEF c
    <3> QED
      BY <1>1, <3>1
  <2> QED
    BY <2>1, <2>2
<1>6. Shadows(rs)[i] = s
  BY DEF Shadows
<1> HIDE DEF c
<1>7. S \in SUBSET Nat
  BY <1>1
<1>8. s \in S /\ \A j \in S : s <= j
  <2> HIDE DEF S
  <2>1. S # {}
    BY <1>6, <1>7, Leasts
  <2> QED
    BY <1>7, <2>1, Leasts
<1> HIDE DEF s
<1>9. s \in 1..(i - 1) /\ s <= c /\ Covers(rs, s, i) /\ s \in DOMAIN rs
  BY <1>1, <1>8
<1>10. IsLiteral(rs[i]) => NameOf(rs[i]) = n
  BY SpellingsMean
<1>11. Matches(rs[s], n)
  <2>1. CASE s = c
    BY <1>5, <1>9, <2>1, SpellingsMean
  <2>2. CASE s # c
    BY <1>9, <1>10, <2>2, SpellingsMean DEF Covers, c
  <2> QED
    BY <2>1, <2>2
<1>12. ASSUME IsLiteral(rs[i]), NEW j \in 1..(s - 1), Matches(rs[j], n) PROVE FALSE
  <2>1. j \in 1..(i - 1) /\ j <= c /\ j < s /\ j \in DOMAIN rs
    BY <1>1, <1>5, <1>9
  <2>2. Covers(rs, j, i)
    BY <1>10, <1>12, <2>1, SpellingsMean DEF Covers
  <2>3. j \in S
    BY <2>1, <2>2
  <2> QED
    BY <1>8, <2>1, <2>3, <1>9
<1> QED
  BY <1>6, <1>9, <1>11, <1>12

\* What a warning names: a rule shadowed, or an entry after a catch-all.
LEMMA Warnings ==
  ASSUME NEW rs, NEW w \in Warned(rs)
  PROVE  /\ w[1] \in DOMAIN rs
         /\ \/ w[2] = "repository" /\ w[3] = Shadows(rs)[w[1]] /\ w[3] # 0
            \/ /\ w[2] = "tagged" /\ w = <<w[1], "tagged", w[3]>> /\ w[3] \in DOMAIN rs[w[1]].tagged
               /\ \E i \in 1..(w[3] - 1) : CatchAllTagged(rs[w[1]].tagged[i])
            \/ /\ w[2] = "untagged" /\ w = <<w[1], "untagged", w[3]>> /\ w[3] \in DOMAIN rs[w[1]].untagged
               /\ \E i \in 1..(w[3] - 1) : Unconstrained(rs[w[1]].untagged[i])
<1> DEFINE tagged(i)   == {t \in Range(rs[i].tagged) : CatchAllTagged(t)}
           untagged(i) == {u \in Range(rs[i].untagged) : Unconstrained(u)}
<1>1. \/ \E i \in DOMAIN rs : Shadows(rs)[i] # 0 /\ w = <<i, "repository", Shadows(rs)[i]>>
      \/ \E i \in DOMAIN rs : \E j \in AfterCatchAll(rs[i].tagged, tagged(i)) : w = <<i, "tagged", j>>
      \/ \E i \in DOMAIN rs : \E j \in AfterCatchAll(rs[i].untagged, untagged(i)) : w = <<i, "untagged", j>>
  BY DEF Warned
<1>2. CASE \E i \in DOMAIN rs : Shadows(rs)[i] # 0 /\ w = <<i, "repository", Shadows(rs)[i]>>
  BY <1>2
<1>3. CASE \E i \in DOMAIN rs : \E j \in AfterCatchAll(rs[i].tagged, tagged(i)) : w = <<i, "tagged", j>>
  BY <1>3 DEF AfterCatchAll
<1>4. CASE \E i \in DOMAIN rs : \E j \in AfterCatchAll(rs[i].untagged, untagged(i)) : w = <<i, "untagged", j>>
  BY <1>4 DEF AfterCatchAll
<1> QED
  BY <1>1, <1>2, <1>3, <1>4

\* A rule is applied to a tag of a manifest, or to an untagged one.
LEMMA AppliedRules ==
  ASSUME NEW w, w \in Applied
  PROVE  \/ \E m \in Tagged : \E t \in image[m].tags : w = <<at, "tagged", DecidesTag(m, t)>>
         \/ \E m \in Untagged : w = <<at, "untagged", DecidesUntagged(m)>>
<1> DEFINE OfTags(m) == {<<at, "tagged", DecidesTag(m, t)>> : t \in image[m].tags}
           OfAll     == UNION {OfTags(m) : m \in Tagged}
           OfRest    == {<<at, "untagged", DecidesUntagged(m)>> : m \in Untagged}
<1>1. Applied = OfAll \cup OfRest
  BY DEF Applied
<1>2. w \in OfAll \/ w \in OfRest
  <2> HIDE DEF OfAll, OfRest
  <2> QED
    BY <1>1
<1>3. ASSUME w \in OfAll PROVE \E m \in Tagged : w \in OfTags(m)
  <2> HIDE DEF OfTags
  <2> QED
    BY <1>3
<1> QED
  BY <1>2, <1>3

-----------------------------------------------------------------------------
(* Theorems *)

\* The index of literal names changes nothing.
THEOREM FirstRuleFound == Spec => []FirstRuleDecides
<1>1. IInv => FirstRuleDecides
  BY FilesCompile, IndexIsExact DEF IInv, StageInv, FirstRuleDecides
<1> QED
  BY Invariance, <1>1, PTL

\* A rule warned of decides nothing, and the rule it is said to be shadowed by
\* takes what it would match.
THEOREM WarningsAreTrue == Spec => []WarnedNeverApply
<1>1. ASSUME IInv, Decided, NEW w \in warned, w[1] = at
      PROVE  w[2] # "repository" /\ w \notin Applied
  <2>1. w \in Warned(ruleSet)
    BY <1>1 DEF IInv, StageInv, Decided
  <2>2. CASE w[2] = "repository"
    <3>1. w[3] = Shadows(ruleSet)[at] /\ w[3] # 0
      BY <1>1, <2>1, <2>2, Warnings
    <3>2. w[3] \in 1..(at - 1) /\ Matches(ruleSet[w[3]], repository)
      BY <1>1, <3>1, DecidedBy, ShadowsMatch DEF rule
    <3>3. at \in 1..Len(ruleSet) /\ Len(ruleSet) \in Nat /\ DOMAIN ruleSet = 1..Len(ruleSet)
      BY <1>1, DecidedBy DEF CompiledOf, IsList
    <3>4. w[3] \in DOMAIN ruleSet /\ w[3] < at
      BY <3>2, <3>3
    <3>5. at <= w[3]
      BY <1>1, <3>2, <3>4, DecidedBy, FirstRuleIsFirst
    <3> QED
      BY <3>2, <3>3, <3>4, <3>5
  <2>3. CASE w[2] = "tagged"
    <3> SUFFICES ASSUME w \in Applied PROVE FALSE
      BY <2>3
    <3>1. PICK i \in 1..(w[3] - 1) : CatchAllTagged(rule.tagged[i])
      BY <1>1, <2>1, <2>3, Warnings DEF rule
    <3>2. PICK m \in Tagged, t \in Tag : t \in image[m].tags /\ w[3] = DecidesTag(m, t)
      <4>1. \A u \in Untagged : w # <<at, "untagged", DecidesUntagged(u)>>
        BY <2>3
      <4>2. PICK m \in Tagged : \E t \in image[m].tags : w = <<at, "tagged", DecidesTag(m, t)>>
        BY <4>1, AppliedRules
      <4>3. image[m].tags \subseteq Tag
        BY <1>1, <4>2, DecidedBy DEF ListingOf, Tagged
      <4> QED
        BY <4>2, <4>3
    <3>3. w[3] \in DOMAIN rule.tagged
      BY <1>1, <2>1, <2>3, Warnings DEF rule
    <3>4. IsList(rule.tagged)
      BY <1>1, DecidedBy
    <3>5. i \in DOMAIN rule.tagged /\ i < w[3] /\ w[3] \in Nat
      BY <3>3, <3>4 DEF IsList
    <3>6. MatchString(rule.tagged[i].tag, t)
      BY <1>1, <3>1, <3>5, DecidedBy DEF CatchAllTagged, MatchString, MatchesAnyName, PatternOf
    <3>7. Decides(ranks.tagged[i], rule.tagged[i], m)
      BY <3>1, UnconstrainedDecides DEF CatchAllTagged
    <3>8. DecidesTag(m, t) <= i
      BY <1>1, <3>5, <3>6, <3>7, DecidesFirst
    <3> QED
      BY <3>2, <3>5, <3>8
  <2>4. CASE w[2] = "untagged"
    <3> SUFFICES ASSUME w \in Applied PROVE FALSE
      BY <2>4
    <3>1. PICK i \in 1..(w[3] - 1) : Unconstrained(rule.untagged[i])
      BY <1>1, <2>1, <2>4, Warnings DEF rule
    <3>2. PICK m \in Untagged : w[3] = DecidesUntagged(m)
      <4>1. \A m \in Tagged : \A t : w # <<at, "tagged", DecidesTag(m, t)>>
        BY <2>4
      <4>2. PICK m \in Untagged : w = <<at, "untagged", DecidesUntagged(m)>>
        BY <4>1, AppliedRules
      <4> QED
        BY <4>2
    <3>3. w[3] \in DOMAIN rule.untagged
      BY <1>1, <2>1, <2>4, Warnings DEF rule
    <3>4. IsList(rule.untagged)
      BY <1>1, DecidedBy
    <3>5. i \in DOMAIN rule.untagged /\ i < w[3] /\ w[3] \in Nat
      BY <3>3, <3>4 DEF IsList
    <3>6. Decides(ranks.untagged[i], rule.untagged[i], m)
      BY <3>1, UnconstrainedDecides
    <3>7. DecidesUntagged(m) <= i
      BY <1>1, <3>5, <3>6, DecidesFirst
    <3> QED
      BY <3>2, <3>5, <3>7
  <2> QED
    BY <2>1, <2>2, <2>3, <2>4, Warnings
<1>2. ASSUME IInv, NEW w \in warned, w[2] = "repository", NEW n \in ruleSet[w[1]].repo.names,
             IsLiteral(ruleSet[w[1]])
      PROVE  FirstRule(ruleSet, n) = w[3]
  <2>1. ruleSet = CompileAll(specs) /\ w \in Warned(ruleSet) /\ FileOf(specs)
    BY <1>2 DEF IInv, StageInv
  <2>2. CompiledOf(ruleSet)
    BY <2>1, FilesCompile
  <2>3. w[1] \in DOMAIN ruleSet /\ w[3] = Shadows(ruleSet)[w[1]] /\ w[3] # 0
    BY <1>2, <2>1, Warnings
  <2>4. n \in Name /\ Matches(ruleSet[w[1]], n)
    BY <1>2, <2>2, <2>3 DEF CompiledOf, PatternOf, Matches
  <2>5. /\ w[3] \in 1..(w[1] - 1) /\ Matches(ruleSet[w[3]], n)
        /\ \A j \in 1..(w[3] - 1) : ~Matches(ruleSet[j], n)
    BY <1>2, <2>2, <2>3, <2>4, ShadowsMatch
  <2>6. Len(ruleSet) \in Nat /\ DOMAIN ruleSet = 1..Len(ruleSet)
    BY <2>2 DEF CompiledOf, IsList
  <2>7. w[3] \in DOMAIN ruleSet
    BY <2>3, <2>5, <2>6
  <2>8. FirstRule(ruleSet, n) \in 1..w[3] /\ Matches(ruleSet[FirstRule(ruleSet, n)], n)
    BY <2>2, <2>5, <2>6, <2>7, FirstRuleIsFirst
  <2> QED
    BY <2>5, <2>6, <2>7, <2>8
<1>3. IInv => WarnedNeverApply
  BY <1>1, <1>2 DEF WarnedNeverApply
<1> QED
  BY Invariance, <1>3, PTL

\* Compiling drops no constraint.
THEOREM ConstraintsAreCompiled == Spec => []ConstraintsSurvive
<1>1. ASSUME NEW s, EntryOf(s), ~BadCommon(s), Unconstrained(Compiled(s))
      PROVE  s.newest = {} /\ s.newer = {} /\ s.older \subseteq {0}
  <2>1. s.newest = {}
    BY <1>1 DEF Unconstrained, Compiled, BadCommon
  <2>2. s.newer = {}
    <3> SUFFICES ASSUME s.newer # {} PROVE FALSE
      OBVIOUS
    <3>1. (CHOOSE x \in s.newer : TRUE) = 0
      BY <1>1 DEF Unconstrained, Compiled
    <3>2. 0 \in s.newer
      BY <3>1
    <3> QED
      BY <1>1, <3>2 DEF BadCommon
  <2>3. s.older \subseteq {0}
    <3> SUFFICES ASSUME s.older # {} PROVE s.older \subseteq {0}
      OBVIOUS
    <3>1. (CHOOSE x \in s.older : TRUE) = 0
      BY <1>1 DEF Unconstrained, Compiled
    <3>2. 0 \in s.older
      BY <3>1
    <3> QED
      BY <1>1, <3>2 DEF EntryOf, Single
  <2> QED
    BY <2>1, <2>2, <2>3
<1>2. ASSUME IInv, stage \notin {"file", "refused"}, NEW i \in DOMAIN specs
      PROVE  /\ \A j \in DOMAIN specs[i].tagged :
                  Unconstrained(ruleSet[i].tagged[j]) =>
                    LET s == specs[i].tagged[j]
                    IN s.newest = {} /\ s.newer = {} /\ s.older \subseteq {0}
             /\ \A j \in DOMAIN specs[i].untagged :
                  Unconstrained(ruleSet[i].untagged[j]) =>
                    LET s == specs[i].untagged[j]
                    IN s.newest = {} /\ s.newer = {} /\ s.older \subseteq {0}
  <2>1. ruleSet = CompileAll(specs) /\ ~BadRepoRule(specs[i]) /\ FileOf(specs)
    BY <1>2 DEF IInv, StageInv
  <2>2. /\ ruleSet[i].tagged = [j \in DOMAIN specs[i].tagged |-> Compiled(specs[i].tagged[j])]
        /\ ruleSet[i].untagged = [j \in DOMAIN specs[i].untagged |-> Compiled(specs[i].untagged[j])]
    BY <2>1 DEF CompileAll, CompileRepoRule
  <2>3. \A j \in DOMAIN specs[i].tagged : EntryOf(specs[i].tagged[j]) /\ ~BadCommon(specs[i].tagged[j])
    BY <2>1 DEF FileOf, BadRepoRule
  <2>4. \A j \in DOMAIN specs[i].untagged : EntryOf(specs[i].untagged[j]) /\ ~BadCommon(specs[i].untagged[j])
    BY <2>1 DEF FileOf, BadRepoRule
  <2> QED
    BY <1>1, <2>2, <2>3, <2>4
<1>3. IInv => ConstraintsSurvive
  BY <1>2 DEF ConstraintsSurvive
<1> QED
  BY Invariance, <1>3, PTL

\* Only the first rule that matches a repository applies to it, and only where
\* the text of its entries says.
THEOREM OnlyTheFirstApplies == Spec => []OnlyTheFirstRuleApplies
<1>1. FirstRuleDecides /\ WarnedNeverApply /\ ConstraintsSurvive => OnlyTheFirstRuleApplies
  BY DEF OnlyTheFirstRuleApplies
<1> QED
  BY FirstRuleFound, WarningsAreTrue, ConstraintsAreCompiled, <1>1, PTL

\* The rankings of the rule's lists.
LEMMA RankedRules ==
  ASSUME IInv, Decided
  PROVE  /\ \A i \in DOMAIN rule.tagged : rule.tagged[i].newest # 0 =>
              ranks.tagged[i] = Position(Matching(Tagged, rule.tagged[i]))
         /\ \A i \in DOMAIN rule.untagged : rule.untagged[i].newest # 0 =>
              ranks.untagged[i] = Position(Matching(Untagged, rule.untagged[i]))
<1>1. ListingOf(image) /\ Tagged \in SUBSET Manifest /\ Untagged \in SUBSET Manifest
  BY DecidedBy DEF Tagged, Untagged
<1>2. /\ \A i \in DOMAIN rule.tagged : ranks.tagged[i] = Rank(Tagged, rule.tagged[i])
      /\ \A i \in DOMAIN rule.untagged : ranks.untagged[i] = Rank(Untagged, rule.untagged[i])
  BY DecidedBy DEF Ranks
<1> QED
  BY <1>1, <1>2, RankIsPosition

\* A rule with newest matches no manifest of an index, and no other that it
\* would not match without.
LEMMA RankedMatch ==
  ASSUME IInv, Decided, NEW i \in DOMAIN rule.tagged, NEW m,
         MatchesRule(ranks.tagged[i], rule.tagged[i], m)
  PROVE  /\ MatchesCriteria(rule.tagged[i], m)
         /\ rule.tagged[i].newest # 0 => ~image[m].owned
<1>1. CASE rule.tagged[i].newest = 0
  BY <1>1 DEF MatchesRule
<1>2. CASE rule.tagged[i].newest # 0
  <2>1. m \in DOMAIN Position(Matching(Tagged, rule.tagged[i]))
    BY <1>2, RankedRules DEF MatchesRule
  <2> QED
    BY <2>1 DEF Position, Matching, Ranked
<1> QED
  BY <1>1, <1>2

\* No image is deleted that one of its tags is to keep.
THEOREM TagsAreSafe == Spec => []NoTagIsLost
<1>1. ASSUME IInv, Decided, NEW m \in Tagged \ kept, NEW t \in image[m].tags
      PROVE  \E i \in DOMAIN rule.tagged :
               /\ MatchString(rule.tagged[i].tag, t) /\ MatchesCriteria(rule.tagged[i], m)
               /\ ~rule.tagged[i].keep \/ (image[m].owned /\ rule.tagged[i].newest # 0)
               /\ \A j \in 1..(i - 1) :
                    rule.tagged[j].keep /\ MatchString(rule.tagged[j].tag, t) => ~MatchesRule(ranks.tagged[j], rule.tagged[j], m)
  <2> DEFINE i == DecidesTag(m, t)
  <2>1. ~Keep(m)
    BY <1>1, DecidedBy DEF Tagged
  <2>2. ~Verdict(rule.tagged, i, m)
    BY <1>1, <2>1 DEF Keep
  <2>3. i # 0 /\ (LeavesToIndex(rule.tagged[i], m) \/ ~rule.tagged[i].keep)
    BY <2>2 DEF Verdict
  <2>4. i \in DOMAIN rule.tagged /\ MatchString(rule.tagged[i].tag, t) /\ Decides(ranks.tagged[i], rule.tagged[i], m)
    BY <1>1, <2>3, DecidesFirst
  <2>5. IsList(rule.tagged)
    BY <1>1, DecidedBy
  <2> HIDE DEF i
  <2>6. MatchesCriteria(rule.tagged[i], m)
    BY <1>1, <2>4, RankedMatch DEF Decides
  <2>7. ASSUME NEW j \in 1..(i - 1), MatchString(rule.tagged[j].tag, t)
        PROVE  ~MatchesRule(ranks.tagged[j], rule.tagged[j], m)
    <3>1. j \in DOMAIN rule.tagged /\ j < i
      BY <2>4, <2>5 DEF IsList
    <3>2. ~Decides(ranks.tagged[j], rule.tagged[j], m)
      <4>1. i \in Nat /\ j \in Nat /\ ~(i <= j)
        BY <2>4, <2>5, <3>1 DEF IsList
      <4> QED
        BY <1>1, <2>7, <3>1, <4>1, DecidesFirst DEF i
    <3>3. LeavesToIndex(rule.tagged[j], m) => ~MatchesRule(ranks.tagged[j], rule.tagged[j], m)
      BY <1>1, <3>1, RankedMatch DEF LeavesToIndex
    <3> QED
      BY <3>2, <3>3 DEF Decides
  <2>8. ~rule.tagged[i].keep \/ (image[m].owned /\ rule.tagged[i].newest # 0)
    BY <2>3 DEF LeavesToIndex
  <2> QED
    BY <2>4, <2>6, <2>7, <2>8
<1>2. IInv => NoTagIsLost
  BY <1>1 DEF NoTagIsLost
<1> QED
  BY Invariance, <1>2, PTL

\* What the README says of platform images is true of each tag: an image of an index,
\* whatever its rank, is left to its indexes exactly when for every tag the first rule
\* that matches tag and image deletes or ranks. Only then it follows them.
FollowsByEachTag ==
  Decided => \A m \in Tagged : image[m].owned /\ ~image[m].referrer =>
    (m \notin kept <=>
       \A t \in image[m].tags : \E i \in DOMAIN rule.tagged :
         /\ MatchString(rule.tagged[i].tag, t) /\ MatchesCriteria(rule.tagged[i], m)
         /\ rule.tagged[i].newest # 0 \/ ~rule.tagged[i].keep
         /\ \A j \in 1..(i - 1) :
              MatchString(rule.tagged[j].tag, t) => ~MatchesCriteria(rule.tagged[j], m))

THEOREM PlatformImagesFollowByEachTag == Spec => []FollowsByEachTag
<1>1. ASSUME IInv, Decided, NEW m \in Tagged, image[m].owned, ~image[m].referrer,
             NEW t \in image[m].tags
      PROVE  ~Verdict(rule.tagged, DecidesTag(m, t), m) <=>
               \E i \in DOMAIN rule.tagged :
                 /\ MatchString(rule.tagged[i].tag, t) /\ MatchesCriteria(rule.tagged[i], m)
                 /\ rule.tagged[i].newest # 0 \/ ~rule.tagged[i].keep
                 /\ \A j \in 1..(i - 1) :
                      MatchString(rule.tagged[j].tag, t) => ~MatchesCriteria(rule.tagged[j], m)
  <2> DEFINE d == DecidesTag(m, t)
  <2>1. IsList(rule.tagged)
    BY <1>1, DecidedBy
  <2>2. \A i \in DOMAIN rule.tagged :
          Decides(ranks.tagged[i], rule.tagged[i], m) <=> MatchesCriteria(rule.tagged[i], m)
    BY <1>1 DEF Decides, LeavesToIndex, MatchesRule
  <2>3. d # 0 => /\ d \in DOMAIN rule.tagged /\ MatchString(rule.tagged[d].tag, t)
                 /\ Decides(ranks.tagged[d], rule.tagged[d], m)
    BY <1>1, DecidesFirst
  <2>4. \A i \in DOMAIN rule.tagged :
          MatchString(rule.tagged[i].tag, t) /\ Decides(ranks.tagged[i], rule.tagged[i], m) =>
            d # 0 /\ d <= i
    BY <1>1, DecidesFirst
  <2>5. ~Verdict(rule.tagged, d, m) <=> d # 0 /\ (rule.tagged[d].newest # 0 \/ ~rule.tagged[d].keep)
    BY <1>1 DEF Verdict, LeavesToIndex
  <2> HIDE DEF d
  <2>6. ASSUME ~Verdict(rule.tagged, d, m)
        PROVE  \E i \in DOMAIN rule.tagged :
                 /\ MatchString(rule.tagged[i].tag, t) /\ MatchesCriteria(rule.tagged[i], m)
                 /\ rule.tagged[i].newest # 0 \/ ~rule.tagged[i].keep
                 /\ \A j \in 1..(i - 1) :
                      MatchString(rule.tagged[j].tag, t) => ~MatchesCriteria(rule.tagged[j], m)
    <3>1. d \in DOMAIN rule.tagged /\ MatchString(rule.tagged[d].tag, t) /\ MatchesCriteria(rule.tagged[d], m)
      BY <2>2, <2>3, <2>5, <2>6
    <3>2. ASSUME NEW j \in 1..(d - 1), MatchString(rule.tagged[j].tag, t), MatchesCriteria(rule.tagged[j], m)
          PROVE  FALSE
      <4>1. j \in DOMAIN rule.tagged /\ d \in Nat /\ j \in Nat /\ ~(d <= j)
        BY <2>1, <3>1 DEF IsList
      <4> QED
        BY <2>2, <2>4, <3>2, <4>1
    <3> QED
      BY <2>5, <2>6, <3>1, <3>2
  <2>7. ASSUME NEW i \in DOMAIN rule.tagged,
               MatchString(rule.tagged[i].tag, t), MatchesCriteria(rule.tagged[i], m),
               rule.tagged[i].newest # 0 \/ ~rule.tagged[i].keep,
               \A j \in 1..(i - 1) : MatchString(rule.tagged[j].tag, t) => ~MatchesCriteria(rule.tagged[j], m)
        PROVE  ~Verdict(rule.tagged, d, m)
    <3>1. d # 0 /\ d <= i
      BY <2>2, <2>4, <2>7
    <3>2. d \in DOMAIN rule.tagged /\ MatchString(rule.tagged[d].tag, t) /\ MatchesCriteria(rule.tagged[d], m)
      BY <2>2, <2>3, <3>1
    <3>3. d \in 1..i
      BY <2>1, <3>1, <3>2 DEF IsList
    <3>4. d \notin 1..(i - 1)
      BY <2>7, <3>2
    <3>5. d = i
      BY <2>1, <3>3, <3>4 DEF IsList
    <3> QED
      BY <2>5, <2>7, <3>1, <3>5
  <2> QED
    BY <2>6, <2>7 DEF d
<1>2. ASSUME IInv, Decided, NEW m \in Tagged, ~image[m].referrer
      PROVE  m \notin kept <=> \A t \in image[m].tags : ~Verdict(rule.tagged, DecidesTag(m, t), m)
  BY <1>2, DecidedBy DEF Keep, Tagged
<1>3. IInv => FollowsByEachTag
  BY <1>1, <1>2 DEF FollowsByEachTag
<1> QED
  BY Invariance, <1>3, PTL

\* What newest selects, of any list.
LEMMA Selected ==
  ASSUME ListingOf(image), NEW S \in SUBSET Manifest, NEW r, r.newest # 0, r.newest \in Int,
         Matching(S, r) = Candidates(S, r), NEW m \in Manifest
  PROVE  MatchesRule(Position(Matching(S, r)), r, m) <=>
           /\ m \in Candidates(S, r)
           /\ IF r.newest > 0 THEN NewerThan(S, r, m) < r.newest
              ELSE NewerThan(S, r, m) >= -r.newest
<1> DEFINE images == Candidates(S, r)
           positions == Position(Matching(S, r))
           p == Cardinality(Before(images, m))
<1>1. images \in SUBSET Manifest
  BY DEF Candidates
<1>2. NewerThan(S, r, m) = p
  <2>1. Before(images, m) = {n \in images :
          image[n].updated > image[m].updated \/ (image[n].updated = image[m].updated /\ n < m)}
    BY DEF Before, ByNewest
  <2> QED
    BY <2>1 DEF NewerThan
<1>3. p \in 0..MaxInt
  <2>1. Before(images, m) \in SUBSET Manifest
    BY <1>1 DEF Before
  <2> QED
    BY <2>1, Counted
<1>4. m \in DOMAIN positions <=> m \in images
  BY DEF Position
<1>5. m \in images => positions[m] = p
  BY DEF Position
<1> HIDE DEF images, positions, p
<1>6. WithinNewest(r.newest, p) <=> IF r.newest > 0 THEN p < r.newest ELSE p >= -r.newest
  <2>1. Int_(-p) = -p
    BY <1>3, Negated
  <2>2. p \in Int
    BY <1>3, IntAndTime
  <2> QED
    BY <2>1, <2>2 DEF WithinNewest
<1>7. MatchesRule(positions, r, m) <=> m \in images /\ WithinNewest(r.newest, p)
  BY <1>4, <1>5 DEF MatchesRule
<1> QED
  BY <1>2, <1>6, <1>7 DEF images, positions

\* A rule matches the images it chooses among.
LEMMA MatchingAreCandidates ==
  ASSUME NEW r
  PROVE  /\ Matching(Tagged, r) = Candidates(Tagged, r)
         /\ r.tag = Nil => Matching(Untagged, r) = Candidates(Untagged, r)
<1>1. ASSUME NEW m \in Tagged
      PROVE  MatchAny(r.tag, image[m].tags) <=> m \in Untagged \/ \E t \in image[m].tags : MatchString(r.tag, t)
  <2>1. m \notin Untagged /\ image[m].tags # {}
    BY DEF Tagged, Untagged
  <2> QED
    BY <2>1 DEF MatchAny, MatchString
<1>2. Matching(Tagged, r) = Candidates(Tagged, r)
  BY <1>1 DEF Matching, Candidates, Ranked
<1>3. r.tag = Nil => Matching(Untagged, r) = Candidates(Untagged, r)
  BY DEF Matching, Candidates, Ranked, MatchAny, Nil
<1> QED
  BY <1>2, <1>3

\* newest selects the newest, or all but the newest, of what its rule matches.
THEOREM NewestSelectsExactly == Spec => []NewestIsExact
<1>1. ASSUME IInv, Decided, NEW i \in DOMAIN rule.tagged, rule.tagged[i].newest # 0, NEW m \in Manifest
      PROVE  MatchesRule(ranks.tagged[i], rule.tagged[i], m) <=>
               /\ m \in Candidates(Tagged, rule.tagged[i])
               /\ IF rule.tagged[i].newest > 0 THEN NewerThan(Tagged, rule.tagged[i], m) < rule.tagged[i].newest
                  ELSE NewerThan(Tagged, rule.tagged[i], m) >= -rule.tagged[i].newest
  <2>1. /\ ListingOf(image) /\ Tagged \in SUBSET Manifest /\ rule.tagged[i].newest \in Int
        /\ Matching(Tagged, rule.tagged[i]) = Candidates(Tagged, rule.tagged[i])
        /\ ranks.tagged[i] = Position(Matching(Tagged, rule.tagged[i]))
    BY <1>1, DecidedBy, MatchingAreCandidates, RankedRules DEF Tagged
  <2> QED
    BY <1>1, <2>1, Selected
<1>2. ASSUME IInv, Decided, NEW i \in DOMAIN rule.untagged, rule.untagged[i].newest # 0, NEW m \in Manifest
      PROVE  MatchesRule(ranks.untagged[i], rule.untagged[i], m) <=>
               /\ m \in Candidates(Untagged, rule.untagged[i])
               /\ IF rule.untagged[i].newest > 0 THEN NewerThan(Untagged, rule.untagged[i], m) < rule.untagged[i].newest
                  ELSE NewerThan(Untagged, rule.untagged[i], m) >= -rule.untagged[i].newest
  <2>1. /\ ListingOf(image) /\ Untagged \in SUBSET Manifest /\ rule.untagged[i].newest \in Int
        /\ Matching(Untagged, rule.untagged[i]) = Candidates(Untagged, rule.untagged[i])
        /\ ranks.untagged[i] = Position(Matching(Untagged, rule.untagged[i]))
    BY <1>2, DecidedBy, MatchingAreCandidates, RankedRules DEF Untagged
  <2> QED
    BY <1>2, <2>1, Selected
<1>3. IInv => NewestIsExact
  BY <1>1, <1>2 DEF NewestIsExact
<1> QED
  BY Invariance, <1>3, PTL

\* The N newest of a set of manifests are N, unless the set has no more.
LEMMA NewestAreMany ==
  ASSUME ListingOf(image), NEW S \in SUBSET Manifest, NEW N \in Nat \ {0}
  PROVE  LET newest == {m \in S : Position(S)[m] < N}
         IN newest = S \/ Cardinality(newest) >= N
<1> DEFINE pos    == Position(S)
           newest == {m \in S : pos[m] < N}
           last   == Cardinality(S) - 1
           f      == [m \in newest |-> pos[m]]
<1>1. IsFiniteSet(newest) /\ Cardinality(newest) \in Nat /\ last \in Int
  <2>1. newest \in SUBSET Manifest
    OBVIOUS
  <2> QED
    BY <2>1, Counted
<1>2. pos \in [S -> 0..last] /\ \A k \in 0..last : \E m \in S : pos[m] = k
  <2>1. pos \in Bijection(S, 0..last)
    BY Positions
  <2> HIDE DEF pos, last
  <2> QED
    BY <2>1 DEF Bijection, Injection, Surjection
<1> SUFFICES ASSUME NEW m \in S, pos[m] >= N PROVE Cardinality(newest) >= N
  <2> HIDE DEF last
  <2>1. \A m \in S : pos[m] \in Int
    <3> HIDE DEF pos
    <3> QED
      BY <1>1, <1>2
  <2> HIDE DEF pos
  <2>2. newest # S => \E m \in S : pos[m] >= N
    BY <2>1
  <2> QED
    BY <2>2 DEF pos
<1> HIDE DEF pos, last
<1>3. N <= last
  BY <1>1, <1>2
<1>4. \A k \in 0..(N - 1) : \E n \in newest : f[n] = k
  <2> SUFFICES ASSUME NEW k \in 0..(N - 1) PROVE \E n \in newest : f[n] = k
    OBVIOUS
  <2>1. PICK n \in S : pos[n] = k
    BY <1>1, <1>2, <1>3
  <2>2. n \in newest
    BY <2>1
  <2> QED
    BY <2>1, <2>2
<1>5. f \in [newest -> 0..(N - 1)]
  BY <1>1, <1>2
<1>6. IsFiniteSet(0..(N - 1)) /\ Cardinality(0..(N - 1)) = N
  BY FS_Interval
<1> HIDE DEF f, newest
<1>7. f \in Surjection(newest, 0..(N - 1))
  BY <1>4, <1>5 DEF Surjection
<1>8. N <= Cardinality(newest)
  BY <1>1, <1>6, <1>7, FS_Surjection
<1> QED
  BY <1>1, <1>8

\* A rollback window is full.
THEOREM WindowsAreFull == Spec => []WindowIsFull
<1>1. ASSUME IInv, Decided, rule.tagged # <<>>, rule.tagged[1].newest > 0, rule.tagged[1].keep
      PROVE  LET images == Candidates(Tagged, rule.tagged[1])
             IN images \subseteq kept \/ Cardinality(images \cap kept) >= rule.tagged[1].newest
  <2> DEFINE r      == rule.tagged[1]
             images == Candidates(Tagged, r)
             newest == {m \in images : Position(images)[m] < r.newest}
  <2>1. 1 \in DOMAIN rule.tagged /\ r.newest \in Nat \ {0} /\ ListingOf(image)
    <3>1. IsList(rule.tagged)
      BY <1>1, DecidedBy
    <3>2. 1 \in DOMAIN rule.tagged
      BY <1>1, <3>1 DEF IsList
    <3> QED
      BY <1>1, <3>2, DecidedBy
  <2>2. images \in SUBSET Manifest /\ images \in SUBSET Tagged
    BY DEF Candidates, Tagged
  <2>3. ranks.tagged[1] = Position(images)
    BY <1>1, <2>1, RankedRules, MatchingAreCandidates
  <2>4. newest \subseteq kept
    <3> SUFFICES ASSUME NEW m \in images, Position(images)[m] < r.newest PROVE m \in kept
      OBVIOUS
    <3>1. PICK t \in image[m].tags : MatchString(r.tag, t)
      BY <2>2 DEF Candidates, Untagged, Tagged
    <3>2. ~LeavesToIndex(r, m)
      BY DEF LeavesToIndex, Candidates
    <3>3. MatchesRule(ranks.tagged[1], r, m)
      BY <1>1, <2>1, <2>3 DEF MatchesRule, WithinNewest, Position
    <3>4. DecidesTag(m, t) # 0 /\ DecidesTag(m, t) <= 1
      BY <1>1, <2>1, <3>1, <3>2, <3>3, DecidesFirst DEF Decides
    <3>5. DecidesTag(m, t) = 1
      <4>1. DecidesTag(m, t) \in DOMAIN rule.tagged /\ IsList(rule.tagged)
        BY <1>1, <3>4, DecidesFirst, DecidedBy
      <4> QED
        BY <3>4, <4>1 DEF IsList
    <3>6. Verdict(rule.tagged, DecidesTag(m, t), m)
      BY <1>1, <3>2, <3>5 DEF Verdict
    <3>7. Keep(m)
      BY <2>2, <3>1, <3>6 DEF Keep
    <3> QED
      BY <1>1, <2>2, <3>7, DecidedBy
  <2>5. newest = images \/ Cardinality(newest) >= r.newest
    <3> HIDE DEF images, r
    <3> QED
      BY <2>1, <2>2, NewestAreMany
  <2>6. Cardinality(newest) <= Cardinality(images \cap kept)
    <3>1. newest \in SUBSET (images \cap kept)
      BY <2>4
    <3>2. images \cap kept \in SUBSET Manifest
      BY <2>2
    <3> HIDE DEF images, newest
    <3> QED
      BY <3>1, <3>2, Counted, FS_Subset
  <2>7. Cardinality(newest) \in Int /\ Cardinality(images \cap kept) \in Int
    <3>1. newest \in SUBSET Manifest /\ images \cap kept \in SUBSET Manifest
      BY <2>2
    <3> HIDE DEF images, newest
    <3> QED
      BY <3>1, Counted, IntAndTime
  <2> HIDE DEF images, newest, r
  <2>8. images \subseteq kept \/ Cardinality(images \cap kept) >= r.newest
    BY <2>1, <2>4, <2>5, <2>6, <2>7
  <2> QED
    BY <2>8 DEF images, r
<1>2. IInv => WindowIsFull
  BY <1>1 DEF WindowIsFull
<1> QED
  BY Invariance, <1>2, PTL

\* Both halves of it.
THEOREM NewestIsSelected == Spec => []NewestSelects
<1>1. NewestIsExact /\ WindowIsFull => NewestSelects
  BY DEF NewestSelects
<1> QED
  BY NewestSelectsExactly, WindowsAreFull, <1>1, PTL


-----------------------------------------------------------------------------
(* Sums of sizes: as many bytes as the sizes add up to *)

BytesOf(S, size) == UNION {{k} \X (1..size[k]) : k \in S}

\* The statistics count with the same cardinality.
LEMMA SameCardinality == \A S : Stats!Cardinality(S) = Cardinality(S)
BY DEF Stats!Cardinality, Cardinality

\* Finitely many things have finitely many bytes.
LEMMA BytesAreFinite ==
  ASSUME NEW S, IsFiniteSet(S), NEW size, \A k \in S : size[k] \in Nat
  PROVE  IsFiniteSet(BytesOf(S, size))
<1> DEFINE Many == {T \in SUBSET S : ~IsFiniteSet(BytesOf(T, size))}
<1> SUFFICES ASSUME Many # {} PROVE FALSE
  OBVIOUS
<1>1. Many \in SUBSET FiniteSubsetsOf(S)
  BY FS_Subset DEF FiniteSubsetsOf
<1>2. PICK T \in Many : \A U \in Many : <<U, T>> \notin StrictSubsetOrdering(S)
  <2> HIDE DEF Many
  <2> QED
    BY <1>1, FS_StrictSubsetOrderingWellFounded, WFMin
<1>3. T \in SUBSET S /\ IsFiniteSet(T)
  BY <1>1, <1>2 DEF FiniteSubsetsOf
<1>4. T # {}
  <2>1. BytesOf({}, size) = {}
    BY DEF BytesOf
  <2> QED
    BY <1>2, <2>1, FS_EmptySet
<1>5. PICK k \in T : TRUE
  BY <1>4
<1>6. IsFiniteSet(BytesOf(T \ {k}, size))
  <2>1. <<T \ {k}, T>> \in StrictSubsetOrdering(S)
    BY <1>3, <1>5 DEF StrictSubsetOrdering
  <2> QED
    BY <1>2, <1>3, <2>1
<1>7. IsFiniteSet({k} \X (1..size[k]))
  <2> DEFINE f == [n \in 1..size[k] |-> <<k, n>>]
  <2>1. f \in Surjection(1..size[k], {k} \X (1..size[k]))
    BY DEF Surjection
  <2>2. IsFiniteSet(1..size[k])
    BY <1>3, <1>5, FS_Interval
  <2> HIDE DEF f
  <2> QED
    BY <2>1, <2>2, FS_Surjection
<1>8. BytesOf(T, size) = BytesOf(T \ {k}, size) \cup ({k} \X (1..size[k]))
  BY <1>5 DEF BytesOf
<1>9. IsFiniteSet(BytesOf(T, size))
  <2> DEFINE A == BytesOf(T \ {k}, size)
             B == {k} \X (1..size[k])
  <2>1. IsFiniteSet(A) /\ IsFiniteSet(B) /\ BytesOf(T, size) = A \cup B
    BY <1>6, <1>7, <1>8
  <2> HIDE DEF A, B
  <2>2. IsFiniteSet(A \cup B)
    BY <2>1, FS_Union
  <2> QED
    BY <2>1, <2>2
<1> QED
  BY <1>2, <1>9

\* Sums of sets that share nothing add up.
LEMMA SumsAdd ==
  ASSUME NEW S, IsFiniteSet(S), NEW T, IsFiniteSet(T), S \cap T = {},
         \A d \in S \cup T : Size[d] \in Nat
  PROVE  /\ Stats!SumOf(S) \in Nat /\ Stats!SumOf(T) \in Nat
         /\ Stats!SumOf(S \cup T) = Stats!SumOf(S) + Stats!SumOf(T)
<1>1. IsFiniteSet(BytesOf(S, Size)) /\ IsFiniteSet(BytesOf(T, Size))
  BY BytesAreFinite
<1>2. BytesOf(S \cup T, Size) = BytesOf(S, Size) \cup BytesOf(T, Size)
  BY DEF BytesOf
<1>3. BytesOf(S, Size) \cap BytesOf(T, Size) = {}
  BY DEF BytesOf
<1>4. Cardinality(BytesOf(S, Size)) \in Nat /\ Cardinality(BytesOf(T, Size)) \in Nat
  BY <1>1, FS_CardinalityType
<1>5. \A U : Stats!SumOf(U) = Cardinality(BytesOf(U, Size))
  BY SameCardinality DEF Stats!SumOf, BytesOf
<1>6. Cardinality(BytesOf(S \cup T, Size)) = Cardinality(BytesOf(S, Size)) + Cardinality(BytesOf(T, Size))
  <2> DEFINE A == BytesOf(S, Size)
             B == BytesOf(T, Size)
  <2>1. /\ IsFiniteSet(A) /\ IsFiniteSet(B) /\ A \cap B = {}
        /\ Cardinality(A) \in Nat /\ Cardinality(B) \in Nat
        /\ BytesOf(S \cup T, Size) = A \cup B
    BY <1>1, <1>2, <1>3, <1>4
  <2> HIDE DEF A, B
  <2>2. Cardinality(A \cap B) = 0
    BY <2>1, FS_EmptySet
  <2>3. Cardinality(A \cup B) = Cardinality(A) + Cardinality(B) - Cardinality(A \cap B)
    BY <2>1, FS_Union
  <2>4. Cardinality(A \cup B) = Cardinality(A) + Cardinality(B)
    BY <2>1, <2>2, <2>3
  <2> QED
    BY <2>1, <2>4 DEF A, B
<1> QED
  BY <1>4, <1>5, <1>6

\* Distinct blobs of a sequence have at most as many bytes as all of them.
LEMMA SumsRepeat ==
  ASSUME NEW s, IsList(s), \A i \in DOMAIN s : Size[s[i]] \in Nat,
         NEW S, S \subseteq {s[i] : i \in DOMAIN s}
  PROVE  /\ Stats!SumAll(s) \in Nat
         /\ IsFiniteSet(S) /\ Stats!SumOf(S) \in Nat
         /\ Stats!SumOf(S) <= Stats!SumAll(s)
<1> DEFINE sizes == [i \in DOMAIN s |-> Size[s[i]]]
           all   == {s[i] : i \in DOMAIN s}
           bytes == BytesOf(DOMAIN s, sizes)
           f     == [b \in bytes |-> <<s[b[1]], b[2]>>]
<1>1. IsFiniteSet(DOMAIN s)
  BY FS_Interval DEF IsList
<1>2. IsFiniteSet(bytes)
  BY <1>1, BytesAreFinite
<1>3. f \in Surjection(bytes, BytesOf(all, Size))
  <2>1. \A b \in bytes : b[1] \in DOMAIN s /\ b[2] \in 1..Size[s[b[1]]]
    BY DEF BytesOf
  <2>2. \A b \in bytes : f[b] \in BytesOf(all, Size)
    <3> SUFFICES ASSUME NEW b \in bytes PROVE <<s[b[1]], b[2]>> \in BytesOf(all, Size)
      OBVIOUS
    <3>1. s[b[1]] \in all /\ <<s[b[1]], b[2]>> \in {s[b[1]]} \X (1..Size[s[b[1]]])
      BY <2>1
    <3> HIDE DEF bytes, all
    <3> QED
      BY <3>1 DEF BytesOf
  <2>3. \A c \in BytesOf(all, Size) : \E b \in bytes : f[b] = c
    <3> SUFFICES ASSUME NEW i \in DOMAIN s, NEW n \in 1..Size[s[i]]
                 PROVE  \E b \in bytes : f[b] = <<s[i], n>>
      <4> HIDE DEF f, bytes
      <4> QED
        BY DEF BytesOf
    <3>1. <<i, n>> \in bytes
      BY DEF BytesOf
    <3>2. f[<<i, n>>] = <<s[i], n>>
      <4> HIDE DEF bytes
      <4> QED
        BY <3>1
    <3> HIDE DEF f, bytes
    <3> QED
      BY <3>1, <3>2
  <2>4. f \in [bytes -> BytesOf(all, Size)]
    <3> HIDE DEF bytes, all
    <3> QED
      BY <2>2
  <2> HIDE DEF f, bytes, all
  <2> QED
    BY <2>3, <2>4 DEF Surjection
<1>4. IsFiniteSet(BytesOf(all, Size)) /\ Cardinality(BytesOf(all, Size)) <= Cardinality(bytes)
  <2> HIDE DEF f, bytes, all
  <2> QED
    BY <1>2, <1>3, FS_Surjection
<1>5. IsFiniteSet(all)
  <2> DEFINE g == [i \in DOMAIN s |-> s[i]]
  <2>1. g \in Surjection(DOMAIN s, all)
    BY DEF Surjection
  <2> HIDE DEF g, all
  <2> QED
    BY <1>1, <2>1, FS_Surjection
<1>6. IsFiniteSet(S) /\ BytesOf(S, Size) \in SUBSET BytesOf(all, Size)
  <2>1. IsFiniteSet(S)
    BY <1>5, FS_Subset
  <2> QED
    BY <2>1 DEF BytesOf
<1>7. Cardinality(BytesOf(S, Size)) <= Cardinality(BytesOf(all, Size)) /\ IsFiniteSet(BytesOf(S, Size))
  BY <1>4, <1>6, FS_Subset
<1>8. Stats!SumOf(S) = Cardinality(BytesOf(S, Size))
  BY SameCardinality DEF Stats!SumOf, BytesOf
<1>9. Stats!SumAll(s) = Cardinality(bytes)
  <2>1. bytes = UNION {{i} \X (1..Size[s[i]]) : i \in DOMAIN s}
    BY DEF BytesOf
  <2> HIDE DEF bytes
  <2> QED
    BY <2>1, SameCardinality DEF Stats!SumAll
<1>10. Cardinality(bytes) \in Nat /\ Cardinality(BytesOf(all, Size)) \in Nat /\ Cardinality(BytesOf(S, Size)) \in Nat
  BY <1>2, <1>4, <1>7, FS_CardinalityType
<1> HIDE DEF bytes, all
<1> QED
  BY <1>4, <1>6, <1>7, <1>8, <1>9, <1>10


-----------------------------------------------------------------------------
(* The statistics *)

Stat == [repository : 1..Repositories, count : Nat, unique : Nat, total : Nat, running : Nat]

ScanTypes ==
  /\ list \in Lists
  /\ present \in [1..Repositories -> SUBSET Manifests]
  /\ gaps \in [1..Repositories -> SUBSET Manifests]
  /\ step \in {"list", "next", "count", "done", "failed"}
  /\ reached \in 0..Repositories
  /\ todo \subseteq Manifests
  /\ stats \in Seq(Stat)

\* Only the repository last begun has manifests left to count.
ScanStage ==
  /\ step = "list" => stats = <<>>
  /\ step = "count" =>
       /\ Len(stats) # 0 /\ stats[Len(stats)].repository = reached
       /\ todo \subseteq present[reached]
  /\ step # "count" => todo = {}

BlobsIn(m) == {m} \cup Range(Parts[m])

\* The blobs counted of a repository, and those of the repositories before it.
Held(i) ==
  UNION {BlobsIn(m) : m \in present[stats[i].repository] \ (IF i = Len(stats) THEN todo ELSE {})}

HeldBefore(i) == UNION {Held(j) : j \in 1..(i - 1)}

ChargeInv ==
  /\ seen = UNION {Held(i) : i \in DOMAIN stats}
  /\ \A i \in DOMAIN stats :
       /\ IsFiniteSet(Held(i))
       /\ stats[i].unique = Stats!SumOf(Held(i) \ HeldBefore(i))
       /\ stats[i].unique <= stats[i].total

ScanInv == ScanTypes /\ ScanStage /\ ChargeInv

\* The blobs of a manifest are the manifest and its parts.
LEMMA BlobsAre ==
  ASSUME NEW m \in Manifests
  PROVE  /\ IsList(Stats!Blobs(m))
         /\ Stats!Range(Stats!Blobs(m)) = BlobsIn(m)
         /\ BlobsIn(m) = {Stats!Blobs(m)[i] : i \in DOMAIN Stats!Blobs(m)}
         /\ \A i \in DOMAIN Stats!Blobs(m) : Size[Stats!Blobs(m)[i]] \in Nat
         /\ \A d \in BlobsIn(m) : Size[d] \in Nat
<1> DEFINE p == Parts[m]
           s == <<m>> \o p
<1>1. p \in Seq(Range(p)) /\ \A d \in {m} \cup Range(p) : Size[d] \in Nat
  BY RegistryIsFinite
<1>2. Range(p) = {p[i] : i \in 1..Len(p)} /\ Len(p) \in Nat
  BY <1>1 DEF Range
<1> HIDE DEF p
<1>3. /\ Len(s) = Len(p) + 1 /\ DOMAIN s = 1..(Len(p) + 1)
      /\ s[1] = m /\ \A i \in 1..Len(p) : s[i + 1] = p[i]
  BY <1>1, <1>2
<1>4. Stats!Blobs(m) = s
  BY DEF Stats!Blobs, p
<1> HIDE DEF s
<1>5. {s[i] : i \in DOMAIN s} = {m} \cup Range(p)
  <2>1. ASSUME NEW i \in 1..(Len(p) + 1) PROVE s[i] \in {m} \cup Range(p)
    <3>1. CASE i = 1
      BY <1>3, <3>1
    <3>2. CASE i # 1
      <4>1. i - 1 \in 1..Len(p) /\ (i - 1) + 1 = i
        BY <1>2, <3>2
      <4>2. s[i] = p[i - 1]
        BY <1>3, <4>1
      <4> QED
        BY <1>2, <4>1, <4>2
    <3> QED
      BY <3>1, <3>2
  <2>2. ASSUME NEW i \in 1..Len(p) PROVE p[i] \in {s[j] : j \in DOMAIN s}
    <3>1. i + 1 \in DOMAIN s
      BY <1>2, <1>3
    <3> QED
      BY <1>3, <3>1
  <2>3. m \in {s[j] : j \in DOMAIN s}
    <3>1. 1 \in DOMAIN s
      BY <1>2, <1>3
    <3> QED
      BY <1>3, <3>1
  <2> QED
    BY <1>2, <1>3, <2>1, <2>2, <2>3
<1>6. IsList(s)
  BY <1>2, <1>3 DEF IsList
<1>7. Stats!Range(s) = {s[i] : i \in DOMAIN s}
  BY DEF Stats!Range
<1> QED
  BY <1>1, <1>4, <1>5, <1>6, <1>7 DEF BlobsIn, p

\* What was counted and charged stays, as long as no manifest is counted.
LEMMA ChargesStay ==
  ASSUME ScanInv, present' = present, todo' = todo, seen' = seen,
         Len(stats') = Len(stats), DOMAIN stats' = DOMAIN stats,
         \A i \in DOMAIN stats : /\ stats'[i].repository = stats[i].repository
                                 /\ stats'[i].unique = stats[i].unique
                                 /\ stats'[i].total = stats[i].total
  PROVE  ChargeInv'
<1>1. DOMAIN stats = 1..Len(stats) /\ Len(stats) \in Nat
  BY DEF ScanInv, ScanTypes
<1>2. \A i \in DOMAIN stats : Held(i)' = Held(i)
  BY DEF Held
<1>3. \A i \in DOMAIN stats : HeldBefore(i)' = HeldBefore(i)
  <2> SUFFICES ASSUME NEW i \in DOMAIN stats PROVE HeldBefore(i)' = HeldBefore(i)
    OBVIOUS
  <2>1. \A j \in 1..(i - 1) : Held(j)' = Held(j)
    BY <1>1, <1>2
  <2> QED
    BY <2>1 DEF HeldBefore
<1>4. \A T : Stats!SumOf(T)' = Stats!SumOf(T)
  BY DEF Stats!SumOf, Stats!Cardinality
<1>5. seen' = UNION {Held(i)' : i \in DOMAIN stats'}
  <2> HIDE DEF Held
  <2> QED
    BY <1>2 DEF ScanInv, ChargeInv
<1>6. ASSUME NEW i \in DOMAIN stats'
      PROVE  /\ IsFiniteSet(Held(i)')
             /\ stats'[i].unique = Stats!SumOf(Held(i)' \ HeldBefore(i)')
             /\ stats'[i].unique <= stats'[i].total
  BY <1>2, <1>3 DEF ScanInv, ChargeInv
<1> QED
  BY <1>4, <1>5, <1>6 DEF ChargeInv


\* Nothing is counted at first.
LEMMA ScanInit == Stats!Init => ScanInv
<1> SUFFICES ASSUME Stats!Init PROVE ScanInv
  OBVIOUS
<1>1. stats = <<>> /\ DOMAIN stats = {} /\ seen = {} /\ todo = {} /\ step = "list"
  BY DEF Stats!Init
<1>2. ScanTypes
  BY RegistryIsFinite DEF Stats!Init, ScanTypes
<1>3. ScanStage /\ ChargeInv
  BY <1>1 DEF ScanStage, ChargeInv
<1> QED
  BY <1>2, <1>3 DEF ScanInv

\* The statistics of the next repository begin with what cannot be served.
LEMMA BegunStatistics ==
  ASSUME ScanInv, step = "next", reached + 1 \in 1..Repositories,
         stats' = Append(stats, [repository |-> reached + 1, count |-> Stats!Cardinality(gaps[reached + 1]),
                                 unique |-> 0, total |-> 0, running |-> 0]),
         todo' = present[reached + 1], present' = present, seen' = seen
  PROVE  /\ stats' \in Seq(Stat) /\ Len(stats') # 0 /\ stats'[Len(stats')].repository = reached + 1
         /\ Len(stats') = Len(stats) + 1 /\ \A i \in 1..Len(stats) : stats'[i] = stats[i]
         /\ ChargeInv'
<1>0. PICK L : L = Len(stats)
  OBVIOUS
<1> DEFINE new == [repository |-> reached + 1, count |-> Stats!Cardinality(gaps[reached + 1]),
                   unique |-> 0, total |-> 0, running |-> 0]
<1>1. Stats!Cardinality(gaps[reached + 1]) \in Nat
  <2>1. gaps[reached + 1] \in SUBSET Manifests
    BY DEF ScanInv, ScanTypes
  <2>2. IsFiniteSet(gaps[reached + 1])
    BY <2>1, RegistryIsFinite, FS_Subset
  <2> QED
    BY <2>2, SameCardinality, FS_CardinalityType
<1>2. new \in Stat
  BY <1>1 DEF Stat
<1>3. stats \in Seq(Stat) /\ L \in Nat /\ todo = {}
  BY <1>0 DEF ScanInv, ScanTypes, ScanStage
<1> HIDE DEF new
<1>4. /\ stats' \in Seq(Stat) /\ Len(stats') = L + 1 /\ DOMAIN stats' = 1..(L + 1)
      /\ stats'[L + 1] = new /\ \A i \in 1..L : stats'[i] = stats[i]
      /\ DOMAIN stats = 1..L
  BY <1>0, <1>2, <1>3 DEF new
<1>5. new.repository = reached + 1 /\ new.unique = 0 /\ new.total = 0
  BY DEF new
<1>6. \A i \in 1..L : Held(i)' = Held(i)
  BY <1>0, <1>3, <1>4 DEF Held
<1>7. Held(L + 1)' = {}
  BY <1>4, <1>5 DEF Held
<1>8. \A i \in 1..L : HeldBefore(i)' = HeldBefore(i)
  <2> SUFFICES ASSUME NEW i \in 1..L PROVE HeldBefore(i)' = HeldBefore(i)
    OBVIOUS
  <2>1. \A j \in 1..(i - 1) : Held(j)' = Held(j)
    BY <1>3, <1>6
  <2> QED
    BY <2>1 DEF HeldBefore
<1>9. Stats!SumOf({}) = 0
  <2>1. UNION {{d} \X (1..Size[d]) : d \in {}} = {}
    OBVIOUS
  <2> QED
    BY <2>1, SameCardinality, FS_EmptySet DEF Stats!SumOf
<1>10. \A T : Stats!SumOf(T)' = Stats!SumOf(T)
  BY DEF Stats!SumOf, Stats!Cardinality
<1>11. seen' = UNION {Held(i)' : i \in DOMAIN stats'}
  <2>1. {Held(i)' : i \in 1..(L + 1)} = {Held(i) : i \in 1..L} \cup {{}}
    <3>1. 1..(L + 1) = (1..L) \cup {L + 1}
      BY <1>3
    <3> HIDE DEF Held
    <3> QED
      BY <1>6, <1>7, <3>1
  <2>2. seen = UNION {Held(i) : i \in 1..L}
    BY <1>4 DEF ScanInv, ChargeInv
  <2> HIDE DEF Held
  <2> QED
    BY <1>4, <2>1, <2>2
<1>12. ASSUME NEW i \in 1..(L + 1)
       PROVE  /\ IsFiniteSet(Held(i)')
              /\ stats'[i].unique = Stats!SumOf(Held(i)' \ HeldBefore(i)')
              /\ stats'[i].unique <= stats'[i].total
  <2>1. CASE i \in 1..L
    BY <1>4, <1>6, <1>8, <2>1 DEF ScanInv, ChargeInv
  <2>2. CASE i = L + 1
    <3>1. Held(i)' \ HeldBefore(i)' = {}
      BY <1>7, <2>2
    <3>2. IsFiniteSet(Held(i)')
      BY <1>7, <2>2, FS_EmptySet
    <3>3. stats'[i].unique = 0 /\ stats'[i].total = 0
      BY <1>4, <1>5, <2>2
    <3>4. Stats!SumOf(Held(i)' \ HeldBefore(i)') = 0
      BY <1>9, <3>1, Zenon
    <3>5. stats'[i].unique = Stats!SumOf(Held(i)' \ HeldBefore(i)')
      BY <3>3, <3>4, Zenon
    <3>6. 0 <= 0
      OBVIOUS
    <3>7. stats'[i].unique <= stats'[i].total
      BY <3>3, <3>6, Zenon
    <3> QED
      BY <3>2, <3>5, <3>7, Zenon
  <2>3. i \in 1..L \/ i = L + 1
    BY <1>3
  <2> HIDE DEF Held, HeldBefore
  <2> QED
    BY <2>1, <2>2, <2>3
<1>13. ChargeInv'
  BY <1>4, <1>10, <1>11, <1>12 DEF ChargeInv
<1> QED
  BY <1>0, <1>3, <1>4, <1>5, <1>13

\* A manifest counted is charged with what no manifest counted before holds.
LEMMA CountedCharges ==
  ASSUME ScanInv, NEW m \in Manifests, Stats!Count(m)
  PROVE  /\ stats' \in Seq(Stat) /\ ChargeInv' /\ Len(stats') = Len(stats)
         /\ \A i \in DOMAIN stats : stats'[i].repository = stats[i].repository
         /\ \A i \in 1..(Len(stats) - 1) : stats'[i] = stats[i]
<1>0. PICK L : L = Len(stats)
  OBVIOUS
<1> DEFINE charged == BlobsIn(m) \ seen
           old     == stats[L]
           new     == [old EXCEPT !.count = @ + 1, !.total = @ + Stats!SumAll(Stats!Blobs(m)),
                                  !.unique = @ + Stats!SumOf(charged)]
<1>1. /\ stats \in Seq(Stat) /\ L \in Nat /\ L # 0 /\ DOMAIN stats = 1..L /\ L \in 1..L
      /\ old \in Stat /\ old.repository = reached
      /\ m \in todo /\ todo \subseteq present[reached] /\ present' = present
      /\ todo' = todo \ {m} /\ m \in present[reached]
  <2>1. Len(stats) # 0 /\ stats[Len(stats)].repository = reached /\ todo \subseteq present[reached]
    BY DEF ScanInv, ScanStage, Stats!Count
  <2>2. stats \in Seq(Stat) /\ Len(stats) \in Nat /\ DOMAIN stats = 1..Len(stats)
    BY DEF ScanInv, ScanTypes
  <2>3. stats[Len(stats)] \in Stat
    BY <2>1, <2>2
  <2> QED
    BY <1>0, <2>1, <2>2, <2>3 DEF Stats!Count, Stats!registry
<1>2. /\ Stats!SumAll(Stats!Blobs(m)) \in Nat
      /\ IsFiniteSet(charged) /\ Stats!SumOf(charged) \in Nat
      /\ Stats!SumOf(charged) <= Stats!SumAll(Stats!Blobs(m))
      /\ IsFiniteSet(BlobsIn(m))
  <2> DEFINE s == Stats!Blobs(m)
  <2>1. IsList(s) /\ (\A i \in DOMAIN s : Size[s[i]] \in Nat) /\ BlobsIn(m) = {s[i] : i \in DOMAIN s}
    BY BlobsAre
  <2>2. charged \subseteq {s[i] : i \in DOMAIN s} /\ BlobsIn(m) \subseteq {s[i] : i \in DOMAIN s}
    BY <2>1
  <2> HIDE DEF s, charged
  <2>3. IsFiniteSet(BlobsIn(m))
    BY <2>1, <2>2, SumsRepeat
  <2> QED
    BY <2>1, <2>2, <2>3, SumsRepeat DEF s
<1>3. stats' = [stats EXCEPT ![L] = new] /\ seen' = seen \cup BlobsIn(m)
  <2>1. {d \in Stats!Range(Stats!Blobs(m)) : Stats!Charge(d)} = charged
    BY BlobsAre DEF Stats!Charge
  <2>2. seen' = seen \cup BlobsIn(m)
    BY BlobsAre DEF Stats!Count
  <2> HIDE DEF charged
  <2> QED
    BY <1>0, <2>1, <2>2 DEF Stats!Count
<1>4. /\ new \in Stat /\ new.repository = reached
      /\ new.unique = old.unique + Stats!SumOf(charged)
      /\ new.total = old.total + Stats!SumAll(Stats!Blobs(m))
  <2> DEFINE x == Stats!SumOf(charged)
             y == Stats!SumAll(Stats!Blobs(m))
  <2>1. x \in Nat /\ y \in Nat /\ old \in Stat /\ old.repository = reached
    BY <1>1, <1>2
  <2>2. old \in [repository : 1..Repositories, count : Nat, unique : Nat, total : Nat, running : Nat]
    BY <2>1 DEF Stat
  <2>3. new = [old EXCEPT !.count = @ + 1, !.total = @ + y, !.unique = @ + x]
    OBVIOUS
  <2> HIDE DEF old, charged, x, y, new
  <2>4. /\ DOMAIN old = {"repository", "count", "unique", "total", "running"}
        /\ old.repository \in 1..Repositories
        /\ old.count \in Nat /\ old.unique \in Nat /\ old.total \in Nat /\ old.running \in Nat
    BY <2>2
  <2>5. new = [repository |-> old.repository, count |-> old.count + 1, unique |-> old.unique + x,
               total |-> old.total + y, running |-> old.running]
    BY <2>2, <2>3
  <2>6. new.repository = old.repository /\ new.unique = old.unique + x /\ new.total = old.total + y
    BY <2>5
  <2>7. old.count + 1 \in Nat /\ old.unique + x \in Nat /\ old.total + y \in Nat
    BY <2>1, <2>4
  <2>8. new \in Stat
    BY <2>4, <2>5, <2>7 DEF Stat
  <2> QED
    BY <2>1, <2>6, <2>8 DEF x, y
<1> HIDE DEF new, old, charged
<1>5. /\ stats' \in Seq(Stat) /\ Len(stats') = L /\ DOMAIN stats' = 1..L
      /\ stats'[L] = new /\ \A i \in 1..L : i # L => stats'[i] = stats[i]
  BY <1>0, <1>1, <1>3, <1>4
<1>6. \A i \in 1..L : i # L => Held(i)' = Held(i)
  BY <1>0, <1>1, <1>5 DEF Held
<1>7. Held(L)' = Held(L) \cup BlobsIn(m)
  <2>1. Held(L) = UNION {BlobsIn(n) : n \in present[reached] \ todo}
    BY <1>0, <1>1 DEF Held, old
  <2>2. Held(L)' = UNION {BlobsIn(n)' : n \in present[reached] \ (todo \ {m})}
    BY <1>0, <1>1, <1>4, <1>5 DEF Held
  <2>3. \A n : BlobsIn(n)' = BlobsIn(n)
    BY DEF BlobsIn, Range
  <2>4. present[reached] \ (todo \ {m}) = (present[reached] \ todo) \cup {m}
    BY <1>1
  <2> HIDE DEF BlobsIn
  <2> QED
    BY <2>1, <2>2, <2>3, <2>4
<1>8. \A i \in 1..L : HeldBefore(i)' = HeldBefore(i)
  <2> SUFFICES ASSUME NEW i \in 1..L PROVE HeldBefore(i)' = HeldBefore(i)
    OBVIOUS
  <2>1. \A j \in 1..(i - 1) : Held(j)' = Held(j)
    BY <1>1, <1>6
  <2> QED
    BY <2>1 DEF HeldBefore
<1>9. seen = Held(L) \cup HeldBefore(L)
  <2>1. seen = UNION {Held(i) : i \in 1..L}
    BY <1>1 DEF ScanInv, ChargeInv
  <2>2. 1..L = (1..(L - 1)) \cup {L}
    BY <1>1
  <2> HIDE DEF Held
  <2> QED
    BY <2>1, <2>2 DEF HeldBefore
<1>10. seen' = UNION {Held(i)' : i \in DOMAIN stats'}
  <2>1. 1..L = (1..(L - 1)) \cup {L}
    BY <1>1
  <2>2. \A i \in 1..(L - 1) : Held(i)' = Held(i)
    BY <1>1, <1>6
  <2>3. UNION {Held(i)' : i \in 1..L} = Held(L)' \cup UNION {Held(i) : i \in 1..(L - 1)}
    <3> HIDE DEF Held
    <3> QED
      BY <2>1, <2>2
  <2> HIDE DEF Held
  <2> QED
    BY <1>3, <1>5, <1>7, <1>9, <2>3 DEF HeldBefore
<1>11. /\ IsFiniteSet(Held(L)')
       /\ new.unique = Stats!SumOf(Held(L)' \ HeldBefore(L)')
       /\ new.unique <= new.total
  <2> DEFINE before == Held(L) \ HeldBefore(L)
  <2>1. /\ IsFiniteSet(Held(L)) /\ old.unique = Stats!SumOf(before) /\ old.unique <= old.total
    BY <1>1 DEF ScanInv, ChargeInv, old
  <2>2. IsFiniteSet(before)
    BY <2>1, FS_Subset
  <2>3. Held(L)' \ HeldBefore(L)' = before \cup charged /\ before \cap charged = {}
    <3>1. HeldBefore(L)' = HeldBefore(L)
      BY <1>1, <1>8
    <3> HIDE DEF Held, HeldBefore
    <3> QED
      BY <1>7, <1>9, <3>1 DEF charged
  <2>4. \A d \in before \cup charged : Size[d] \in Nat
    <3>1. \A d \in Held(L) : \E n \in Manifests : d \in BlobsIn(n)
      <4>1. Held(L) = UNION {BlobsIn(n) : n \in present[reached] \ todo}
        BY <1>0, <1>1 DEF Held, old
      <4>2. present[reached] \subseteq Manifests
        BY <1>1 DEF ScanInv, ScanTypes, Stat
      <4> HIDE DEF BlobsIn
      <4> QED
        BY <4>1, <4>2
    <3> HIDE DEF Held
    <3> QED
      BY <3>1, BlobsAre DEF charged
  <2>5. IsFiniteSet(Held(L)')
    <3> HIDE DEF Held
    <3> QED
      BY <1>2, <1>7, <2>1, FS_Union
  <2> HIDE DEF before
  <2>6. Stats!SumOf(before \cup charged) = Stats!SumOf(before) + Stats!SumOf(charged)
        /\ Stats!SumOf(before) \in Nat
    BY <1>2, <2>2, <2>3, <2>4, SumsAdd
  <2>7. old.unique \in Nat /\ old.total \in Nat
    BY <1>1 DEF Stat
  <2>8. new.unique = Stats!SumOf(before \cup charged) /\ new.unique <= new.total
    BY <1>2, <1>4, <2>1, <2>6, <2>7
  <2> HIDE DEF Held, HeldBefore
  <2> QED
    BY <2>3, <2>5, <2>8
<1>12. \A T : Stats!SumOf(T)' = Stats!SumOf(T)
  BY DEF Stats!SumOf, Stats!Cardinality
<1>13. ASSUME NEW i \in 1..L
       PROVE  /\ IsFiniteSet(Held(i)')
              /\ stats'[i].unique = Stats!SumOf(Held(i)' \ HeldBefore(i)')
              /\ stats'[i].unique <= stats'[i].total
  <2>1. CASE i = L
    BY <1>5, <1>11, <2>1
  <2>2. CASE i # L
    BY <1>1, <1>5, <1>6, <1>8, <2>2 DEF ScanInv, ChargeInv
  <2> QED
    BY <2>1, <2>2
<1>14. ChargeInv'
  BY <1>5, <1>10, <1>12, <1>13 DEF ChargeInv
<1>15. /\ \A i \in DOMAIN stats : stats'[i].repository = stats[i].repository
       /\ \A i \in 1..(L - 1) : stats'[i] = stats[i]
  BY <1>1, <1>4, <1>5 DEF old
<1> QED
  BY <1>0, <1>5, <1>14, <1>15

\* What the registry holds, and the numbers of a repository, have their types.
LEMMA RunningIsANumber ==
  ASSUME ScanInv, NEW r \in 1..Repositories
  PROVE  Stats!Cardinality(Stats!RunningIn(r)) \in Nat
<1>1. Stats!RunningIn(r) \subseteq Manifests
  BY DEF ScanInv, ScanTypes, Stats!RunningIn
<1>2. IsFiniteSet(Stats!RunningIn(r))
  BY <1>1, RegistryIsFinite, FS_Subset
<1> QED
  BY <1>2, SameCardinality, FS_CardinalityType

LEMMA ScanStep == ScanInv /\ [Stats!Next]_(Stats!svars) => ScanInv'
<1> SUFFICES ASSUME ScanInv, [Stats!Next]_(Stats!svars) PROVE ScanInv'
  OBVIOUS
<1>1. ScanTypes /\ ScanStage /\ Repositories \in Nat
  BY RegistryIsFinite DEF ScanInv
<1>2. Stats!Cardinality(1..Repositories) = Repositories
  BY <1>1, SameCardinality, FS_Interval
<1>3. stats \in Seq(Stat) /\ Len(stats) \in Nat /\ DOMAIN stats = 1..Len(stats)
  BY <1>1 DEF ScanTypes
<1>4. ASSUME present' = present, todo' = todo, seen' = seen, stats' = stats PROVE ChargeInv'
  BY <1>4, ChargesStay
<1>5. CASE Stats!Begin
  <2>1. ChargeInv'
    BY <1>4, <1>5 DEF Stats!Begin, Stats!registry
  <2>2. ScanTypes' /\ ScanStage'
    BY <1>1, <1>5 DEF Stats!Begin, Stats!registry, ScanTypes, ScanStage
  <2> QED
    BY <2>1, <2>2 DEF ScanInv
<1>6. CASE Stats!Inspect
  <2>1. /\ step = "next" /\ reached + 1 \in 1..Repositories /\ todo = {}
        /\ list' = list /\ present' = present /\ gaps' = gaps /\ seen' = seen
    BY <1>1, <1>2, <1>6 DEF Stats!Inspect, Stats!registry, ScanTypes, ScanStage
  <2>2. CASE /\ reached' = reached + 1 /\ step' = "count" /\ todo' = present[reached + 1]
             /\ stats' = Append(stats, [repository |-> reached + 1, count |-> Stats!Cardinality(gaps[reached + 1]),
                                        unique |-> 0, total |-> 0, running |-> 0])
    <3>1. /\ stats' \in Seq(Stat) /\ Len(stats') # 0 /\ stats'[Len(stats')].repository = reached + 1
          /\ ChargeInv'
      BY <2>1, <2>2, BegunStatistics
    <3>2. present[reached + 1] \subseteq Manifests
      BY <1>1, <2>1 DEF ScanTypes
    <3> QED
      BY <1>1, <2>1, <2>2, <3>1, <3>2 DEF ScanInv, ScanTypes, ScanStage
  <2>3. CASE reached' \in {reached, reached + 1} /\ step' \in {step, "failed"} /\ todo' = todo /\ stats' = stats
    <3>1. ChargeInv'
      BY <1>4, <2>1, <2>3
    <3>2. ScanTypes' /\ ScanStage'
      BY <1>1, <2>1, <2>3 DEF ScanTypes, ScanStage
    <3> QED
      BY <3>1, <3>2 DEF ScanInv
  <2> QED
    BY <1>6, <2>2, <2>3 DEF Stats!Inspect, Stats!Partial
<1>7. ASSUME NEW m \in Manifests, Stats!Count(m) PROVE ScanInv'
  <2>1. stats' \in Seq(Stat) /\ ChargeInv' /\ Len(stats') = Len(stats)
        /\ \A i \in DOMAIN stats : stats'[i].repository = stats[i].repository
    BY <1>7, CountedCharges
  <2>2. step = "count" /\ Len(stats) \in DOMAIN stats /\ stats[Len(stats)].repository = reached
    BY <1>1, <1>3, <1>7 DEF Stats!Count, ScanStage
  <2>3. ScanTypes' /\ ScanStage'
    BY <1>1, <1>7, <2>1, <2>2 DEF Stats!Count, Stats!registry, ScanTypes, ScanStage
  <2> QED
    BY <2>1, <2>3 DEF ScanInv
<1>8. CASE Stats!Counted
  <2> DEFINE L == Len(stats)
             new == [stats[L] EXCEPT !.running = Stats!Cardinality(Stats!RunningIn(reached))]
  <2>1. step = "count" /\ todo = {} /\ L \in DOMAIN stats /\ stats[L].repository = reached
    BY <1>1, <1>3, <1>8 DEF Stats!Counted, ScanStage
  <2>2. stats[L] \in Stat /\ reached \in 1..Repositories
    <3>1. stats[L] \in Stat
      BY <1>3, <2>1
    <3> QED
      BY <2>1, <3>1 DEF Stat
  <2>3. Stats!Cardinality(Stats!RunningIn(reached)) \in Nat
    BY <2>2, RunningIsANumber
  <2>4. stats' = [stats EXCEPT ![L] = new] /\ step' \in {"next", "failed"}
        /\ list' = list /\ present' = present /\ gaps' = gaps
        /\ reached' = reached /\ todo' = todo /\ seen' = seen
    BY <1>8 DEF Stats!Counted, Stats!registry
  <2>5. /\ new \in Stat /\ new.repository = stats[L].repository
        /\ new.unique = stats[L].unique /\ new.total = stats[L].total
    BY <2>2, <2>3 DEF Stat
  <2> HIDE DEF new
  <2>6. stats' \in Seq(Stat) /\ Len(stats') = Len(stats) /\ DOMAIN stats' = DOMAIN stats
        /\ stats'[L] = new /\ \A i \in DOMAIN stats : i # L => stats'[i] = stats[i]
    BY <1>3, <2>1, <2>4, <2>5
  <2>7. \A i \in DOMAIN stats : /\ stats'[i].repository = stats[i].repository
                                /\ stats'[i].unique = stats[i].unique
                                /\ stats'[i].total = stats[i].total
    BY <2>5, <2>6
  <2>8. ChargeInv'
    BY <2>4, <2>6, <2>7, ChargesStay
  <2>9. ScanTypes' /\ ScanStage'
    BY <1>1, <2>1, <2>4, <2>6 DEF ScanTypes, ScanStage
  <2> QED
    BY <2>8, <2>9 DEF ScanInv
<1>9. CASE Stats!Finish
  <2>1. ChargeInv'
    BY <1>4, <1>9 DEF Stats!Finish, Stats!registry
  <2>2. ScanTypes' /\ ScanStage'
    BY <1>1, <1>9 DEF Stats!Finish, Stats!Partial, Stats!registry, ScanTypes, ScanStage
  <2> QED
    BY <2>1, <2>2 DEF ScanInv
<1>10. CASE UNCHANGED Stats!svars
  <2>1. ChargeInv'
    BY <1>4, <1>10 DEF Stats!svars, Stats!registry
  <2>2. ScanTypes' /\ ScanStage'
    BY <1>1, <1>10 DEF Stats!svars, Stats!registry, ScanTypes, ScanStage
  <2> QED
    BY <2>1, <2>2 DEF ScanInv
<1> QED
  BY <1>5, <1>6, <1>7, <1>8, <1>9, <1>10 DEF Stats!Next

\* The charges of a scan are its invariant.
THEOREM ScanInvariance == Stats!Spec => []ScanInv
<1> QED
  BY ScanInit, ScanStep, PTL DEF Stats!Spec

\* A repository that was scanned is charged exactly its blobs that no scanned
\* repository before it holds, in every order of the manifests and whichever
\* repositories could not be read (CollectRegistryStats, calculateStatsSeen).
THEOREM BlobsAreChargedOnce == Stats!Spec => []ChargedToTheFirst
<1>1. ScanInv => ChargedToTheFirst
  <2> SUFFICES ASSUME ScanInv, NEW i \in DOMAIN stats, Stats!Done(i)
               PROVE  /\ stats[i].unique = Stats!SumOf(Stats!BlobsOf(i) \ UNION {Stats!BlobsOf(j) : j \in 1..(i - 1)})
                      /\ stats[i].unique <= stats[i].total
    BY DEF ChargedToTheFirst, Stats!ChargedToTheFirst
  <2>1. DOMAIN stats = 1..Len(stats) /\ Len(stats) \in Nat /\ stats \in Seq(Stat)
    BY DEF ScanInv, ScanTypes
  <2>2. ASSUME NEW j \in DOMAIN stats, j < Len(stats) \/ step # "count" PROVE Held(j) = Stats!BlobsOf(j)
    <3>1. present[stats[j].repository] \ (IF j = Len(stats) THEN todo ELSE {}) = present[stats[j].repository]
      BY <2>1, <2>2 DEF ScanInv, ScanStage
    <3>2. present[stats[j].repository] \subseteq Manifests
      <4>1. stats[j] \in Stat
        BY <2>1, <2>2
      <4> QED
        BY <4>1 DEF Stat, ScanInv, ScanTypes
    <3>3. \A m \in present[stats[j].repository] : Stats!Range(Stats!Blobs(m)) = BlobsIn(m)
      BY <3>2, BlobsAre
    <3>4. Held(j) = UNION {BlobsIn(m) : m \in present[stats[j].repository]}
      BY <3>1 DEF Held
    <3> HIDE DEF BlobsIn
    <3> QED
      BY <3>3, <3>4 DEF Stats!BlobsOf
  <2>3. Held(i) = Stats!BlobsOf(i) /\ \A j \in 1..(i - 1) : Held(j) = Stats!BlobsOf(j)
    BY <2>1, <2>2 DEF Stats!Done
  <2>4. HeldBefore(i) = UNION {Stats!BlobsOf(j) : j \in 1..(i - 1)}
    BY <2>3 DEF HeldBefore
  <2> QED
    BY <2>3, <2>4 DEF ScanInv, ChargeInv
<1> QED
  BY <1>1, ScanInvariance, PTL

-----------------------------------------------------------------------------
(* The rules generated from an image list *)

\* What the first lines of a list keep is what its definition says: there is a
\* function that follows it, built one line at a time.
LEMMA KeepsFollow ==
  ASSUME NEW lines, IsList(lines)
  PROVE  /\ Stats!KeepsOf(lines)[0] = <<>>
         /\ \A n \in 1..Len(lines) :
              Stats!KeepsOf(lines)[n] = Stats!TakeLine(Stats!KeepsOf(lines)[n - 1], lines[n])
<1> DEFINE N == Len(lines)
           Follows(f, n) == f = [i \in 0..n |-> IF i = 0 THEN <<>> ELSE Stats!TakeLine(f[i - 1], lines[i])]
<1>1. N \in Nat
  BY DEF IsList
<1> HIDE DEF Follows, N
<1>2. \E f : Follows(f, N)
  <2> DEFINE Lacking == {n \in 0..N : \A f : ~Follows(f, n)}
  <2> SUFFICES ASSUME Lacking # {} PROVE FALSE
    BY <1>1
  <2>1. PICK n \in Lacking : \A k \in Lacking : n <= k
    <3>1. Lacking \in SUBSET Nat
      BY <1>1
    <3> HIDE DEF Lacking
    <3> QED
      BY <3>1, Leasts
  <2>2. CASE n = 0
    <3>1. Follows([i \in 0..0 |-> <<>>], 0)
      BY DEF Follows
    <3> QED
      BY <2>2, <3>1
  <2>3. CASE n # 0
    <3>1. n - 1 \in 0..N /\ n - 1 \notin Lacking
      BY <1>1, <2>1, <2>3
    <3>2. PICK f : Follows(f, n - 1)
      BY <3>1
    <3> DEFINE g == [i \in 0..n |-> IF i = n THEN Stats!TakeLine(f[n - 1], lines[n]) ELSE f[i]]
    <3>3. ASSUME NEW i \in 0..n
          PROVE  g[i] = IF i = 0 THEN <<>> ELSE Stats!TakeLine(g[i - 1], lines[i])
      <4>1. CASE i = n
        BY <1>1, <2>3, <4>1
      <4>2. CASE i # n
        <5>1. i \in 0..(n - 1) /\ (i # 0 => i - 1 \in 0..n /\ i - 1 # n)
          BY <1>1, <4>2
        <5>2. f[i] = IF i = 0 THEN <<>> ELSE Stats!TakeLine(f[i - 1], lines[i])
          BY <3>2, <5>1 DEF Follows
        <5> QED
          BY <4>2, <5>1, <5>2
      <4> QED
        BY <4>1, <4>2
    <3>4. Follows(g, n)
      BY <3>3 DEF Follows
    <3> QED
      BY <3>4
  <2> QED
    BY <2>2, <2>3
<1>3. Follows(Stats!KeepsOf(lines), N)
  BY <1>2 DEF Stats!KeepsOf, Follows, N
<1> QED
  BY <1>1, <1>3 DEF Follows, N

\* The members of a list, and the lines that name images of a repository.
In(s) == {s[i] : i \in DOMAIN s}

LinesOf(lines, n, r) == {k \in 1..n : lines[k].kind = "ours" /\ lines[k].repo = r}

AllTags(lines)    == UNION {Stats!TagsOf(lines[k]) : k \in DOMAIN lines}
AllDigests(lines) == UNION {lines[k].digest : k \in DOMAIN lines}

KeepType(lines) ==
  [repo : {lines[k].repo : k \in DOMAIN lines}, tags : Seq(AllTags(lines)), digests : Seq(AllDigests(lines))]

ReadLines(lines) == IsList(lines) /\ \A k \in DOMAIN lines : Single(lines[k].tag) /\ Single(lines[k].digest)

\* A repository has one place among what is kept, with all its lines name.
KeepsInv(lines, n, keeps) ==
  /\ keeps \in Seq(KeepType(lines))
  /\ \A i, j \in DOMAIN keeps : keeps[i].repo = keeps[j].repo => i = j
  /\ \A i \in DOMAIN keeps :
       /\ In(keeps[i].tags) = UNION {Stats!TagsOf(lines[k]) : k \in LinesOf(lines, n, keeps[i].repo)}
       /\ In(keeps[i].digests) = UNION {lines[k].digest : k \in LinesOf(lines, n, keeps[i].repo)}
  /\ \A k \in 1..n : lines[k].kind = "ours" => \E i \in DOMAIN keeps : keeps[i].repo = lines[k].repo

LEMMA AppendNewAdds ==
  ASSUME NEW T, NEW s \in Seq(T), NEW S \in SUBSET T, Single(S)
  PROVE  Stats!AppendNew(s, S) \in Seq(T) /\ In(Stats!AppendNew(s, S)) = In(s) \cup S
<1>1. CASE S \subseteq Stats!Range(s)
  BY <1>1 DEF Stats!AppendNew, Stats!Range, In
<1>2. CASE ~(S \subseteq Stats!Range(s))
  <2>1. PICK e \in S : S = {e}
    BY <1>2 DEF Single
  <2>2. Stats!AppendNew(s, S) = Append(s, e)
    BY <1>2, <2>1 DEF Stats!AppendNew
  <2> DEFINE t == Append(s, e)
             N == Len(s)
  <2>3. N \in Nat /\ DOMAIN s = 1..N /\ t \in Seq(T) /\ DOMAIN t = 1..(N + 1)
        /\ t[N + 1] = e /\ \A i \in 1..N : t[i] = s[i]
    BY <2>1
  <2>4. 1..(N + 1) = 1..N \cup {N + 1}
    BY <2>3
  <2> HIDE DEF t, N
  <2>5. {t[i] : i \in DOMAIN t} = {s[i] : i \in DOMAIN s} \cup {e}
    BY <2>3, <2>4
  <2> QED
    BY <2>1, <2>2, <2>3, <2>5 DEF t, In
<1> QED
  BY <1>1, <1>2

\* A line of this registry adds to its repository's place, or makes one.
LEMMA LineTaken ==
  ASSUME NEW lines, ReadLines(lines), NEW n \in 1..Len(lines), NEW keeps, KeepsInv(lines, n - 1, keeps)
  PROVE  KeepsInv(lines, n, Stats!TakeLine(keeps, lines[n]))
<1> DEFINE line == lines[n]
           T == AllTags(lines)
           D == AllDigests(lines)
           r == line.repo
           Add(k) == [k EXCEPT !.tags = Stats!AppendNew(@, Stats!TagsOf(line)),
                               !.digests = Stats!AppendNew(@, line.digest)]
           L == Len(keeps)
           new == Stats!TakeLine(keeps, line)
<1>1. /\ n \in DOMAIN lines /\ n \in Nat /\ 1..n = (1..(n - 1)) \cup {n}
      /\ keeps \in Seq(KeepType(lines)) /\ L \in Nat /\ DOMAIN keeps = 1..L
  BY DEF ReadLines, IsList, KeepsInv
<1>2. /\ Stats!TagsOf(line) \in SUBSET T /\ line.digest \in SUBSET D
      /\ Single(Stats!TagsOf(line)) /\ Single(line.digest)
  BY <1>1 DEF AllTags, AllDigests, ReadLines, Stats!TagsOf, Single
<1>3. \A q : LinesOf(lines, n, q) = LinesOf(lines, n - 1, q) \cup (IF line.kind = "ours" /\ r = q THEN {n} ELSE {})
  BY <1>1 DEF LinesOf
<1>4. \A k \in KeepType(lines) :
        /\ Add(k) \in KeepType(lines) /\ Add(k).repo = k.repo
        /\ In(Add(k).tags) = In(k.tags) \cup Stats!TagsOf(line)
        /\ In(Add(k).digests) = In(k.digests) \cup line.digest
  <2> SUFFICES ASSUME NEW k \in KeepType(lines)
               PROVE  /\ Add(k) \in KeepType(lines) /\ Add(k).repo = k.repo
                      /\ In(Add(k).tags) = In(k.tags) \cup Stats!TagsOf(line)
                      /\ In(Add(k).digests) = In(k.digests) \cup line.digest
    OBVIOUS
  <2>1. k.tags \in Seq(T) /\ k.digests \in Seq(D)
    BY DEF KeepType
  <2> DEFINE ts == Stats!AppendNew(k.tags, Stats!TagsOf(line))
             ds == Stats!AppendNew(k.digests, line.digest)
  <2>2. ts \in Seq(T) /\ In(ts) = In(k.tags) \cup Stats!TagsOf(line)
    <3> HIDE DEF T, D, line
    <3> QED
      BY <1>2, <2>1, AppendNewAdds
  <2>3. ds \in Seq(D) /\ In(ds) = In(k.digests) \cup line.digest
    <3> HIDE DEF T, D, line
    <3> QED
      BY <1>2, <2>1, AppendNewAdds
  <2>4. Add(k) = [k EXCEPT !.tags = ts, !.digests = ds]
    OBVIOUS
  <2> HIDE DEF ts, ds, Add, T, D, line
  <2>5. Add(k) \in KeepType(lines) /\ Add(k).repo = k.repo /\ Add(k).tags = ts /\ Add(k).digests = ds
    BY <2>2, <2>3, <2>4 DEF KeepType, T, D
  <2> QED
    BY <2>2, <2>3, <2>5
<1>5. CASE line.kind # "ours"
  <2>1. new = keeps
    BY <1>5 DEF Stats!TakeLine
  <2>2. \A q : LinesOf(lines, n, q) = LinesOf(lines, n - 1, q)
    BY <1>3, <1>5
  <2> HIDE DEF new
  <2> QED
    BY <1>1, <1>5, <2>1, <2>2 DEF KeepsInv, line, new
<1>6. CASE line.kind = "ours" /\ \E i \in DOMAIN keeps : keeps[i].repo = r
  <2> HIDE DEF r
  <2>0. PICK p \in DOMAIN keeps : keeps[p].repo = r
    BY <1>6
  <2>1. p \in 1..L /\ keeps[p].repo = r /\ \A i \in 1..L : keeps[i].repo = r => i = p
    <3>1. \A i, j \in DOMAIN keeps : keeps[i].repo = keeps[j].repo => i = j
      BY DEF KeepsInv
    <3> QED
      BY <1>1, <2>0, <3>1
  <2> USE DEF r
  <2>2. new = [i \in DOMAIN keeps |-> IF i = p THEN Add(keeps[i]) ELSE keeps[i]]
    BY <1>1, <1>6, <2>1 DEF Stats!TakeLine
  <2>3. \A i \in 1..L : keeps[i] \in KeepType(lines)
    BY <1>1
  <2> HIDE DEF new, Add, line, r
  <2>4. /\ new \in Seq(KeepType(lines)) /\ DOMAIN new = 1..L /\ \A i \in 1..L : new[i].repo = keeps[i].repo
        /\ new[p] = Add(keeps[p]) /\ \A i \in 1..L : i # p => new[i] = keeps[i]
    BY <1>1, <1>4, <2>1, <2>2, <2>3
  <2>5. \A i, j \in DOMAIN new : new[i].repo = new[j].repo => i = j
    BY <1>1, <2>4 DEF KeepsInv
  <2>6. ASSUME NEW i \in DOMAIN new
        PROVE  /\ In(new[i].tags) = UNION {Stats!TagsOf(lines[k]) : k \in LinesOf(lines, n, new[i].repo)}
               /\ In(new[i].digests) = UNION {lines[k].digest : k \in LinesOf(lines, n, new[i].repo)}
    <3> DEFINE old == LinesOf(lines, n - 1, keeps[i].repo)
    <3>1. /\ In(keeps[i].tags) = UNION {Stats!TagsOf(lines[k]) : k \in old}
          /\ In(keeps[i].digests) = UNION {lines[k].digest : k \in old}
      BY <1>1, <2>4 DEF KeepsInv
    <3> HIDE DEF old
    <3>2. CASE i = p
      <4>1. LinesOf(lines, n, new[i].repo) = old \cup {n}
        BY <1>3, <1>6, <2>1, <2>4, <3>2 DEF old
      <4>2. /\ In(new[i].tags) = In(keeps[i].tags) \cup Stats!TagsOf(line)
            /\ In(new[i].digests) = In(keeps[i].digests) \cup line.digest
        BY <1>4, <2>3, <2>4, <3>2
      <4> HIDE DEF In
      <4> QED
        BY <3>1, <4>1, <4>2 DEF line
    <3>3. CASE i # p
      <4>1. keeps[i].repo # r
        BY <2>1, <2>4, <3>3
      <4>2. LinesOf(lines, n, new[i].repo) = old
        BY <1>3, <2>4, <4>1 DEF old
      <4> QED
        BY <2>4, <3>1, <3>3, <4>2
    <3> QED
      BY <3>2, <3>3
  <2>7. \A k \in 1..n : lines[k].kind = "ours" => \E i \in DOMAIN new : new[i].repo = lines[k].repo
    <3>1. \A i \in DOMAIN keeps : i \in DOMAIN new /\ new[i].repo = keeps[i].repo
      BY <1>1, <2>4
    <3>2. \A k \in 1..(n - 1) : lines[k].kind = "ours" => \E i \in DOMAIN keeps : keeps[i].repo = lines[k].repo
      BY DEF KeepsInv
    <3>3. p \in DOMAIN keeps /\ keeps[p].repo = lines[n].repo
      BY <1>1, <2>1 DEF line, r
    <3> QED
      BY <1>1, <3>1, <3>2, <3>3
  <2> QED
    BY <2>4, <2>5, <2>6, <2>7 DEF KeepsInv, new, line
<1>7. CASE line.kind = "ours" /\ ~\E i \in DOMAIN keeps : keeps[i].repo = r
  <2> DEFINE nothing == [repo |-> r, tags |-> <<>>, digests |-> <<>>]
             last == Add(nothing)
  <2>1. new = Append(keeps, last)
    BY <1>7 DEF Stats!TakeLine
  <2>2. nothing \in KeepType(lines)
    BY <1>1 DEF KeepType
  <2>3. In(nothing.tags) = {} /\ In(nothing.digests) = {} /\ nothing.repo = r
    BY DEF In
  <2> HIDE DEF nothing, Add
  <2>4. /\ last \in KeepType(lines) /\ last.repo = r
        /\ In(last.tags) = Stats!TagsOf(line) /\ In(last.digests) = line.digest
    BY <1>4, <2>2, <2>3
  <2> HIDE DEF new, last, line, r
  <2>5. /\ new \in Seq(KeepType(lines)) /\ DOMAIN new = 1..(L + 1) /\ new[L + 1] = last
        /\ \A i \in 1..L : new[i] = keeps[i]
    BY <1>1, <2>1, <2>4
  <2>6. \A i \in DOMAIN new : i \in 1..L \/ i = L + 1
    BY <1>1, <2>5
  <2>7. \A i, j \in DOMAIN new : new[i].repo = new[j].repo => i = j
    BY <1>1, <1>7, <2>4, <2>5, <2>6 DEF KeepsInv
  <2>8. ASSUME NEW i \in DOMAIN new
        PROVE  /\ In(new[i].tags) = UNION {Stats!TagsOf(lines[k]) : k \in LinesOf(lines, n, new[i].repo)}
               /\ In(new[i].digests) = UNION {lines[k].digest : k \in LinesOf(lines, n, new[i].repo)}
    <3>1. CASE i = L + 1
      <4>1. LinesOf(lines, n - 1, r) = {}
        BY <1>1, <1>7 DEF KeepsInv, LinesOf
      <4>2. LinesOf(lines, n, new[i].repo) = {n}
        BY <1>3, <1>7, <2>4, <2>5, <3>1, <4>1
      <4>3. In(new[i].tags) = Stats!TagsOf(lines[n]) /\ In(new[i].digests) = lines[n].digest
        BY <2>4, <2>5, <3>1 DEF line
      <4> HIDE DEF In
      <4> QED
        BY <4>2, <4>3
    <3>2. CASE i \in 1..L
      <4>1. new[i] = keeps[i] /\ keeps[i].repo # r /\ i \in DOMAIN keeps
        BY <1>1, <1>7, <2>5, <3>2
      <4>2. LinesOf(lines, n, new[i].repo) = LinesOf(lines, n - 1, keeps[i].repo)
        BY <1>3, <4>1
      <4> QED
        BY <4>1, <4>2 DEF KeepsInv
    <3> QED
      BY <2>6, <3>1, <3>2
  <2>9. \A k \in 1..n : lines[k].kind = "ours" => \E i \in DOMAIN new : new[i].repo = lines[k].repo
    <3>1. L + 1 \in DOMAIN new /\ new[L + 1].repo = lines[n].repo
      BY <1>1, <2>4, <2>5 DEF r, line
    <3>2. \A i \in DOMAIN keeps : i \in DOMAIN new /\ new[i].repo = keeps[i].repo
      BY <1>1, <2>5
    <3> QED
      BY <1>1, <3>1, <3>2 DEF KeepsInv
  <2> QED
    BY <2>5, <2>7, <2>8, <2>9 DEF KeepsInv, new, line
<1> QED
  BY <1>5, <1>6, <1>7

\* What a list keeps of each repository is what all its lines name.
LEMMA ListKeeps ==
  ASSUME NEW lines, ReadLines(lines)
  PROVE  KeepsInv(lines, Len(lines), Stats!KeepsOf(lines)[Len(lines)])
<1> DEFINE N == Len(lines)
           K(n) == Stats!KeepsOf(lines)[n]
           Wrong == {n \in 0..N : ~KeepsInv(lines, n, K(n))}
<1>1. N \in Nat /\ IsList(lines)
  BY DEF ReadLines, IsList
<1>2. K(0) = <<>> /\ \A n \in 1..N : K(n) = Stats!TakeLine(K(n - 1), lines[n])
  BY <1>1, KeepsFollow
<1>3. KeepsInv(lines, 0, <<>>)
  BY DEF KeepsInv
<1> HIDE DEF K
<1>4. ASSUME Wrong # {} PROVE FALSE
  <2>1. PICK n \in Wrong : \A k \in Wrong : n <= k
    <3>1. Wrong \in SUBSET Nat
      BY <1>1
    <3> HIDE DEF Wrong
    <3> QED
      BY <1>4, <3>1, Leasts
  <2>2. n # 0
    BY <1>2, <1>3, <2>1
  <2>3. n \in 1..N /\ n - 1 \in 0..N /\ n - 1 \notin Wrong
    BY <1>1, <2>1, <2>2
  <2>4. KeepsInv(lines, n - 1, K(n - 1))
    BY <2>3
  <2>5. KeepsInv(lines, n, Stats!TakeLine(K(n - 1), lines[n]))
    BY <2>3, <2>4, LineTaken
  <2> QED
    BY <1>2, <2>1, <2>3, <2>5
<1>5. N \in 0..N
  BY <1>1
<1> QED
  BY <1>4, <1>5 DEF K

\* What the criteria of generated rules say.
LEMMA GeneratedEntries ==
  /\ \A n : Stats!MatchString(Stats!Nil, n)
  /\ \A d, n : Stats!MatchString(Stats!Literal(d), n) <=> n = d
  /\ \A d : LET e == Stats!Compiled(Stats!KeepDigest(d))
            IN e.tag = Stats!Nil /\ e.digest = Stats!Literal(d) /\ e.keep = TRUE
  /\ \A t : LET e == Stats!Compiled(Stats!KeepTagged(t))
            IN e.tag = Stats!Literal(t) /\ e.digest = Stats!Nil /\ e.keep = TRUE
  /\ Stats!Compiled(Stats!DeleteTagged).keep = FALSE
  /\ Stats!Compiled(Stats!DeleteRest).keep = FALSE
<1>1. \A n : Stats!MatchString(Stats!Nil, n)
  BY DEF Stats!MatchString, Stats!Nil
<1>2. \A d, n : Stats!MatchString(Stats!Literal(d), n) <=> n = d
  BY DEF Stats!MatchString, Stats!Literal
<1>3. \A b : {b} # {} /\ (CHOOSE x \in {b} : TRUE) = b
  OBVIOUS
<1>4. \A d : LET e == Stats!Compiled(Stats!KeepDigest(d))
            IN e.tag = Stats!Nil /\ e.digest = Stats!Literal(d) /\ e.keep = TRUE
  BY <1>3 DEF Stats!Compiled, Stats!KeepDigest, Stats!Unconstraining
<1>5. \A t : LET e == Stats!Compiled(Stats!KeepTagged(t))
            IN e.tag = Stats!Literal(t) /\ e.digest = Stats!Nil /\ e.keep = TRUE
  BY <1>3 DEF Stats!Compiled, Stats!KeepTagged, Stats!Unconstraining
<1>6. Stats!Compiled(Stats!DeleteTagged).keep = FALSE /\ Stats!Compiled(Stats!DeleteRest).keep = FALSE
  BY <1>3 DEF Stats!Compiled, Stats!DeleteTagged, Stats!DeleteRest, Stats!Unconstraining
<1> QED
  BY <1>1, <1>2, <1>4, <1>5, <1>6

\* The entries of joined lists, and of a list with one more.
LEMMA Joined ==
  ASSUME NEW E, NEW s \in Seq(E), NEW t \in Seq(E)
  PROVE  /\ s \o t \in Seq(E) /\ Len(s \o t) = Len(s) + Len(t)
         /\ \A j \in 1..Len(s) : (s \o t)[j] = s[j]
         /\ \A j \in 1..Len(t) : (s \o t)[Len(s) + j] = t[j]
OBVIOUS

LEMMA Ended ==
  ASSUME NEW E, NEW s \in Seq(E), NEW e \in E
  PROVE  /\ DOMAIN (s \o <<e>>) = 1..(Len(s) + 1) /\ (s \o <<e>>)[Len(s) + 1] = e
         /\ \A j \in 1..Len(s) : (s \o <<e>>)[j] = s[j]
<1>1. <<e>> \in Seq(E) /\ Len(<<e>>) = 1 /\ <<e>>[1] = e /\ Len(s) \in Nat
  OBVIOUS
<1>2. /\ s \o <<e>> \in Seq(E) /\ Len(s \o <<e>>) = Len(s) + 1
  BY <1>1, Joined
<1>3. \A j \in 1..Len(s) : (s \o <<e>>)[j] = s[j]
  BY <1>1, Joined
<1>4. (s \o <<e>>)[Len(s) + 1] = e
  BY <1>1, Joined
<1> QED
  BY <1>2, <1>3, <1>4

\* Where all rules but the last keep, what a rule before the last matches is
\* kept.
LEMMA LastDeletes ==
  ASSUME NEW entries, IsList(entries), Len(entries) # 0,
         \A j \in DOMAIN entries : entries[j].keep = (j # Len(entries)),
         NEW found \in SUBSET (DOMAIN entries)
  PROVE  (found # {} /\ entries[Stats!Least(found, 0)].keep) <=> \E j \in found : j # Len(entries)
<1> DEFINE N == Len(entries)
           first == Least(found, 0)
<1>1. N \in Nat /\ DOMAIN entries = 1..N /\ found \in SUBSET Nat
  BY DEF IsList
<1>2. Stats!Least(found, 0) = first
  BY DEF Stats!Least, Least
<1>3. found # {} => first \in found /\ \A j \in found : first <= j
  BY <1>1, Leasts
<1> HIDE DEF first
<1>4. ASSUME NEW j \in found, j # N PROVE found # {} /\ first # N
  <2> HIDE DEF N
  <2>1. first \in 1..N /\ j \in 1..N /\ first <= j /\ j # N
    BY <1>1, <1>3, <1>4
  <2>2. first # N
    BY <1>1, <2>1
  <2> QED
    BY <1>4, <2>2
<1>5. found # {} => entries[first].keep = (first # N)
  BY <1>3
<1> QED
  BY <1>2, <1>3, <1>4, <1>5

\* The rule of a repository keeps the digests and the tags listed of it, and its
\* last entries delete.
KeepsExactly(g, k) ==
  /\ g.repo = Stats!Literal(k.repo)
  /\ IsList(g.tagged) /\ Len(g.tagged) # 0
  /\ IsList(g.untagged) /\ Len(g.untagged) # 0
  /\ \A j \in DOMAIN g.tagged : g.tagged[j].keep = (j # Len(g.tagged))
  /\ \A j \in DOMAIN g.untagged : g.untagged[j].keep = (j # Len(g.untagged))
  /\ \A t, m :
       (\E j \in DOMAIN g.tagged : /\ j # Len(g.tagged)
                                   /\ Stats!MatchString(g.tagged[j].tag, t)
                                   /\ Stats!MatchString(g.tagged[j].digest, m))
       <=> t \in In(k.tags) \/ m \in In(k.digests)
  /\ \A m :
       (\E j \in DOMAIN g.untagged : /\ j # Len(g.untagged)
                                     /\ Stats!MatchString(g.untagged[j].digest, m))
       <=> m \in In(k.digests)

LEMMA GeneratedRule ==
  ASSUME NEW R, NEW T, NEW D, NEW k \in [repo : R, tags : Seq(T), digests : Seq(D)]
  PROVE  KeepsExactly(Stats!CompileRepoRule(Stats!SpecOf(k)), k)
<1> DEFINE ts == k.tags
           ds == k.digests
           P == Len(ds)
           Q == Len(ts)
           dr == [i \in DOMAIN ds |-> Stats!KeepDigest(ds[i])]
           tr == [i \in DOMAIN ts |-> Stats!KeepTagged(ts[i])]
           E == {Stats!KeepDigest(ds[i]) : i \in DOMAIN ds} \cup {Stats!KeepTagged(ts[i]) : i \in DOMAIN ts}
                \cup {Stats!DeleteTagged, Stats!DeleteRest}
           tagged   == dr \o tr \o <<Stats!DeleteTagged>>
           untagged == dr \o <<Stats!DeleteRest>>
           g == Stats!CompileRepoRule(Stats!SpecOf(k))
<1>1. /\ P \in Nat /\ DOMAIN ds = 1..P /\ Q \in Nat /\ DOMAIN ts = 1..Q
  OBVIOUS
<1>2. /\ Stats!DeleteTagged \in E /\ Stats!DeleteRest \in E
      /\ dr \in Seq(E) /\ Len(dr) = P /\ \A j \in 1..P : dr[j] = Stats!KeepDigest(ds[j])
      /\ tr \in Seq(E) /\ Len(tr) = Q /\ \A j \in 1..Q : tr[j] = Stats!KeepTagged(ts[j])
  <2>1. /\ \A i \in DOMAIN ds : Stats!KeepDigest(ds[i]) \in E
        /\ \A i \in DOMAIN ts : Stats!KeepTagged(ts[i]) \in E
        /\ Stats!DeleteTagged \in E /\ Stats!DeleteRest \in E
    OBVIOUS
  <2> HIDE DEF ds, ts, P, Q, E, tagged, untagged, g
  <2>2. dr \in Seq(E) /\ Len(dr) = P /\ \A j \in 1..P : dr[j] = Stats!KeepDigest(ds[j])
    BY <1>1, <2>1
  <2>3. tr \in Seq(E) /\ Len(tr) = Q /\ \A j \in 1..Q : tr[j] = Stats!KeepTagged(ts[j])
    BY <1>1, <2>1
  <2> QED
    BY <2>1, <2>2, <2>3
<1> HIDE DEF E, dr, tr
<1>3. /\ DOMAIN tagged = 1..(P + Q + 1) /\ tagged[P + Q + 1] = Stats!DeleteTagged
      /\ \A j \in 1..P : tagged[j] = Stats!KeepDigest(ds[j])
      /\ \A j \in 1..Q : tagged[P + j] = Stats!KeepTagged(ts[j])
  <2> HIDE DEF ds, ts, P, Q
  <2> DEFINE both == dr \o tr
  <2>1. /\ both \in Seq(E) /\ Len(both) = P + Q /\ \A j \in 1..P : both[j] = dr[j]
        /\ \A j \in 1..Q : both[P + j] = tr[j]
    <3>1. dr \in Seq(E) /\ tr \in Seq(E) /\ Len(dr) = P /\ Len(tr) = Q
      BY <1>2
    <3>2. both \in Seq(E) /\ Len(both) = Len(dr) + Len(tr)
      BY <3>1, Joined
    <3>3. \A j \in 1..Len(dr) : both[j] = dr[j]
      BY <3>1, Joined
    <3>4. \A j \in 1..Len(tr) : both[Len(dr) + j] = tr[j]
      BY <3>1, Joined
    <3> HIDE DEF both
    <3> QED
      BY <3>1, <3>2, <3>3, <3>4
  <2> HIDE DEF both
  <2>2. /\ DOMAIN (both \o <<Stats!DeleteTagged>>) = 1..(P + Q + 1)
        /\ (both \o <<Stats!DeleteTagged>>)[P + Q + 1] = Stats!DeleteTagged
        /\ \A j \in 1..(P + Q) : (both \o <<Stats!DeleteTagged>>)[j] = both[j]
    BY <1>1, <1>2, <2>1, Ended
  <2>3. (\A j \in 1..P : j \in 1..(P + Q)) /\ \A j \in 1..Q : P + j \in 1..(P + Q)
    BY <1>1
  <2> QED
    BY <1>2, <2>1, <2>2, <2>3 DEF both
<1>4. /\ DOMAIN untagged = 1..(P + 1) /\ untagged[P + 1] = Stats!DeleteRest
      /\ \A j \in 1..P : untagged[j] = Stats!KeepDigest(ds[j])
  <2> HIDE DEF ds, ts, P, Q
  <2>1. dr \in Seq(E) /\ Stats!DeleteRest \in E /\ Len(dr) = P
    BY <1>2
  <2>2. DOMAIN (dr \o <<Stats!DeleteRest>>) = 1..(P + 1)
    BY <2>1, Ended
  <2>3. (dr \o <<Stats!DeleteRest>>)[P + 1] = Stats!DeleteRest
    BY <2>1, Ended
  <2>4. \A j \in 1..P : (dr \o <<Stats!DeleteRest>>)[j] = dr[j]
    BY <2>1, Ended
  <2> QED
    BY <1>2, <2>2, <2>3, <2>4
<1>5. /\ g.repo = Stats!Literal(k.repo)
      /\ g.tagged = [i \in DOMAIN tagged |-> Stats!Compiled(tagged[i])]
      /\ g.untagged = [i \in DOMAIN untagged |-> Stats!Compiled(untagged[i])]
  BY DEF Stats!CompileRepoRule, Stats!SpecOf, dr, tr
<1> HIDE DEF tagged, untagged, g, P, Q, ds, ts
<1>6. /\ Len(g.tagged) = P + Q + 1 /\ DOMAIN g.tagged = 1..(P + Q + 1)
      /\ Len(g.untagged) = P + 1 /\ DOMAIN g.untagged = 1..(P + 1)
  BY <1>1, <1>3, <1>4, <1>5
<1>7. /\ \A j \in 1..P : g.tagged[j] = Stats!Compiled(Stats!KeepDigest(ds[j]))
      /\ \A j \in 1..Q : g.tagged[P + j] = Stats!Compiled(Stats!KeepTagged(ts[j]))
      /\ g.tagged[P + Q + 1] = Stats!Compiled(Stats!DeleteTagged)
      /\ \A j \in 1..P : g.untagged[j] = Stats!Compiled(Stats!KeepDigest(ds[j]))
      /\ g.untagged[P + 1] = Stats!Compiled(Stats!DeleteRest)
  BY <1>1, <1>3, <1>4, <1>5
<1>8. \A j \in 1..(P + Q + 1) : j \in 1..P \/ (j - P \in 1..Q /\ j = P + (j - P)) \/ j = P + Q + 1
  BY <1>1
<1>9. \A j \in DOMAIN g.tagged : g.tagged[j].keep = (j # Len(g.tagged))
  <2> SUFFICES ASSUME NEW j \in 1..(P + Q + 1) PROVE g.tagged[j].keep = (j # P + Q + 1)
    BY <1>6
  <2>1. CASE j \in 1..P
    <3>1. j # P + Q + 1 /\ g.tagged[j].keep = TRUE
      BY <1>1, <1>7, <2>1, GeneratedEntries
    <3> QED
      BY <3>1
  <2>2. CASE j - P \in 1..Q
    <3>1. j # P + Q + 1 /\ j = P + (j - P)
      BY <1>1, <2>2
    <3>2. g.tagged[j].keep = TRUE
      BY <1>7, <2>2, <3>1, GeneratedEntries
    <3> QED
      BY <3>1, <3>2
  <2>3. CASE j = P + Q + 1
    BY <1>7, <2>3, GeneratedEntries
  <2> QED
    BY <1>8, <2>1, <2>2, <2>3
<1>10. \A j \in DOMAIN g.untagged : g.untagged[j].keep = (j # Len(g.untagged))
  <2> SUFFICES ASSUME NEW j \in 1..(P + 1) PROVE g.untagged[j].keep = (j # P + 1)
    BY <1>6
  <2>1. CASE j \in 1..P
    <3>1. j # P + 1 /\ g.untagged[j].keep = TRUE
      BY <1>1, <1>7, <2>1, GeneratedEntries
    <3> QED
      BY <3>1
  <2>2. CASE j = P + 1
    BY <1>7, <2>2, GeneratedEntries
  <2> QED
    BY <1>1, <2>1, <2>2
<1>11. \A j \in 1..P : \A t, m :
         /\ Stats!MatchString(g.tagged[j].tag, t) /\ (Stats!MatchString(g.tagged[j].digest, m) <=> m = ds[j])
         /\ (Stats!MatchString(g.untagged[j].digest, m) <=> m = ds[j])
  BY <1>7, GeneratedEntries
<1>12. \A j \in 1..Q : \A t, m :
         /\ Stats!MatchString(g.tagged[P + j].digest, m) /\ (Stats!MatchString(g.tagged[P + j].tag, t) <=> t = ts[j])
  BY <1>7, GeneratedEntries
<1>13. In(ts) = {ts[i] : i \in 1..Q} /\ In(ds) = {ds[i] : i \in 1..P}
  BY <1>1 DEF In
<1>14. ASSUME NEW t, NEW m
       PROVE  (\E j \in DOMAIN g.tagged : /\ j # Len(g.tagged)
                                          /\ Stats!MatchString(g.tagged[j].tag, t)
                                          /\ Stats!MatchString(g.tagged[j].digest, m))
              <=> t \in In(ts) \/ m \in In(ds)
  <2>1. ASSUME NEW j \in 1..(P + Q + 1), j # P + Q + 1,
               Stats!MatchString(g.tagged[j].tag, t), Stats!MatchString(g.tagged[j].digest, m)
        PROVE  t \in In(ts) \/ m \in In(ds)
    <3>1. CASE j \in 1..P
      <4>1. m = ds[j]
        BY <1>11, <2>1, <3>1
      <4> QED
        BY <1>13, <3>1, <4>1
    <3>2. CASE j - P \in 1..Q /\ j = P + (j - P)
      <4>1. PICK i \in 1..Q : j = P + i
        BY <3>2
      <4>2. t = ts[i]
        BY <1>12, <2>1, <4>1
      <4> QED
        BY <1>13, <4>1, <4>2
    <3> QED
      BY <1>8, <2>1, <3>1, <3>2
  <2>2. ASSUME NEW i \in 1..P, m = ds[i]
        PROVE  \E j \in 1..(P + Q + 1) : /\ j # P + Q + 1 /\ Stats!MatchString(g.tagged[j].tag, t)
                                         /\ Stats!MatchString(g.tagged[j].digest, m)
    <3>1. i \in 1..(P + Q + 1) /\ i # P + Q + 1
      BY <1>1
    <3> QED
      BY <1>11, <2>2, <3>1
  <2>3. ASSUME NEW i \in 1..Q, t = ts[i]
        PROVE  \E j \in 1..(P + Q + 1) : /\ j # P + Q + 1 /\ Stats!MatchString(g.tagged[j].tag, t)
                                         /\ Stats!MatchString(g.tagged[j].digest, m)
    <3>1. P + i \in 1..(P + Q + 1) /\ P + i # P + Q + 1
      BY <1>1
    <3> QED
      BY <1>12, <2>3, <3>1
  <2> QED
    BY <1>6, <1>13, <2>1, <2>2, <2>3
<1>15. ASSUME NEW m
       PROVE  (\E j \in DOMAIN g.untagged : j # Len(g.untagged) /\ Stats!MatchString(g.untagged[j].digest, m))
              <=> m \in In(ds)
  <2>1. \A j \in 1..(P + 1) : j # P + 1 <=> j \in 1..P
    BY <1>1
  <2>2. \A j \in 1..P : j \in 1..(P + 1)
    BY <1>1
  <2>3. ASSUME NEW j \in 1..P PROVE Stats!MatchString(g.untagged[j].digest, m) <=> m = ds[j]
    BY <1>11
  <2>4. m \in In(ds) <=> \E j \in 1..P : m = ds[j]
    BY <1>13
  <2> QED
    BY <1>6, <2>1, <2>2, <2>3, <2>4
<1>16. IsList(g.tagged) /\ Len(g.tagged) # 0 /\ IsList(g.untagged) /\ Len(g.untagged) # 0
  BY <1>1, <1>6 DEF IsList
<1> QED
  BY <1>5, <1>9, <1>10, <1>14, <1>15, <1>16 DEF KeepsExactly, g, ts, ds

\* The rules that apply to a repository: its own, or none.
Narrowed(rs, r) ==
  LET i == Stats!MatchingRule(rs, r) IN IF i = 0 THEN <<>> ELSE <<rs[i]>>

\* A manifest is running under the rules generated from a list when a line
\* names it.
LEMMA ListedRuns ==
  ASSUME NEW lines, ReadLines(lines), NEW rs, rs = Stats!CompileAll(Stats!KeepRulesFromImageList(lines)),
         NEW r, NEW m, NEW ts
  PROVE  Stats!RunningMatch(Narrowed(rs, r), r, m, ts)
         <=> \E k \in DOMAIN lines : /\ lines[k].kind = "ours" /\ lines[k].repo = r
                                     /\ m \in lines[k].digest \/ Stats!TagsOf(lines[k]) \cap ts # {}
<1> DEFINE N == Len(lines)
           keeps == Stats!KeepsOf(lines)[N]
           L == Len(keeps)
           first == Stats!FirstLiteral(rs, r)
           at0 == Stats!MatchingRule(rs, r)
<1>1. KeepsInv(lines, N, keeps) /\ DOMAIN lines = 1..N /\ N \in Nat
  BY ListKeeps DEF ReadLines, IsList
<1>2. rs = [i \in DOMAIN keeps |-> Stats!CompileRepoRule(Stats!SpecOf(keeps[i]))]
  BY DEF Stats!CompileAll, Stats!KeepRulesFromImageList
<1> HIDE DEF keeps
<1>3. keeps \in Seq(KeepType(lines)) /\ L \in Nat /\ DOMAIN keeps = 1..L /\ DOMAIN rs = 1..L /\ Len(rs) = L
  BY <1>1, <1>2 DEF KeepsInv
<1>4. \A i \in 1..L : keeps[i] \in KeepType(lines) /\ rs[i] = Stats!CompileRepoRule(Stats!SpecOf(keeps[i]))
  BY <1>2, <1>3
<1>5. \A i \in 1..L : KeepsExactly(rs[i], keeps[i])
  <2>1. \A k \in KeepType(lines) : KeepsExactly(Stats!CompileRepoRule(Stats!SpecOf(k)), k)
    BY GeneratedRule DEF KeepType
  <2> QED
    BY <1>4, <2>1
<1>6. \A i \in 1..L : /\ Stats!IsLiteral(rs[i]) /\ Stats!NameOf(rs[i]) = keeps[i].repo
                      /\ (Stats!Matches(rs[i], r) <=> keeps[i].repo = r)
  <2>1. \A n : (CHOOSE x \in {n} : TRUE) = n
    OBVIOUS
  <2>2. \A n : Stats!Literal(n).spelled = "literal" /\ Stats!Literal(n).names = {n}
    BY DEF Stats!Literal
  <2> SUFFICES ASSUME NEW i \in 1..L
               PROVE  /\ Stats!IsLiteral(rs[i]) /\ Stats!NameOf(rs[i]) = keeps[i].repo
                      /\ (Stats!Matches(rs[i], r) <=> keeps[i].repo = r)
    OBVIOUS
  <2>3. rs[i].repo = Stats!Literal(keeps[i].repo)
    BY <1>5 DEF KeepsExactly
  <2>4. rs[i].repo.spelled = "literal" /\ rs[i].repo.names = {keeps[i].repo}
    BY <2>2, <2>3
  <2> QED
    BY <2>1, <2>4 DEF Stats!IsLiteral, Stats!NameOf, Stats!Matches
<1>7. \A S, none : Stats!Least(S, none) = Least(S, none)
  BY DEF Stats!Least, Least
<1> DEFINE Mine == {i \in 1..L : keeps[i].repo = r}
<1>8. first = Least(Mine, L + 1) /\ at0 = IF first <= L THEN first ELSE 0
  <2>1. {i \in DOMAIN rs : Stats!IsLiteral(rs[i]) /\ Stats!NameOf(rs[i]) = r} = Mine
    BY <1>3, <1>6
  <2>2. {i \in DOMAIN rs : ~Stats!IsLiteral(rs[i]) /\ i < first /\ Stats!Matches(rs[i], r)} = {}
    BY <1>3, <1>6
  <2>3. \A none : Least({}, none) = none
    BY Leasts
  <2> HIDE DEF Mine
  <2>4. first = Least(Mine, L + 1)
    BY <1>3, <1>7, <2>1 DEF Stats!FirstLiteral
  <2> HIDE DEF first
  <2> QED
    BY <1>3, <1>7, <2>2, <2>3, <2>4 DEF Stats!MatchingRule, first
<1> HIDE DEF first, at0
<1>9. CASE Mine = {}
  <2>1. at0 = 0
    BY <1>3, <1>8, <1>9, Leasts
  <2>2. Stats!FirstRule(<<>>, r) = 0
    BY <1>7, Leasts DEF Stats!FirstRule
  <2>3. ~Stats!RunningMatch(<<>>, r, m, ts)
    BY <2>2 DEF Stats!RunningMatch
  <2>4. \A k \in DOMAIN lines : ~(lines[k].kind = "ours" /\ lines[k].repo = r)
    BY <1>1, <1>3, <1>9 DEF KeepsInv
  <2> QED
    BY <2>1, <2>3, <2>4 DEF at0, Narrowed
<1>10. CASE Mine # {}
  <2>1. PICK p \in 1..L : keeps[p].repo = r
    BY <1>10
  <2>2. Mine = {p}
    BY <1>1, <1>3, <2>1 DEF KeepsInv
  <2> HIDE DEF Mine
  <2>3. at0 = p
    <3>1. Least({p}, L + 1) = p
      <4>1. {p} \in SUBSET Nat /\ {p} # {}
        BY <1>3
      <4> QED
        BY <4>1, Leasts
    <3> QED
      BY <1>3, <1>8, <2>2, <3>1
  <2> DEFINE g == rs[p]
             ds == In(keeps[p].digests)
             ks == In(keeps[p].tags)
             By(t) == {j \in DOMAIN g.tagged : /\ Stats!MatchString(g.tagged[j].tag, t)
                                               /\ Stats!MatchString(g.tagged[j].digest, m)}
             Rest == {j \in DOMAIN g.untagged : Stats!MatchString(g.untagged[j].digest, m)}
  <2>4. /\ IsList(g.tagged) /\ Len(g.tagged) # 0 /\ IsList(g.untagged) /\ Len(g.untagged) # 0
        /\ \A j \in DOMAIN g.tagged : g.tagged[j].keep = (j # Len(g.tagged))
        /\ \A j \in DOMAIN g.untagged : g.untagged[j].keep = (j # Len(g.untagged))
        /\ \A t : (\E j \in By(t) : j # Len(g.tagged)) <=> t \in ks \/ m \in ds
        /\ (\E j \in Rest : j # Len(g.untagged)) <=> m \in ds
    <3>1. KeepsExactly(g, keeps[p])
      BY <1>5
    <3> HIDE DEF g
    <3>2. \A t : (\E j \in By(t) : j # Len(g.tagged)) <=> t \in ks \/ m \in ds
      <4> SUFFICES ASSUME NEW t PROVE (\E j \in By(t) : j # Len(g.tagged)) <=> t \in ks \/ m \in ds
        OBVIOUS
      <4>1. (\E j \in By(t) : j # Len(g.tagged))
            <=> \E j \in DOMAIN g.tagged : /\ j # Len(g.tagged)
                                           /\ Stats!MatchString(g.tagged[j].tag, t)
                                           /\ Stats!MatchString(g.tagged[j].digest, m)
        OBVIOUS
      <4> QED
        BY <3>1, <4>1, Zenon DEF KeepsExactly
    <3>3. (\E j \in Rest : j # Len(g.untagged)) <=> m \in ds
      <4>1. (\E j \in Rest : j # Len(g.untagged))
            <=> \E j \in DOMAIN g.untagged : /\ j # Len(g.untagged)
                                             /\ Stats!MatchString(g.untagged[j].digest, m)
        OBVIOUS
      <4> QED
        BY <3>1, <4>1, Zenon DEF KeepsExactly
    <3>4. /\ IsList(g.tagged) /\ Len(g.tagged) # 0 /\ IsList(g.untagged) /\ Len(g.untagged) # 0
          /\ \A j \in DOMAIN g.tagged : g.tagged[j].keep = (j # Len(g.tagged))
          /\ \A j \in DOMAIN g.untagged : g.untagged[j].keep = (j # Len(g.untagged))
      BY <3>1 DEF KeepsExactly
    <3> QED
      BY <3>2, <3>3, <3>4, Zenon
  <2> HIDE DEF g, ks, ds
  <2>5. \A t : (By(t) # {} /\ g.tagged[Stats!Least(By(t), 0)].keep) <=> t \in ks \/ m \in ds
    BY <2>4, LastDeletes
  <2>6. (Rest # {} /\ g.untagged[Stats!Least(Rest, 0)].keep) <=> m \in ds
    BY <2>4, LastDeletes
  <2>7. Stats!FirstRule(<<g>>, r) = 1
    <3>1. {i \in DOMAIN <<g>> : Stats!Matches(<<g>>[i], r)} = {1}
      BY <1>6, <2>1 DEF g
    <3>2. Least({1}, 0) = 1
      BY Leasts
    <3> QED
      BY <1>7, <3>1, <3>2 DEF Stats!FirstRule
  <2>8. Stats!RunningMatch(<<g>>, r, m, ts) <=> m \in ds \/ \E t \in ts : t \in ks
    <3> DEFINE one == <<g>>
               f == Stats!FirstRule(one, r)
    <3>1. f # 0 /\ one[f] = g
      BY <2>7
    <3> HIDE DEF one
    <3>2. CASE ts # {}
      <4>1. Stats!RunningMatch(one, r, m, ts)
            <=> \E t \in ts : By(t) # {} /\ g.tagged[Stats!Least(By(t), 0)].keep
        BY <3>1, <3>2, Zenon DEF Stats!RunningMatch
      <4> QED
        BY <2>5, <3>2, <4>1 DEF one
    <3>3. CASE ts = {}
      <4>1. Stats!RunningMatch(one, r, m, ts) <=> Rest # {} /\ g.untagged[Stats!Least(Rest, 0)].keep
        BY <3>1, <3>3, Zenon DEF Stats!RunningMatch
      <4> QED
        BY <2>6, <3>3, <4>1 DEF one
    <3> QED
      BY <3>2, <3>3
  <2>9. /\ ks = UNION {Stats!TagsOf(lines[k]) : k \in LinesOf(lines, N, r)}
        /\ ds = UNION {lines[k].digest : k \in LinesOf(lines, N, r)}
    BY <1>1, <1>3, <2>1 DEF KeepsInv, ks, ds
  <2>10. m \in ds \/ (\E t \in ts : t \in ks)
         <=> \E k \in LinesOf(lines, N, r) : m \in lines[k].digest \/ Stats!TagsOf(lines[k]) \cap ts # {}
    BY <2>9
  <2>11. \A k : k \in LinesOf(lines, N, r) <=> k \in DOMAIN lines /\ lines[k].kind = "ours" /\ lines[k].repo = r
    BY <1>1 DEF LinesOf
  <2>12. p # 0
    BY <1>3
  <2> QED
    BY <2>3, <2>8, <2>10, <2>11, <2>12 DEF g, at0, Narrowed
<1> QED
  BY <1>9, <1>10

\* How many images of each repository are running. The rules are those of the
\* list, and every repository counted has its running images under them.
RunningAt == [r \in 1..Repositories |-> Stats!Cardinality(Stats!RunningIn(r))]

RunningInv ==
  /\ rules # <<>> => rules = Stats!CompileAll(Stats!KeepRulesFromImageList(list))
  /\ \A i \in DOMAIN stats : i < Len(stats) \/ step = "next" => stats[i].running = RunningAt[stats[i].repository]

LEMMA RunningInit == Stats!Init => RunningInv
BY DEF Stats!Init, RunningInv

LEMMA RunningStep == ScanInv /\ RunningInv /\ [Stats!Next]_(Stats!svars) => RunningInv'
<1> SUFFICES ASSUME ScanInv, RunningInv, [Stats!Next]_(Stats!svars) PROVE RunningInv'
  OBVIOUS
<1>0. PICK L : L = Len(stats)
  OBVIOUS
<1>1. stats \in Seq(Stat) /\ L \in Nat /\ DOMAIN stats = 1..L
  BY <1>0 DEF ScanInv, ScanTypes
<1>2. \A i \in 1..L : i < L \/ step = "next" => stats[i].running = RunningAt[stats[i].repository]
  BY <1>0, <1>1 DEF RunningInv
<1>3. ASSUME UNCHANGED <<rules, present, gaps, tags>> PROVE RunningAt' = RunningAt
  <2>1. ASSUME NEW r PROVE Stats!RunningIn(r)' = Stats!RunningIn(r)
    <3>1. Stats!MatchingRule(rules, r)' = Stats!MatchingRule(rules, r)
      BY <1>3
    <3> QED
      BY <1>3, <3>1 DEF Stats!RunningIn
  <2>2. ASSUME NEW r PROVE Stats!Cardinality(Stats!RunningIn(r))' = Stats!Cardinality(Stats!RunningIn(r))
    BY <2>1 DEF Stats!Cardinality
  <2> QED
    BY <2>2 DEF RunningAt
<1>4. ASSUME UNCHANGED <<list, rules, present, gaps, tags>>, NEW M, M = Len(stats'), DOMAIN stats' = 1..M,
             \A i \in 1..M : i < M \/ step' = "next" => stats'[i].running = RunningAt[stats'[i].repository]
      PROVE  RunningInv'
  <2>1. rules' # <<>> => rules' = Stats!CompileAll(Stats!KeepRulesFromImageList(list))'
    BY <1>4 DEF RunningInv
  <2>2. RunningAt' = RunningAt
    BY <1>3, <1>4
  <2> QED
    BY <1>4, <2>1, <2>2 DEF RunningInv
<1>5. ASSUME UNCHANGED <<list, rules, present, gaps, tags, stats>>, step' = "next" => step = "next"
      PROVE  RunningInv'
  <2>1. L = Len(stats') /\ DOMAIN stats' = 1..L
    BY <1>0, <1>1, <1>5
  <2>2. \A i \in 1..L : i < L \/ step' = "next" => stats'[i].running = RunningAt[stats'[i].repository]
    BY <1>2, <1>5
  <2> QED
    BY <1>4, <1>5, <2>1, <2>2
<1>6. CASE Stats!Begin
  <2>1. stats = <<>> /\ stats' = stats
    BY <1>6 DEF Stats!Begin, ScanInv, ScanStage
  <2>2. DOMAIN stats' = {}
    BY <2>1
  <2>3. rules' # <<>> => rules' = Stats!CompileAll(Stats!KeepRulesFromImageList(list))'
    BY <1>6 DEF Stats!Begin, Stats!registry, RunningInv
  <2> QED
    BY <2>2, <2>3 DEF RunningInv
<1>7. CASE Stats!Inspect
  <2>1. step = "next" /\ UNCHANGED <<list, rules, present, gaps, tags, seen>> /\ step' \in {"next", "count", "failed"}
        /\ reached + 1 \in 1..Repositories
    <3>1. Stats!Cardinality(1..Repositories) = Repositories
      BY RegistryIsFinite, SameCardinality, FS_Interval
    <3> QED
      BY <1>7, <3>1, RegistryIsFinite DEF Stats!Inspect, Stats!Partial, Stats!registry, ScanInv, ScanTypes
  <2>2. CASE stats' = stats
    BY <1>5, <2>1, <2>2
  <2>3. CASE /\ step' = "count" /\ todo' = present[reached + 1]
             /\ stats' = Append(stats, [repository |-> reached + 1, count |-> Stats!Cardinality(gaps[reached + 1]),
                                        unique |-> 0, total |-> 0, running |-> 0])
    <3>1. /\ stats' \in Seq(Stat) /\ Len(stats') = L + 1
          /\ \A i \in 1..L : stats'[i] = stats[i]
      BY <1>0, <2>1, <2>3, BegunStatistics
    <3>2. DOMAIN stats' = 1..(L + 1)
      BY <3>1
    <3>3. \A i \in 1..(L + 1) : i < L + 1 \/ step' = "next" => stats'[i].running = RunningAt[stats'[i].repository]
      <4>1. \A i \in 1..(L + 1) : i < L + 1 => i \in 1..L
        BY <1>1
      <4> QED
        BY <1>2, <2>1, <2>3, <3>1, <4>1
    <3> QED
      BY <1>4, <2>1, <3>1, <3>2, <3>3
  <2> QED
    BY <1>7, <2>2, <2>3 DEF Stats!Inspect, Stats!Partial
<1>8. ASSUME NEW m \in Manifests, Stats!Count(m) PROVE RunningInv'
  <2>1. step = "count" /\ step' = "count" /\ UNCHANGED <<list, rules, present, gaps, tags>>
    BY <1>8 DEF Stats!Count, Stats!registry
  <2>2. /\ stats' \in Seq(Stat) /\ Len(stats') = L
        /\ \A i \in 1..(L - 1) : stats'[i] = stats[i]
    BY <1>0, <1>8, CountedCharges
  <2>3. DOMAIN stats' = 1..L
    BY <2>2
  <2>4. \A i \in 1..L : i < L \/ step' = "next" => stats'[i].running = RunningAt[stats'[i].repository]
    <3>1. \A i \in 1..L : i < L => i \in 1..(L - 1)
      BY <1>1
    <3> QED
      BY <1>2, <2>1, <2>2, <3>1
  <2> QED
    BY <1>4, <2>1, <2>2, <2>3, <2>4
<1>9. CASE Stats!Counted
  <2>1. step = "count" /\ L \in 1..L /\ stats[L].repository = reached /\ UNCHANGED <<list, rules, present, gaps, tags>>
        /\ stats' = [stats EXCEPT ![L].running = Stats!Cardinality(Stats!RunningIn(reached))]
    BY <1>0, <1>1, <1>9 DEF Stats!Counted, Stats!registry, ScanInv, ScanStage
  <2>2. stats[L] \in Stat
    BY <1>1, <2>1
  <2>3. reached \in 1..Repositories
    BY <2>1, <2>2 DEF Stat
  <2>4. RunningAt[reached] \in Nat /\ Stats!Cardinality(Stats!RunningIn(reached)) = RunningAt[reached]
    BY <2>3, RunningIsANumber DEF RunningAt
  <2> DEFINE new == [stats[L] EXCEPT !.running = RunningAt[reached]]
  <2>5. new \in Stat /\ new.running = RunningAt[reached] /\ new.repository = reached
    BY <2>1, <2>2, <2>4 DEF Stat
  <2>6. stats' = [stats EXCEPT ![L] = new]
    BY <2>1, <2>4
  <2> HIDE DEF new
  <2>7. /\ L = Len(stats') /\ DOMAIN stats' = 1..L /\ stats'[L] = new
        /\ \A i \in 1..L : i # L => stats'[i] = stats[i]
    <3>1. stats' \in Seq(Stat) /\ DOMAIN stats' = DOMAIN stats /\ Len(stats') = Len(stats)
      BY <1>1, <2>1, <2>5, <2>6
    <3>2. stats'[L] = new /\ \A i \in 1..L : i # L => stats'[i] = stats[i]
      BY <1>1, <2>1, <2>6
    <3> QED
      BY <1>0, <1>1, <3>1, <3>2
  <2>8. \A i \in 1..L : i < L \/ step' = "next" => stats'[i].running = RunningAt[stats'[i].repository]
    <3> SUFFICES ASSUME NEW i \in 1..L PROVE stats'[i].running = RunningAt[stats'[i].repository]
      OBVIOUS
    <3>1. CASE i = L
      BY <2>5, <2>7, <3>1
    <3>2. CASE i # L
      <4>1. i < L
        BY <1>1, <3>2
      <4> QED
        BY <1>2, <2>7, <3>2, <4>1
    <3> QED
      BY <3>1, <3>2
  <2> QED
    BY <1>4, <2>1, <2>7, <2>8
<1>10. CASE Stats!Finish
  BY <1>5, <1>10 DEF Stats!Finish, Stats!Partial, Stats!registry
<1>11. CASE UNCHANGED Stats!svars
  BY <1>5, <1>11 DEF Stats!svars, Stats!registry
<1> QED
  BY <1>6, <1>7, <1>8, <1>9, <1>10, <1>11 DEF Stats!Next

\* Exactly the images on a list are running and counted so, in whatever order
\* and however often it names them and their repositories
\* (KeepRulesFromImageList, runningMatch).
THEOREM ListedAreRunning == Stats!Spec => []RunningIsListed
<1>1. ScanInv /\ RunningInv => RunningIsListed
  <2> SUFFICES ASSUME ScanInv, RunningInv, rules # <<>>
               PROVE  /\ \A r \in 1..Repositories :
                           Stats!RunningIn(r) = {m \in present[r] \cup gaps[r] : Stats!Listed(r, m)}
                      /\ \A i \in DOMAIN stats : i < Len(stats) \/ step = "next" =>
                           stats[i].running = Stats!Cardinality({m \in present[stats[i].repository] \cup gaps[stats[i].repository] :
                                                                   Stats!Listed(stats[i].repository, m)})
    BY DEF RunningIsListed, Stats!RunningIsListed
  <2>1. ReadLines(list) /\ rules = Stats!CompileAll(Stats!KeepRulesFromImageList(list))
    BY ListsAreRead DEF ScanInv, ScanTypes, RunningInv, ReadLines, IsList
  <2>2. ASSUME NEW r \in 1..Repositories
        PROVE  Stats!RunningIn(r) = {m \in present[r] \cup gaps[r] : Stats!Listed(r, m)}
    <3>1. ASSUME NEW m PROVE Stats!RunningMatch(Narrowed(rules, r), r, m, tags[m]) <=> Stats!Listed(r, m)
      <4>1. Stats!RunningMatch(Narrowed(rules, r), r, m, tags[m])
            <=> \E k \in DOMAIN list : /\ list[k].kind = "ours" /\ list[k].repo = r
                                       /\ m \in list[k].digest \/ Stats!TagsOf(list[k]) \cap tags[m] # {}
        BY <2>1, ListedRuns
      <4> QED
        BY <4>1, Zenon DEF Stats!Listed
    <3> QED
      BY <3>1 DEF Stats!RunningIn, Narrowed
  <2>3. ASSUME NEW i \in DOMAIN stats, i < Len(stats) \/ step = "next"
        PROVE  stats[i].running = Stats!Cardinality({m \in present[stats[i].repository] \cup gaps[stats[i].repository] :
                                                       Stats!Listed(stats[i].repository, m)})
    <3>1. stats[i].repository \in 1..Repositories
      <4>1. stats[i] \in Stat
        BY DEF ScanInv, ScanTypes
      <4> QED
        BY <4>1 DEF Stat
    <3>2. stats[i].running = Stats!Cardinality(Stats!RunningIn(stats[i].repository))
      BY <2>3, <3>1 DEF RunningInv, RunningAt
    <3> QED
      BY <2>2, <3>1, <3>2
  <2> QED
    BY <2>2, <2>3
<1>2. Stats!Init => RunningInv
  BY RunningInit
<1>3. ScanInv /\ RunningInv /\ [Stats!Next]_(Stats!svars) => RunningInv'
  BY RunningStep
<1> QED
  BY <1>1, <1>2, <1>3, ScanInvariance, PTL DEF Stats!Spec

=============================================================================
