--------------------------- MODULE Retention_proofs ---------------------------
(***************************************************************************)
(* What pruneRepository keeps, for every repository, rule and registry,    *)
(* however its loops are ordered. GrowInv says how far the closure of what *)
(* is kept has come, ReasonInv that nothing is kept without a reason,      *)
(* CheckInv relates the two passes, and LastInv and AllInv are about the   *)
(* last tag and must_delete_everything. Then what markOrphans flags before *)
(* that (MarkInv): the orphans Retention takes for its flags.              *)
(***************************************************************************)
EXTENDS Decision, FiniteSetTheorems, TLAPS

\* What decide keeps of its own accord, what keepReferrers shelters, and the
\* referrers that follow what they refer to.
Starts   == {m \in Manifest : m \notin selection \/ (~IsReferrer(m) /\ ShouldKeep(m))}
Shelter  == {m \in Manifest : Protected(m)}
Trailing == [m \in Manifest |-> {r \in Referrers(m) : ~(opt.deleteOrphaned /\ r \in Orphans)}]
Content  == [m \in Manifest |-> lists[m] \cap Manifest]
Reliant  == {m \in Manifest : IsReferrer(m)}
Fixed    == {m \in Manifest : Pinned(m)}
Young    == {m \in Manifest : ProtectedByAge(m)}

\* The same, as long as no tag locks are known.
BaseFixed   == {m \in Manifest : class[m] = "pinned"}
BaseShelter == Young \cup BaseFixed
BaseKeep    == {m \in Manifest : class[m] = "kept" /\ ~(opt.deleteOrphaned /\ m \in Orphans)} \cup BaseShelter
BaseStarts  == (Manifest \ selection) \cup (BaseKeep \ Reliant)

Holds(S, starts) == starts \subseteq S /\ \A m \in S : Content[m] \cup Trailing[m] \subseteq S

Reasoned == \A S \in SUBSET Manifest :
              Holds(S, Starts \cup Shelter) => kept \subseteq S /\ pending \cap Manifest \subseteq S

BaseAll == BaseStarts # {} \/ BaseFixed \cap Reliant # {}

FirstPass ==
  \/ opt.mustDeleteAll /\ BaseAll
  \/ \A S \in SUBSET Manifest : Holds(S, BaseStarts \cup BaseShelter) => Manifest \ condemned \subseteq S

Reached == kept \cup pending

PhaseInv ==
  /\ pending # {} => stage \in {"rules", "referrers", "last"}
  /\ stage = "last" /\ pending # {} => pass = 3
  /\ stage \in {"start", "rules"} => pass \in {1, 2}
  /\ stage = "locks" => pass = 1
  /\ stage \in {"last", "decided"} => pass \in {2, 3}
  /\ pass = 1 => loaded = {}
  /\ stage = "start" => pass = 1
  /\ stage = "referrers" => queue \subseteq kept
  /\ pass = 3 \/ stage = "last" => opt.protectsLastTag

ClassInv ==
  \A m \in Manifest : TagLocked(m) => m \in tagged /\ ~opt.protectsLastTag

Closed == Shelter \subseteq kept /\ \A m \in kept : Trailing[m] \subseteq kept

GrowInv ==
  /\ stage \in {"rules", "referrers", "last", "locks", "decided"} => \A m \in kept : Content[m] \subseteq Reached
  /\ stage = "rules" => Starts \ todo \subseteq Reached
  /\ stage \in {"referrers", "last", "locks", "decided"} => Starts \subseteq kept
  /\ stage = "referrers" =>
       /\ (Shelter \cap Reliant) \ todo \subseteq Reached
       /\ \A m \in kept \ queue : Trailing[m] \subseteq Reached
  /\ stage \in {"locks", "decided"} \/ (stage = "last" /\ pass = 2) => Closed

ReasonInv ==
  /\ stage = "rules" /\ Reached # {} => Starts # {}
  /\ stage \in {"rules", "referrers"} /\ pass # 3 => Reasoned
  /\ stage \in {"last", "decided"} /\ pass = 2 /\ ~opt.mustDeleteAll => Reasoned

CheckInv ==
  /\ stage = "locks" \/ pass # 1 => FirstPass
  /\ stage = "referrers" /\ pass = 2 => ~(opt.mustDeleteAll /\ BaseAll)
  /\ pass # 1 /\ ~opt.protectsLastTag => condemned \cap tagged \subseteq loaded
  /\ stage \in {"last", "decided"} \/ pass = 3 => Manifest \ condemned \subseteq kept

Best == {m \in tagged : \A n \in tagged : LastTagRank(m) <= LastTagRank(n)}

LastInv ==
  /\ pass = 3 => stage \in {"last", "referrers", "decided", "error"}
  /\ stage = "last" => kept # {}
  /\ pass = 3 /\ stage # "error" => Best \cap Reached # {}
  /\ stage = "decided" /\ pass = 2 /\ opt.protectsLastTag /\ kept # {} => tagged = {} \/ tagged \cap kept # {}

\* Under must_delete_everything either all is kept, or what is kept started with
\* a fresh referrer.
AllInv ==
  opt.mustDeleteAll /\ (stage = "referrers" \/ stage = "last" \/ stage = "decided") /\ pass # 1 =>
    \/ kept = Manifest
    \/ /\ Starts = {} /\ Fixed \cap Reliant = {}
       /\ Reached # {} => Reached \cap Young \cap Reliant # {}

LockInv ==
  opt.mustDeleteAll /\ ~opt.includeLocked /\ pass # 1 =>
    condemned = {} \/ {m \in Manifest : TagLocked(m)} \subseteq loaded

IInv == TypeOK /\ PhaseInv /\ ClassInv /\ GrowInv /\ ReasonInv /\ CheckInv /\ LastInv /\ AllInv /\ LockInv

-----------------------------------------------------------------------------
(* The sets the argument is made in *)

\* How the sets relate: tag locks that become known only add to what is kept.
LEMMA SetFacts ==
  TypeOK =>
    /\ Starts \subseteq Manifest /\ Shelter \subseteq Manifest /\ Shelter = Young \cup Fixed
    /\ Shelter \ Reliant \subseteq Starts /\ Reliant \subseteq Manifest
    /\ BaseStarts \subseteq Starts /\ BaseShelter \subseteq Shelter /\ BaseFixed \subseteq Fixed
    /\ loaded = {} => Starts = BaseStarts /\ Shelter = BaseShelter /\ Fixed = BaseFixed
    /\ Trailing \in [Manifest -> SUBSET Manifest] /\ Content \in [Manifest -> SUBSET Manifest]
<1> SUFFICES ASSUME TypeOK
             PROVE  /\ Starts \subseteq Manifest /\ Shelter \subseteq Manifest /\ Shelter = Young \cup Fixed
                    /\ Shelter \ Reliant \subseteq Starts /\ Reliant \subseteq Manifest
                    /\ BaseStarts \subseteq Starts /\ BaseShelter \subseteq Shelter /\ BaseFixed \subseteq Fixed
                    /\ loaded = {} => Starts = BaseStarts /\ Shelter = BaseShelter /\ Fixed = BaseFixed
                    /\ Trailing \in [Manifest -> SUBSET Manifest] /\ Content \in [Manifest -> SUBSET Manifest]
  OBVIOUS
<1>1. /\ Starts \subseteq Manifest /\ Shelter \subseteq Manifest /\ Shelter = Young \cup Fixed
      /\ Reliant \subseteq Manifest /\ Shelter \ Reliant \subseteq Starts
  BY DEF Starts, Shelter, Young, Fixed, Reliant, Protected, ShouldKeep
<1>2. BaseFixed \subseteq Fixed /\ BaseShelter \subseteq Shelter
  BY DEF BaseFixed, Fixed, Pinned, BaseShelter, Shelter, Young, Protected
<1>3. BaseStarts \subseteq Starts
  BY <1>2 DEF BaseStarts, BaseKeep, Starts, Shelter, ShouldKeep, Reliant
<1>4. ASSUME loaded = {} PROVE Starts = BaseStarts /\ Shelter = BaseShelter /\ Fixed = BaseFixed
  <2>1. Fixed = BaseFixed
    BY <1>4 DEF Fixed, BaseFixed, Pinned
  <2>2. Shelter = BaseShelter
    BY <1>1, <2>1 DEF BaseShelter
  <2>3. Starts \subseteq BaseStarts
    BY <2>2 DEF BaseStarts, BaseKeep, Starts, Shelter, ShouldKeep, Reliant
  <2> QED
    BY <1>3, <2>1, <2>2, <2>3
<1>5. Trailing \in [Manifest -> SUBSET Manifest] /\ Content \in [Manifest -> SUBSET Manifest]
  BY DEF Trailing, Content, Referrers
<1> QED
  BY <1>1, <1>2, <1>3, <1>4, <1>5

\* The graph, the classes and the options decide what the sets are, with the
\* selection and the tag locks that are known.
LEMMA SetsStay ==
  UNCHANGED config =>
    /\ UNCHANGED <<Trailing, Content, Reliant, Young, BaseFixed, BaseShelter, BaseKeep, Best>>
    /\ UNCHANGED selection => UNCHANGED <<BaseStarts, BaseAll>>
    /\ UNCHANGED <<selection, loaded>> => UNCHANGED <<Starts, Shelter, Fixed>>
<1> SUFFICES ASSUME UNCHANGED config
             PROVE  /\ UNCHANGED <<Trailing, Content, Reliant, Young, BaseFixed, BaseShelter, BaseKeep, Best>>
                    /\ UNCHANGED selection => UNCHANGED <<BaseStarts, BaseAll>>
                    /\ UNCHANGED <<selection, loaded>> => UNCHANGED <<Starts, Shelter, Fixed>>
  OBVIOUS
<1>1. UNCHANGED <<lists, subject, tagged, class, opt>>
  BY DEF config, graph
<1>2. Orphans' = Orphans
  BY <1>1 DEF Orphans, OrphanClosed, Dependencies, Owners
<1>3. UNCHANGED <<Reliant, Content>>
  BY <1>1 DEF Reliant, Content, IsReferrer
<1>4. UNCHANGED <<Young, BaseFixed, BaseShelter, BaseKeep>>
  BY <1>1, <1>2 DEF Young, BaseFixed, BaseShelter, BaseKeep, ProtectedByAge
<1>5. UNCHANGED Trailing
  BY <1>1, <1>2 DEF Trailing, Referrers
<1>6. UNCHANGED Best
  BY <1>1, <1>2 DEF Best, LastTagRank, IsReferrer
<1>7. UNCHANGED selection => UNCHANGED <<BaseStarts, BaseAll>>
  BY <1>3, <1>4 DEF BaseStarts, BaseAll
<1>8. UNCHANGED loaded => UNCHANGED <<Shelter, Fixed>>
  BY <1>1 DEF Shelter, Fixed, Protected, ProtectedByAge, Pinned, TagLocked
<1>9. UNCHANGED <<selection, loaded>> => UNCHANGED Starts
  BY <1>1, <1>2 DEF Starts, ShouldKeep, Protected, ProtectedByAge, Pinned, TagLocked, IsReferrer
<1> QED
  BY <1>3, <1>4, <1>5, <1>6, <1>7, <1>8, <1>9

\* A set that holds what something starts with holds it by the sets alone.
LEMMA HoldsStays ==
  UNCHANGED config => \A S \in SUBSET Manifest, starts \in SUBSET Manifest :
                        Holds(S, starts)' <=> Holds(S, starts)
BY SetsStay DEF Holds

\* The first pass is over and done with.
LEMMA FirstPassStays ==
  UNCHANGED <<config, selection, condemned>> => (FirstPass' <=> FirstPass)
<1> SUFFICES ASSUME UNCHANGED <<config, selection, condemned>> PROVE FirstPass' <=> FirstPass
  OBVIOUS
<1>1. UNCHANGED <<Trailing, Content, BaseShelter, BaseStarts, BaseAll, opt>>
  BY SetsStay DEF config
<1> QED
  BY <1>1 DEF FirstPass, Holds

-----------------------------------------------------------------------------
(* The loops *)

\* What keepWithDependencies does with one digest.
LEMMA FollowDoes ==
  ASSUME TypeOK, NEW d \in Digest, Follow(d)
  PROVE  /\ UNCHANGED <<config, selection, pass, todo, loaded, condemned>>
         /\ d \in pending
         /\ \/ /\ d \in kept \/ d \notin Manifest
               /\ pending' = pending \ {d} /\ UNCHANGED <<stage, queue, kept>>
            \/ stage' = "error" /\ pending' = {} /\ UNCHANGED <<queue, kept>>
            \/ /\ d \in Manifest \ kept /\ stage' = stage
               /\ kept' = kept \cup {d} /\ pending' = (pending \ {d}) \cup lists[d]
               /\ queue' = IF stage = "referrers" THEN queue \cup {d} ELSE queue
BY MissingIsMissing DEF Follow, Digest

\* One turn of keepWithDependencies.
LEMMA FollowStep ==
  ASSUME IInv, NEW d \in Digest, Follow(d)
  PROVE  IInv'
<1> USE DEF IInv
<1>1. /\ UNCHANGED <<config, selection, pass, todo, loaded, condemned>>
      /\ UNCHANGED <<lists, subject, tagged, class, opt>>
      /\ d \in pending /\ stage \in {"rules", "referrers", "last"}
      /\ stage = "last" => pass = 3
  BY FollowDoes DEF config, graph, PhaseInv
<1>2. /\ UNCHANGED <<Trailing, Content, Reliant, Young, Best, BaseAll, Starts, Shelter, Fixed>>
      /\ FirstPass' <=> FirstPass
  BY <1>1, SetsStay, FirstPassStays
<1>3. /\ Starts \subseteq Manifest /\ Shelter \subseteq Manifest
      /\ \A m \in Manifest : Trailing[m] \subseteq Manifest /\ Content[m] \subseteq Manifest
      /\ kept \subseteq Manifest
  BY SetFacts DEF TypeOK
<1>4. ClassInv'
  BY <1>1 DEF ClassInv, TagLocked
<1>5. LockInv'
  BY <1>1 DEF LockInv, TagLocked
<1>6. CASE stage' = "error" /\ pending' = {} /\ UNCHANGED <<queue, kept>>
  <2>1. TypeOK'
    BY <1>1, <1>6 DEF TypeOK, GraphTypeOK, Stage
  <2>2. PhaseInv'
    BY <1>1, <1>6 DEF PhaseInv
  <2>3. GrowInv' /\ ReasonInv' /\ AllInv'
    BY <1>6 DEF GrowInv, ReasonInv, AllInv
  <2>4. CheckInv' /\ LastInv'
    BY <1>1, <1>2, <1>6 DEF CheckInv, LastInv
  <2> QED
    BY <1>4, <1>5, <2>1, <2>2, <2>3, <2>4
<1>7. CASE /\ stage' = stage /\ kept \subseteq kept' /\ kept' \subseteq Manifest /\ pending' \subseteq Digest
           /\ Reached \cap Manifest \subseteq Reached'
           /\ \A m \in kept' : Content[m] \subseteq Reached'
           /\ queue' \subseteq Manifest
           /\ stage = "referrers" => queue' \subseteq kept' /\ kept' \ queue' \subseteq kept \ queue
           /\ \A S \in SUBSET Manifest :
                (\A m \in S : Content[m] \subseteq S) /\ Reached \cap Manifest \subseteq S => Reached' \cap Manifest \subseteq S
  <2>1. TypeOK'
    BY <1>1, <1>7 DEF TypeOK, GraphTypeOK
  <2>2. PhaseInv'
    BY <1>1, <1>7 DEF PhaseInv
  <2>3. GrowInv'
    <3>1. stage = "rules" => Starts \ todo \subseteq Reached'
      BY <1>3, <1>7 DEF GrowInv
    <3>2. stage \in {"referrers", "last"} => Starts \subseteq kept'
      BY <1>7 DEF GrowInv
    <3>3. stage = "referrers" => (Shelter \cap Reliant) \ todo \subseteq Reached'
      BY <1>3, <1>7 DEF GrowInv
    <3>4. stage = "referrers" => \A m \in kept' \ queue' : Trailing[m] \subseteq Reached'
      BY <1>3, <1>7 DEF GrowInv
    <3> QED
      BY <1>1, <1>2, <1>7, <3>1, <3>2, <3>3, <3>4 DEF GrowInv
  <2>4. ReasonInv'
    <3>1. Reached # {}
      BY <1>1 DEF Reached
    <3>2. ASSUME Reasoned PROVE Reasoned'
      <4>1. ASSUME NEW S \in SUBSET Manifest, Holds(S, Starts \cup Shelter)
            PROVE  kept' \subseteq S /\ pending' \cap Manifest \subseteq S
        <5>1. kept \subseteq S /\ pending \cap Manifest \subseteq S
          BY <3>2, <4>1 DEF Reasoned
        <5>2. Reached' \cap Manifest \subseteq S
          BY <1>7, <4>1, <5>1 DEF Holds, Reached
        <5> QED
          BY <1>7, <5>2 DEF Reached
      <4>2. \A S : Holds(S, Starts \cup Shelter)' <=> Holds(S, Starts \cup Shelter)
        BY <1>2 DEF Holds
      <4> QED
        BY <4>1, <4>2 DEF Reasoned
    <3> QED
      BY <1>1, <1>2, <1>7, <3>1, <3>2 DEF ReasonInv
  <2>5. CheckInv'
    BY <1>1, <1>2, <1>7 DEF CheckInv
  <2>6. LastInv'
    <3>1. pass = 3 => Best \cap Reached' # {}
      BY <1>1, <1>7 DEF LastInv, Best, TypeOK, GraphTypeOK
    <3> QED
      BY <1>1, <1>2, <1>7, <3>1 DEF LastInv
  <2>7. AllInv'
    <3>1. kept = Manifest => kept' = Manifest
      BY <1>7
    <3>2. Reached # {}
      BY <1>1 DEF Reached
    <3>3. Reached \cap Young \cap Reliant # {} => Reached' \cap Young \cap Reliant # {}
      BY <1>7 DEF Young
    <3> QED
      BY <1>1, <1>2, <1>7, <3>1, <3>2, <3>3 DEF AllInv
  <2> QED
    BY <1>4, <1>5, <2>1, <2>2, <2>3, <2>4, <2>5, <2>6, <2>7
<1>8. CASE /\ d \in kept \/ d \notin Manifest
           /\ pending' = pending \ {d} /\ UNCHANGED <<stage, queue, kept>>
  BY <1>1, <1>7, <1>8 DEF GrowInv, Reached, PhaseInv, TypeOK, Content
<1>9. CASE /\ d \in Manifest \ kept /\ stage' = stage
           /\ kept' = kept \cup {d} /\ pending' = (pending \ {d}) \cup lists[d]
           /\ queue' = IF stage = "referrers" THEN queue \cup {d} ELSE queue
  <2>1. lists[d] \subseteq Digest /\ Content[d] \subseteq lists[d] /\ Content[d] = lists[d] \cap Manifest
    BY <1>9 DEF TypeOK, GraphTypeOK, Content
  <2>2. Reached' = Reached \cup lists[d]
    BY <1>1, <1>9 DEF Reached
  <2>3. \A m \in kept : Content[m] \subseteq Reached
    BY <1>1 DEF GrowInv
  <2>4. \A m \in kept' : Content[m] \subseteq Reached'
    BY <1>9, <2>1, <2>2, <2>3
  <2>5. d \in Reached
    BY <1>1 DEF Reached
  <2> QED
    BY <1>1, <1>3, <1>7, <1>9, <2>1, <2>2, <2>4, <2>5 DEF PhaseInv, TypeOK
<1> QED
  BY <1>6, <1>8, <1>9, FollowDoes

\* A loop that hands manifests to keepWithDependencies, each for a reason.
Hands(more) ==
  /\ UNCHANGED <<config, selection, stage, pass, loaded, condemned, kept>>
  /\ stage \in {"rules", "referrers"} /\ pending = {} /\ pending' = more
  /\ more \subseteq Manifest
  /\ todo' \subseteq todo /\ queue' \subseteq queue
  /\ stage = "rules" =>
       more \subseteq Starts /\ Starts \ todo' \subseteq (Starts \ todo) \cup more
  /\ stage = "referrers" =>
       /\ more \subseteq (Shelter \cap Reliant) \cup UNION {Trailing[m] : m \in kept}
       /\ (Shelter \cap Reliant) \ todo' \subseteq ((Shelter \cap Reliant) \ todo) \cup kept \cup more
       /\ \A m \in queue \ queue' : Trailing[m] \subseteq kept \cup more

\* The invariant survives the turns of such loops.
LEMMA HandsKeeps ==
  ASSUME IInv, NEW more, Hands(more)
  PROVE  IInv'
<1> USE DEF IInv, Hands
<1>1. /\ UNCHANGED <<lists, subject, tagged, class, opt>>
      /\ UNCHANGED <<Trailing, Content, Reliant, Young, Best, BaseAll, Starts, Shelter, Fixed>>
      /\ FirstPass' <=> FirstPass
  BY SetsStay, FirstPassStays DEF config, graph
<1>2. Reached = kept /\ Reached' = kept \cup more
  BY DEF Reached
<1>3. /\ Starts \subseteq Manifest /\ Shelter \subseteq Manifest /\ Shelter = Young \cup Fixed
      /\ \A m \in Manifest : Trailing[m] \subseteq Manifest /\ Content[m] \subseteq Manifest
      /\ kept \subseteq Manifest
  BY SetFacts DEF TypeOK
<1>4. TypeOK' /\ PhaseInv' /\ ClassInv' /\ LockInv'
  <2>1. pending' \subseteq Digest /\ todo' \subseteq Manifest /\ queue' \subseteq Manifest
    BY DEF Digest, TypeOK
  <2>2. TypeOK'
    BY <1>1, <2>1 DEF TypeOK, GraphTypeOK
  <2> QED
    BY <1>1, <2>2 DEF PhaseInv, ClassInv, LockInv, TagLocked
<1>5. GrowInv'
  BY <1>1, <1>2, <1>3 DEF GrowInv
<1>6. ReasonInv'
  <2>1. stage = "rules" /\ Reached' # {} => Starts # {}
    BY <1>2 DEF ReasonInv
  <2>2. ASSUME Reasoned PROVE Reasoned'
    <3>1. ASSUME NEW S \in SUBSET Manifest, Holds(S, Starts \cup Shelter)
          PROVE  kept \subseteq S /\ more \subseteq S
      <4>1. kept \subseteq S
        BY <2>2, <3>1 DEF Reasoned
      <4>2. Starts \subseteq S /\ Shelter \subseteq S /\ \A m \in kept : Trailing[m] \subseteq S
        BY <3>1, <4>1 DEF Holds
      <4> QED
        BY <4>1, <4>2
    <3>2. \A S : Holds(S, Starts \cup Shelter)' <=> Holds(S, Starts \cup Shelter)
      BY <1>1 DEF Holds
    <3> QED
      BY <3>1, <3>2 DEF Reasoned
  <2> QED
    BY <1>1, <2>1, <2>2 DEF ReasonInv
<1>7. CheckInv'
  BY <1>1 DEF CheckInv
<1>8. LastInv'
  <2>1. pass = 3 /\ stage # "error" => Best \cap Reached' # {}
    BY <1>2 DEF LastInv
  <2> QED
    BY <1>1, <2>1 DEF LastInv
<1>9. AllInv'
  <2>1. ASSUME Fixed \cap Reliant = {}, kept # {} => kept \cap Young \cap Reliant # {}, stage = "referrers"
        PROVE  Reached' # {} => Reached' \cap Young \cap Reliant # {}
    BY <1>2, <1>3, <2>1
  <2> QED
    BY <1>1, <1>2, <2>1 DEF AllInv
<1> QED
  BY <1>4, <1>5, <1>6, <1>7, <1>8, <1>9

\* The turns of the loops of decide and keepReferrers.
LEMMA LoopSteps ==
  ASSUME IInv, NEW m \in Manifest, Consider(m) \/ FollowReferrers(m) \/ ShelterReferrer(m)
  PROVE  IInv'
<1>1. todo \subseteq Manifest /\ queue \subseteq Manifest /\ kept \subseteq Manifest
  BY DEF IInv, TypeOK
<1>2. CASE Consider(m)
  <2>1. /\ UNCHANGED <<config, selection, stage, pass, loaded, condemned, kept, queue>>
        /\ stage = "rules" /\ pending = {} /\ todo' = todo \ {m}
        /\ pending' = IF m \in Starts THEN {m} ELSE {}
    BY <1>2 DEF Consider, Starts
  <2>2. Hands(pending')
    BY <1>1, <2>1 DEF Hands
  <2> QED
    BY <2>2, HandsKeeps
<1>3. CASE FollowReferrers(m)
  <2>1. /\ UNCHANGED <<config, selection, stage, pass, loaded, condemned, kept, todo>>
        /\ stage = "referrers" /\ pending = {} /\ m \in queue /\ queue' = queue \ {m}
        /\ pending' = Trailing[m] \ kept
    BY <1>3 DEF FollowReferrers, Trailing, Referrers
  <2>2. m \in kept /\ Trailing[m] \subseteq Manifest
    BY <2>1, SetFacts DEF IInv, PhaseInv
  <2>3. Hands(pending')
    BY <1>1, <2>1, <2>2 DEF Hands
  <2> QED
    BY <2>3, HandsKeeps
<1>4. CASE ShelterReferrer(m)
  <2>1. /\ UNCHANGED <<config, selection, stage, pass, loaded, condemned, kept, queue>>
        /\ stage = "referrers" /\ pending = {} /\ todo' = todo \ {m}
        /\ pending' = IF m \notin kept /\ m \in Shelter \cap Reliant THEN {m} ELSE {}
    BY <1>4 DEF ShelterReferrer, Shelter, Reliant
  <2>2. Hands(pending')
    BY <1>1, <2>1 DEF Hands
  <2> QED
    BY <2>2, HandsKeeps
<1> QED
  BY <1>2, <1>3, <1>4

-----------------------------------------------------------------------------
(* The end of a pass *)

\* What a pass comes to: a closed set, which is the least one unless
\* must_delete_everything kept it all, and which holds what the first pass kept.
Outcome(ks) ==
  /\ ks \in SUBSET Manifest
  /\ Starts \cup Shelter \subseteq ks
  /\ \A m \in ks : Content[m] \cup Trailing[m] \subseteq ks
  /\ \/ pass = 1 /\ opt.mustDeleteAll /\ BaseAll
     \/ pass = 2 /\ opt.mustDeleteAll
     \/ pass = 3
     \/ \A S \in SUBSET Manifest : Holds(S, Starts \cup Shelter) => ks \subseteq S
  /\ pass = 2 => Manifest \ condemned \subseteq ks
  /\ pass = 3 => ks = kept
  /\ opt.mustDeleteAll /\ pass # 1 =>
       \/ ks = Manifest
       \/ Starts = {} /\ Fixed \cap Reliant = {} /\ (ks # {} => ks \cap Young \cap Reliant # {})

\* What the first pass came to is remembered by what it condemned.
LEMMA FirstPassBegins ==
  ASSUME TypeOK, NEW ks, Outcome(ks), pass = 1, loaded = {},
         UNCHANGED <<config, selection>>, Manifest \ condemned' = ks
  PROVE  FirstPass'
<1>1. UNCHANGED <<Trailing, Content, BaseAll, BaseStarts, BaseShelter, opt>>
  BY SetsStay DEF config
<1>2. Starts = BaseStarts /\ Shelter = BaseShelter
  BY SetFacts
<1>3. CASE opt.mustDeleteAll /\ BaseAll
  BY <1>1, <1>3 DEF FirstPass
<1>4. CASE \A S \in SUBSET Manifest : Holds(S, Starts \cup Shelter) => ks \subseteq S
  BY <1>1, <1>2, <1>4 DEF FirstPass, Holds
<1>5. \/ opt.mustDeleteAll /\ BaseAll
      \/ \A S \in SUBSET Manifest : Holds(S, Starts \cup Shelter) => ks \subseteq S
  <2>1. \/ pass = 1 /\ opt.mustDeleteAll /\ BaseAll
        \/ pass = 2 /\ opt.mustDeleteAll
        \/ pass = 3
        \/ \A S \in SUBSET Manifest : Holds(S, Starts \cup Shelter) => ks \subseteq S
    BY DEF Outcome
  <2>2. pass # 2 /\ pass # 3
    OBVIOUS
  <2> QED
    BY <2>1, <2>2
<1> QED
  BY <1>3, <1>4, <1>5

\* The invariant survives the end of a pass.
LEMMA EndPassKeeps ==
  ASSUME IInv, NEW ks, Outcome(ks), EndPass(ks), stage \in {"rules", "referrers"}, pending = {},
         UNCHANGED <<config, selection, pending, queue, loaded>>
  PROVE  IInv'
<1> USE DEF IInv
<1>1. /\ UNCHANGED <<lists, subject, tagged, class, opt>>
      /\ UNCHANGED <<Trailing, Content, Reliant, Young, Best, BaseAll, BaseStarts, BaseShelter, Starts, Shelter, Fixed>>
  BY SetsStay DEF config, graph
<1>2. /\ Starts \subseteq Manifest /\ Shelter \subseteq Manifest
      /\ loaded = {} => Starts = BaseStarts /\ Shelter = BaseShelter
      /\ ks \subseteq Manifest
  BY SetFacts DEF Outcome
<1>3. ClassInv'
  BY <1>1 DEF ClassInv, TagLocked
<1>4. CASE pass = 1 /\ ks = Manifest
  <2>1. /\ stage' = "rules" /\ condemned' = {} /\ pass' = 2 /\ kept' = {} /\ todo' = Manifest
    BY <1>4 DEF EndPass
  <2>2. TypeOK' /\ PhaseInv' /\ LockInv'
    BY <1>1, <1>4, <2>1 DEF TypeOK, GraphTypeOK, Stage, PhaseInv, LockInv
  <2>3. Reached' = {}
    BY <2>1 DEF Reached
  <2>4. GrowInv' /\ ReasonInv' /\ LastInv' /\ AllInv'
    BY <1>1, <1>2, <2>1, <2>3 DEF GrowInv, ReasonInv, Reasoned, LastInv, AllInv
  <2>5. FirstPass'
    <3>1. loaded = {}
      BY <1>4 DEF PhaseInv
    <3>2. Manifest \ condemned' = ks
      BY <1>4, <2>1
    <3> QED
      BY <1>4, <3>1, <3>2, FirstPassBegins
  <2> QED
    BY <1>3, <2>1, <2>2, <2>4, <2>5 DEF CheckInv
<1>5. CASE pass = 1 /\ ks # Manifest
  <2>1. stage' = "locks" /\ condemned' = Manifest \ ks /\ kept' = ks /\ UNCHANGED <<pass, todo>>
    BY <1>5 DEF EndPass
  <2>2. TypeOK' /\ PhaseInv' /\ LockInv'
    BY <1>1, <1>2, <1>5, <2>1 DEF TypeOK, GraphTypeOK, Stage, PhaseInv, LockInv
  <2>3. GrowInv' /\ ReasonInv' /\ LastInv' /\ AllInv'
    BY <1>1, <1>5, <2>1 DEF GrowInv, Closed, Reached, ReasonInv, LastInv, AllInv, Outcome
  <2>4. FirstPass'
    <3>1. loaded = {} /\ Manifest \ condemned' = ks
      BY <1>2, <1>5, <2>1 DEF PhaseInv
    <3> QED
      BY <1>5, <3>1, FirstPassBegins
  <2> QED
    BY <1>3, <1>5, <2>1, <2>2, <2>3, <2>4 DEF CheckInv
<1>6. CASE pass = 2
  <2>1. /\ condemned' = condemned /\ kept' = ks /\ UNCHANGED <<pass, todo>>
        /\ stage' = IF ks # {} /\ opt.protectsLastTag THEN "last" ELSE "decided"
    BY <1>6 DEF EndPass
  <2>2. Reached' = ks /\ stage' \in {"last", "decided"}
    BY <2>1 DEF Reached
  <2>3. TypeOK' /\ PhaseInv' /\ LockInv'
    BY <1>1, <1>2, <1>6, <2>1, <2>2 DEF TypeOK, GraphTypeOK, Stage, PhaseInv, LockInv, TagLocked
  <2>4. GrowInv'
    BY <1>1, <2>1, <2>2 DEF GrowInv, Closed, Outcome
  <2>5. ReasonInv'
    <3>1. \A S : Holds(S, Starts \cup Shelter)' <=> Holds(S, Starts \cup Shelter)
      BY <1>1 DEF Holds
    <3> QED
      BY <1>1, <1>6, <2>1, <2>2, <3>1 DEF ReasonInv, Reasoned, Outcome
  <2>6. CheckInv'
    <3>1. FirstPass' <=> FirstPass
      BY <2>1, FirstPassStays
    <3> QED
      BY <1>1, <1>6, <2>1, <2>2, <3>1 DEF CheckInv, Outcome
  <2>7. LastInv'
    BY <1>1, <1>6, <2>1, <2>2 DEF LastInv
  <2>8. AllInv'
    BY <1>1, <1>6, <2>1, <2>2 DEF AllInv, Outcome
  <2> QED
    BY <1>3, <2>3, <2>4, <2>5, <2>6, <2>7, <2>8
<1>7. CASE pass = 3
  <2>1. condemned' = condemned /\ kept' = kept /\ UNCHANGED <<pass, todo>> /\ stage' = "decided" /\ ks = kept
    BY <1>7 DEF EndPass, Outcome
  <2>2. Reached' = kept /\ Reached = kept
    BY <2>1 DEF Reached
  <2>3. TypeOK' /\ PhaseInv' /\ LockInv'
    BY <1>1, <1>7, <2>1 DEF TypeOK, GraphTypeOK, Stage, PhaseInv, LockInv, TagLocked
  <2>4. GrowInv' /\ ReasonInv'
    BY <1>1, <1>7, <2>1, <2>2 DEF GrowInv, Closed, ReasonInv, Outcome
  <2>5. CheckInv'
    <3>1. FirstPass' <=> FirstPass
      BY <2>1, FirstPassStays
    <3> QED
      BY <1>1, <1>7, <2>1, <3>1 DEF CheckInv
  <2>6. LastInv' /\ AllInv'
    BY <1>1, <1>7, <2>1, <2>2 DEF LastInv, AllInv, Outcome
  <2> QED
    BY <1>3, <2>3, <2>4, <2>5, <2>6
<1> QED
  BY <1>4, <1>5, <1>6, <1>7 DEF TypeOK

\* The loop of decide is over.
LEMMA RulesDoneStep == IInv /\ RulesDone => IInv'
<1> SUFFICES ASSUME IInv, RulesDone PROVE IInv'
  OBVIOUS
<1> USE DEF IInv
<1>1. /\ stage = "rules" /\ pending = {} /\ todo = {} /\ pass \in {1, 2}
      /\ UNCHANGED <<config, selection, pending, loaded>>
  BY DEF RulesDone, PhaseInv
<1>2. /\ Starts \subseteq kept /\ kept \subseteq Manifest /\ (kept # {} => Starts # {})
      /\ \A m \in kept : Content[m] \subseteq kept
      /\ Reasoned
  BY <1>1, SetFacts DEF GrowInv, ReasonInv, Reached, TypeOK
<1>3. /\ Starts \subseteq Manifest /\ Shelter \subseteq Manifest /\ Shelter = Young \cup Fixed
      /\ Shelter \ Reliant \subseteq Starts /\ BaseStarts \subseteq Starts /\ BaseFixed \subseteq Fixed
      /\ loaded = {} => Starts = BaseStarts /\ Fixed = BaseFixed
      /\ \A m \in Manifest : Trailing[m] \subseteq Manifest /\ Content[m] \subseteq Manifest
  BY SetFacts
<1>4. AllOrNothing <=> opt.mustDeleteAll /\ (kept # {} \/ Fixed \cap Reliant # {})
  BY DEF AllOrNothing, Fixed, Reliant
<1>5. CASE AllOrNothing
  <2>1. EndPass(Manifest) /\ UNCHANGED queue
    BY <1>5 DEF RulesDone
  <2>2. pass = 1 => opt.mustDeleteAll /\ BaseAll
    BY <1>2, <1>3, <1>4, <1>5 DEF BaseAll, PhaseInv
  <2>3. opt.mustDeleteAll
    BY <1>4, <1>5
  <2>4. Outcome(Manifest)
    <3>1. pass = 2 => Manifest \ condemned \subseteq Manifest
      OBVIOUS
    <3>2. \A m \in Manifest : Content[m] \cup Trailing[m] \subseteq Manifest
      BY <1>3
    <3>3. pass # 3
      BY <1>1
    <3>4. pass = 1 \/ pass = 2
      BY <1>1
    <3> QED
      BY <1>3, <2>2, <2>3, <3>1, <3>2, <3>3, <3>4 DEF Outcome
  <2> QED
    BY <1>1, <2>1, <2>4, EndPassKeeps
<1>6. CASE ~AllOrNothing
  <2>1. stage' = "referrers" /\ queue' = kept /\ todo' = Manifest /\ UNCHANGED <<pass, kept, condemned>>
    BY <1>6 DEF RulesDone, BeginReferrers
  <2>2. /\ UNCHANGED <<lists, subject, tagged, class, opt>>
        /\ UNCHANGED <<Trailing, Content, Reliant, Young, Best, BaseAll, Starts, Shelter, Fixed>>
        /\ FirstPass' <=> FirstPass
    BY <1>1, <2>1, SetsStay, FirstPassStays DEF config, graph
  <2>3. Reached' = kept /\ Reached = kept
    BY <1>1, <2>1 DEF Reached
  <2>4. TypeOK' /\ PhaseInv' /\ ClassInv' /\ LockInv'
    BY <1>1, <2>1, <2>2 DEF TypeOK, GraphTypeOK, Stage, PhaseInv, ClassInv, LockInv, TagLocked
  <2>5. GrowInv'
    BY <1>1, <1>2, <1>3, <2>1, <2>2, <2>3 DEF GrowInv
  <2>6. ReasonInv'
    <3>1. \A S : Holds(S, Starts \cup Shelter)' <=> Holds(S, Starts \cup Shelter)
      BY <2>2 DEF Holds
    <3> QED
      BY <1>1, <1>2, <2>1, <2>2, <3>1 DEF ReasonInv, Reasoned
  <2>7. CheckInv'
    <3>1. opt.mustDeleteAll => ~BaseAll
      BY <1>2, <1>3, <1>4, <1>6 DEF BaseAll
    <3> QED
      BY <1>1, <2>1, <2>2, <3>1 DEF CheckInv
  <2>8. LastInv'
    BY <1>1, <2>1 DEF LastInv
  <2>9. AllInv'
    BY <1>2, <1>4, <1>6, <2>1, <2>2, <2>3 DEF AllInv
  <2> QED
    BY <2>4, <2>5, <2>6, <2>7, <2>8, <2>9
<1> QED
  BY <1>5, <1>6

\* The loops of keepReferrers are over.
LEMMA ReferrersDoneStep == IInv /\ ReferrersDone => IInv'
<1> SUFFICES ASSUME IInv, ReferrersDone PROVE IInv'
  OBVIOUS
<1> USE DEF IInv
<1>1. /\ stage = "referrers" /\ pending = {} /\ queue = {} /\ todo = {}
      /\ UNCHANGED <<config, selection, pending, queue, loaded>>
      /\ EndPass(kept)
  BY DEF ReferrersDone
<1>2. /\ Starts \subseteq Manifest /\ Shelter \subseteq Manifest /\ Shelter \ Reliant \subseteq Starts
      /\ BaseStarts \subseteq Starts /\ BaseShelter \subseteq Shelter
      /\ kept \subseteq Manifest /\ pass \in 1..3
  BY SetFacts DEF TypeOK
<1>3. Reached = kept
  BY <1>1 DEF Reached
<1>4. Starts \cup Shelter \subseteq kept
  BY <1>1, <1>2, <1>3 DEF GrowInv
<1>5. \A m \in kept : Content[m] \cup Trailing[m] \subseteq kept
  BY <1>1, <1>3 DEF GrowInv
<1>6. pass # 3 => \A S \in SUBSET Manifest : Holds(S, Starts \cup Shelter) => kept \subseteq S
  BY <1>1 DEF ReasonInv, Reasoned
<1>7. pass = 2 => Manifest \ condemned \subseteq kept
  <2>1. pass = 2 => FirstPass /\ ~(opt.mustDeleteAll /\ BaseAll)
    BY <1>1 DEF CheckInv
  <2>2. Holds(kept, BaseStarts \cup BaseShelter)
    BY <1>2, <1>4, <1>5 DEF Holds
  <2> QED
    BY <1>2, <2>1, <2>2 DEF FirstPass
<1>8. opt.mustDeleteAll /\ pass # 1 =>
        \/ kept = Manifest
        \/ Starts = {} /\ Fixed \cap Reliant = {} /\ (kept # {} => kept \cap Young \cap Reliant # {})
  BY <1>1, <1>3 DEF AllInv
<1>9. Outcome(kept)
  BY <1>2, <1>4, <1>5, <1>6, <1>7, <1>8 DEF Outcome
<1> QED
  BY <1>1, <1>9, EndPassKeeps

-----------------------------------------------------------------------------
(* pruneRepository *)

\* The decision begins, or the rule fails on a broken image.
LEMMA StartStep == IInv /\ Start => IInv'
<1> SUFFICES ASSUME IInv, Start PROVE IInv'
  OBVIOUS
<1> USE DEF IInv
<1>1. /\ stage = "start" /\ pass = 1 /\ loaded = {} /\ pending = {}
      /\ UNCHANGED <<config, pending, queue, loaded, condemned>>
      /\ UNCHANGED <<lists, subject, tagged, class, opt>>
  BY DEF Start, PhaseInv, config, graph
<1>2. selection' \subseteq Manifest
  BY DEF Start, TypeOK
<1>3. ClassInv'
  BY <1>1 DEF ClassInv, TagLocked
<1>4. CASE BeginPass(1)
  <2>1. stage' = "rules" /\ pass' = 1 /\ todo' = Manifest /\ kept' = {} /\ pending' = {} /\ loaded' = {}
    BY <1>1, <1>4 DEF BeginPass
  <2>2. TypeOK'
    BY <1>1, <1>2, <2>1 DEF TypeOK, GraphTypeOK, Stage
  <2>3. Reached' = {} /\ Starts' \subseteq Manifest
    BY <2>1, <2>2 DEF Reached, Starts
  <2>4. PhaseInv' /\ GrowInv' /\ ReasonInv'
    BY <2>1, <2>3 DEF PhaseInv, GrowInv, ReasonInv, Reasoned
  <2>5. CheckInv' /\ LastInv' /\ AllInv' /\ LockInv'
    BY <2>1 DEF CheckInv, LastInv, AllInv, LockInv
  <2> QED
    BY <1>3, <2>2, <2>4, <2>5
<1>5. CASE stage' = "error" /\ UNCHANGED <<pass, todo, kept>>
  <2>1. TypeOK'
    BY <1>1, <1>2, <1>5 DEF TypeOK, GraphTypeOK, Stage
  <2>2. PhaseInv' /\ GrowInv' /\ ReasonInv'
    BY <1>1, <1>5 DEF PhaseInv, GrowInv, ReasonInv
  <2>3. CheckInv' /\ LastInv' /\ AllInv' /\ LockInv'
    BY <1>1, <1>5 DEF CheckInv, LastInv, AllInv, LockInv
  <2> QED
    BY <1>3, <2>1, <2>2, <2>3
<1> QED
  BY <1>4, <1>5 DEF Start

\* The tag locks of what the first pass condemned become known.
LEMMA LoadTagLocksStep == IInv /\ LoadTagLocks => IInv'
<1> SUFFICES ASSUME IInv, LoadTagLocks PROVE IInv'
  OBVIOUS
<1> USE DEF IInv
<1>1. /\ stage = "locks" /\ pass = 1 /\ loaded = {} /\ pending = {}
      /\ UNCHANGED <<config, selection, pending, queue, condemned>>
      /\ UNCHANGED <<lists, subject, tagged, class, opt>>
  BY DEF LoadTagLocks, PhaseInv, config, graph
<1>2. ClassInv'
  BY <1>1 DEF ClassInv, TagLocked
<1>3. FirstPass' <=> FirstPass
  BY <1>1, FirstPassStays
<1>4. condemned \subseteq LockCandidates /\ LockCandidates \subseteq Manifest
  BY DEF LockCandidates, TypeOK
<1>5. CASE /\ BeginPass(2)
           /\ loaded' = IF opt.protectsLastTag \/ LockCandidates \cap tagged = {} THEN {} ELSE LockCandidates
  <2>1. stage' = "rules" /\ pass' = 2 /\ todo' = Manifest /\ kept' = {} /\ pending' = {}
    BY <1>1, <1>5 DEF BeginPass
  <2>2. TypeOK'
    BY <1>1, <1>4, <1>5, <2>1 DEF TypeOK, GraphTypeOK, Stage
  <2>3. Reached' = {} /\ Starts' \subseteq Manifest
    BY <2>1, <2>2 DEF Reached, Starts
  <2>4. PhaseInv' /\ GrowInv' /\ ReasonInv'
    BY <2>1, <2>3 DEF PhaseInv, GrowInv, ReasonInv, Reasoned
  <2>5. CheckInv'
    <3>1. FirstPass
      BY <1>1 DEF CheckInv
    <3>2. ~opt.protectsLastTag => condemned \cap tagged \subseteq loaded'
      BY <1>4, <1>5
    <3> QED
      BY <1>1, <1>3, <2>1, <3>1, <3>2 DEF CheckInv
  <2>6. LastInv' /\ AllInv'
    BY <2>1 DEF LastInv, AllInv
  <2>7. LockInv'
    <3>1. ASSUME opt.mustDeleteAll, ~opt.includeLocked PROVE {m \in Manifest : TagLocked(m)} \subseteq loaded'
      <4>1. LockCandidates = Manifest
        BY <3>1 DEF LockCandidates
      <4>2. \A m \in Manifest : TagLocked(m) => m \in tagged /\ ~opt.protectsLastTag
        BY DEF ClassInv
      <4> QED
        BY <1>5, <4>1, <4>2
    <3> QED
      BY <1>1, <3>1 DEF LockInv, TagLocked
  <2> QED
    BY <1>2, <2>2, <2>4, <2>5, <2>6, <2>7
<1>6. CASE stage' \in {"error", "gone"} /\ UNCHANGED <<pass, todo, loaded, kept>>
  <2>1. TypeOK'
    BY <1>1, <1>6 DEF TypeOK, GraphTypeOK, Stage
  <2>2. PhaseInv' /\ GrowInv' /\ ReasonInv'
    BY <1>1, <1>6 DEF PhaseInv, GrowInv, ReasonInv
  <2>3. CheckInv' /\ LastInv' /\ AllInv' /\ LockInv'
    BY <1>1, <1>6 DEF CheckInv, LastInv, AllInv, LockInv
  <2> QED
    BY <1>2, <2>1, <2>2, <2>3
<1> QED
  BY <1>5, <1>6 DEF LoadTagLocks

\* The last tag is looked for.
LEMMA KeepLastTagStep == IInv /\ KeepLastTag => IInv'
<1> SUFFICES ASSUME IInv, KeepLastTag PROVE IInv'
  OBVIOUS
<1> USE DEF IInv
<1>1. /\ stage = "last" /\ pass = 2 /\ pending = {} /\ kept # {}
      /\ UNCHANGED <<config, selection, todo, queue, loaded, condemned, kept>>
      /\ UNCHANGED <<lists, subject, tagged, class, opt>>
  BY DEF KeepLastTag, LastInv, config, graph
<1>2. /\ UNCHANGED <<Trailing, Content, Reliant, Young, Best, BaseAll, Starts, Shelter, Fixed>>
      /\ FirstPass' <=> FirstPass
  BY <1>1, SetsStay, FirstPassStays
<1>3. ClassInv' /\ LockInv'
  BY <1>1 DEF ClassInv, LockInv, TagLocked, KeepLastTag
<1>4. Reached = kept
  BY <1>1 DEF Reached
<1>5. CASE (tagged = {} \/ tagged \cap kept # {}) /\ stage' = "decided" /\ UNCHANGED <<pass, pending>>
  <2>1. Reached' = kept
    BY <1>1, <1>5 DEF Reached
  <2>2. TypeOK' /\ PhaseInv'
    BY <1>1, <1>5 DEF TypeOK, GraphTypeOK, Stage, PhaseInv
  <2>3. GrowInv'
    BY <1>1, <1>2, <1>4, <1>5, <2>1 DEF GrowInv, Closed
  <2>4. ReasonInv'
    <3>1. \A S : Holds(S, Starts \cup Shelter)' <=> Holds(S, Starts \cup Shelter)
      BY <1>2 DEF Holds
    <3> QED
      BY <1>1, <1>2, <1>5, <3>1 DEF ReasonInv, Reasoned
  <2>5. CheckInv'
    BY <1>1, <1>2, <1>5 DEF CheckInv
  <2>6. LastInv' /\ AllInv'
    BY <1>1, <1>2, <1>4, <1>5, <2>1 DEF LastInv, AllInv
  <2> QED
    BY <1>3, <2>2, <2>3, <2>4, <2>5, <2>6
<1>6. ASSUME NEW last \in Best, pass' = 3, pending' = {last}, UNCHANGED stage
      PROVE  IInv'
  <2>1. last \in Manifest /\ Reached' = kept \cup {last}
    BY <1>1, <1>6 DEF Best, Reached, TypeOK, GraphTypeOK
  <2>2. TypeOK' /\ PhaseInv'
    <3>1. pending' \subseteq Digest
      BY <1>6, <2>1 DEF Digest
    <3> QED
      BY <1>1, <1>6, <3>1 DEF TypeOK, GraphTypeOK, PhaseInv
  <2>3. GrowInv'
    BY <1>1, <1>2, <1>4, <1>6, <2>1 DEF GrowInv
  <2>4. ReasonInv'
    BY <1>1, <1>6 DEF ReasonInv
  <2>5. CheckInv'
    BY <1>1, <1>2, <1>6 DEF CheckInv
  <2>6. LastInv'
    BY <1>1, <1>2, <1>6, <2>1 DEF LastInv
  <2>7. AllInv'
    BY <1>1, <1>2, <1>4, <1>6, <2>1 DEF AllInv
  <2> QED
    BY <1>3, <2>2, <2>3, <2>4, <2>5, <2>6, <2>7
<1> QED
  BY <1>5, <1>6 DEF KeepLastTag, Best

\* Its referrers are looked for.
LEMMA LastTagKeptStep == IInv /\ LastTagKept => IInv'
<1> SUFFICES ASSUME IInv, LastTagKept PROVE IInv'
  OBVIOUS
<1> USE DEF IInv
<1>1. /\ stage = "last" /\ pass = 3 /\ pending = {}
      /\ stage' = "referrers" /\ queue' = kept /\ todo' = Manifest
      /\ UNCHANGED <<config, selection, pass, pending, loaded, condemned, kept>>
      /\ UNCHANGED <<lists, subject, tagged, class, opt>>
  BY DEF LastTagKept, BeginReferrers, config, graph
<1>2. /\ UNCHANGED <<Trailing, Content, Reliant, Young, Best, BaseAll, Starts, Shelter, Fixed>>
      /\ FirstPass' <=> FirstPass
  BY <1>1, SetsStay, FirstPassStays
<1>3. TypeOK' /\ PhaseInv' /\ ClassInv' /\ LockInv'
  BY <1>1 DEF TypeOK, GraphTypeOK, Stage, PhaseInv, ClassInv, LockInv, TagLocked
<1>4. Reached = kept /\ Reached' = kept
  BY <1>1 DEF Reached
<1>5. Shelter \subseteq Manifest
  BY DEF Shelter
<1>6. GrowInv'
  BY <1>1, <1>2, <1>4, <1>5 DEF GrowInv
<1>7. ReasonInv' /\ LastInv' /\ AllInv'
  BY <1>1, <1>2, <1>4 DEF ReasonInv, LastInv, AllInv
<1>8. CheckInv'
  BY <1>1, <1>2 DEF CheckInv
<1> QED
  BY <1>3, <1>6, <1>7, <1>8

\* Nothing happens.
LEMMA StutterStep == IInv /\ UNCHANGED vars => IInv'
<1> SUFFICES ASSUME IInv, UNCHANGED vars PROVE IInv'
  OBVIOUS
<1> USE DEF IInv
<1>1. /\ UNCHANGED <<config, selection, stage, pass, todo, pending, queue, loaded, condemned, kept>>
      /\ UNCHANGED <<lists, subject, tagged, class, opt>>
  BY DEF vars, config, graph
<1>2. /\ UNCHANGED <<Trailing, Content, Reliant, Young, Best, BaseAll, Starts, Shelter, Fixed>>
      /\ FirstPass' <=> FirstPass
  BY <1>1, SetsStay, FirstPassStays
<1>3. UNCHANGED Reached
  BY <1>1 DEF Reached
<1>4. TypeOK' /\ PhaseInv' /\ ClassInv' /\ LockInv'
  BY <1>1 DEF TypeOK, GraphTypeOK, PhaseInv, ClassInv, LockInv, TagLocked
<1>5. ReasonInv'
  <2>1. \A S : Holds(S, Starts \cup Shelter)' <=> Holds(S, Starts \cup Shelter)
    BY <1>2 DEF Holds
  <2> QED
    BY <1>1, <1>2, <1>3, <2>1 DEF ReasonInv, Reasoned
<1>6. GrowInv' /\ CheckInv' /\ LastInv' /\ AllInv'
  BY <1>1, <1>2, <1>3 DEF GrowInv, Closed, CheckInv, LastInv, AllInv
<1> QED
  BY <1>4, <1>5, <1>6

\* The invariant holds of every repository, rule and registry.
LEMMA InitInv == Init => IInv
<1> SUFFICES ASSUME Init PROVE IInv
  OBVIOUS
<1>1. /\ selection = Manifest /\ stage = "start" /\ pass = 1
      /\ todo = {} /\ pending = {} /\ queue = {} /\ loaded = {} /\ condemned = {} /\ kept = {}
  BY DEF Init
<1>2. GraphTypeOK
  BY MayTagManifests DEF Init, GraphInit, GraphTypeOK
<1>3. class \in [Manifest -> Class] /\ opt \in Option
  BY KnownClasses, KnownOptions DEF Init
<1>4. TypeOK
  BY <1>1, <1>2, <1>3 DEF TypeOK, Stage
<1>5. ClassInv
  BY DEF Init, ClassInv, TagLocked
<1>6. PhaseInv /\ GrowInv /\ ReasonInv /\ CheckInv /\ LastInv /\ AllInv /\ LockInv
  BY <1>1 DEF PhaseInv, GrowInv, ReasonInv, CheckInv, LastInv, AllInv, LockInv
<1> QED
  BY <1>4, <1>5, <1>6 DEF IInv

\* The invariant holds throughout.
LEMMA Invariance == Spec => []IInv
<1>1. Init => IInv
  BY InitInv
<1>2. IInv /\ [Next]_vars => IInv'
  <2> SUFFICES ASSUME IInv, [Next]_vars PROVE IInv'
    OBVIOUS
  <2>1. ASSUME NEW d \in Digest, Follow(d) PROVE IInv'
    BY <2>1, FollowStep
  <2>2. ASSUME NEW m \in Manifest, Consider(m) \/ FollowReferrers(m) \/ ShelterReferrer(m) PROVE IInv'
    BY <2>2, LoopSteps
  <2>3. CASE UNCHANGED vars
    BY <2>3, StutterStep
  <2> QED
    BY <2>1, <2>2, <2>3, StartStep, RulesDoneStep, ReferrersDoneStep, LoadTagLocksStep,
       KeepLastTagStep, LastTagKeptStep DEF Next
<1> QED
  BY <1>1, <1>2, PTL DEF Spec

-----------------------------------------------------------------------------
(* The properties *)

\* What the decision is made of has the types the code gives it.
THEOREM TypeCorrect == Spec => []TypeOK
<1>1. IInv => TypeOK
  BY DEF IInv
<1> QED
  BY <1>1, Invariance, PTL

\* When it is decided, nothing is on its way any more.
LEMMA WhenDecided ==
  ASSUME IInv, Decided
  PROVE  /\ pending = {} /\ Reached = kept /\ kept \subseteq Manifest /\ pass \in {2, 3}
         /\ Starts \subseteq kept /\ Closed /\ \A m \in kept : Content[m] \subseteq kept
         /\ Manifest \ condemned \subseteq kept
<1>1. pending = {} /\ Reached = kept /\ kept \subseteq Manifest /\ pass \in {2, 3}
  BY DEF IInv, Decided, PhaseInv, Reached, TypeOK
<1>2. Starts \subseteq kept /\ Closed /\ \A m \in kept : Content[m] \subseteq kept
  BY <1>1 DEF IInv, Decided, GrowInv
<1>3. Manifest \ condemned \subseteq kept
  BY DEF IInv, Decided, CheckInv
<1> QED
  BY <1>1, <1>2, <1>3

\* What the decision keeps is closed under dependencies and referrers, and
\* nothing is kept that does not follow from what the rules, the protections and
\* a selection keep: the order of the loops and of the stack has no say.
THEOREM AlwaysKeepsWhatItMust == Spec => []KeepsWhatItMust
<1>1. ASSUME IInv PROVE KeptClosed
  <2> SUFFICES ASSUME Decided, NEW m \in kept
               PROVE  /\ lists[m] \cap Manifest \subseteq kept
                      /\ \A r \in Referrers(m) : r \in kept \/ (opt.deleteOrphaned /\ r \in Orphans)
    BY DEF KeptClosed
  <2>1. m \in Manifest /\ Content[m] \subseteq kept /\ Trailing[m] \subseteq kept
    BY <1>1, WhenDecided DEF Closed
  <2>2. Content[m] = lists[m] \cap Manifest
    BY <2>1 DEF Content
  <2>3. Trailing[m] = {r \in Referrers(m) : ~(opt.deleteOrphaned /\ r \in Orphans)}
    BY <2>1 DEF Trailing
  <2> QED
    BY <2>1, <2>2, <2>3
<1>2. ASSUME IInv PROVE NothingElseKept
  <2> SUFFICES ASSUME Decided, ~opt.mustDeleteAll, pass = 2, NEW S \in SUBSET Manifest, KeepClosed(S)
               PROVE  kept \subseteq S
    BY DEF NothingElseKept
  <2>1. Reasoned
    BY <1>2 DEF IInv, ReasonInv, Decided
  <2>2. Starts \cup Shelter \subseteq S
    BY DEF KeepClosed, Starts, Shelter
  <2>3. \A m \in S : Content[m] \cup Trailing[m] \subseteq S
    <3> TAKE m \in S
    <3>1. Content[m] = lists[m] \cap Manifest /\ Trailing[m] = {r \in Referrers(m) : ~(opt.deleteOrphaned /\ r \in Orphans)}
      BY DEF Content, Trailing
    <3> QED
      BY <3>1 DEF KeepClosed
  <2> QED
    BY <2>1, <2>2, <2>3 DEF Reasoned, Holds
<1> QED
  BY <1>1, <1>2, Invariance, PTL DEF KeepsWhatItMust

\* Nothing that is protected is deleted, although the tag locks were listed for
\* the first decision only: the second condemns nothing the first one kept.
THEOREM AlwaysDeletesOnlyUnprotected == Spec => []DeletesOnlyUnprotected
<1>1. ASSUME IInv, Decided, ~opt.protectsLastTag PROVE Deleted \cap tagged \subseteq loaded
  <2>1. condemned \cap tagged \subseteq loaded
    BY <1>1, WhenDecided DEF IInv, CheckInv
  <2> QED
    BY <1>1, <2>1, WhenDecided DEF Deleted
<1>2. ASSUME IInv, Decided, NEW m \in Deleted
      PROVE  /\ ~ProtectedByAge(m) /\ class[m] # "pinned"
             /\ TagLocked(m) => opt.includeLocked
  <2>1. m \in Manifest /\ m \notin Shelter
    BY <1>2, WhenDecided DEF Deleted, Closed
  <2>2. ~Protected(m)
    BY <2>1 DEF Shelter
  <2>3. ASSUME TagLocked(m), ~opt.includeLocked PROVE FALSE
    <3>1. m \in tagged /\ ~opt.protectsLastTag
      BY <1>2, <2>1, <2>3 DEF IInv, ClassInv
    <3>2. m \in loaded
      BY <1>1, <1>2, <3>1
    <3> QED
      BY <2>2, <2>3, <3>2 DEF Protected, Pinned
  <2> QED
    BY <2>2, <2>3 DEF Protected, Pinned
<1>3. IInv => DeletesOnlyUnprotected
  BY <1>1, <1>2 DEF DeletesOnlyUnprotected, ProtectedSurvive, DeletedWereChecked
<1> QED
  BY <1>3, Invariance, PTL

\* Under must_delete_everything the whole repository is kept, or what is kept
\* is a fresh referrer's and nothing else is protected.
THEOREM EverythingOrNothing == Spec => []MustDeleteEverythingIsAllOrNothing
<1>1. ASSUME IInv, Decided, opt.mustDeleteAll, kept # {}, kept # Manifest
      PROVE  /\ \E r \in kept : IsReferrer(r) /\ ProtectedByAge(r)
             /\ \A m \in Manifest :
                  /\ class[m] # "pinned"
                  /\ TagLocked(m) => opt.includeLocked
                  /\ ProtectedByAge(m) => IsReferrer(m)
  <2>1. pass # 1 /\ Reached = kept /\ condemned # {}
    BY <1>1, WhenDecided
  <2>2. Starts = {} /\ Fixed \cap Reliant = {} /\ kept \cap Young \cap Reliant # {}
    BY <1>1, <2>1 DEF IInv, AllInv, Decided
  <2>3. Shelter = Young \cup Fixed /\ Shelter \ Reliant \subseteq Starts
    BY <1>1, SetFacts DEF IInv
  <2>4. Fixed = {} /\ Young \subseteq Reliant
    BY <2>2, <2>3
  <2>5. \E r \in kept : IsReferrer(r) /\ ProtectedByAge(r)
    BY <2>2 DEF Young, Reliant
  <2>6. ASSUME NEW m \in Manifest
        PROVE  class[m] # "pinned" /\ (TagLocked(m) => opt.includeLocked) /\ (ProtectedByAge(m) => IsReferrer(m))
    <3>1. ~Pinned(m) /\ (ProtectedByAge(m) => IsReferrer(m))
      BY <2>4 DEF Fixed, Young, Reliant
    <3>2. TagLocked(m) /\ ~opt.includeLocked => m \in loaded
      BY <1>1, <2>1 DEF IInv, LockInv
    <3> QED
      BY <3>1, <3>2 DEF Pinned
  <2> QED
    BY <2>5, <2>6
<1>2. IInv => MustDeleteEverythingIsAllOrNothing
  BY <1>1 DEF MustDeleteEverythingIsAllOrNothing
<1> QED
  BY <1>2, Invariance, PTL

\* A repository that the registry would not let lose its last tag keeps one, the
\* best there is, unless nothing of it is kept at all.
THEOREM LastTagAlwaysSurvives == Spec => []LastTagSurvives
<1>1. ASSUME IInv, Decided, opt.protectsLastTag, kept # {}, tagged # {}
      PROVE  /\ kept \cap tagged # {}
             /\ pass = 3 => \E m \in kept \cap tagged : \A n \in tagged : LastTagRank(m) <= LastTagRank(n)
  <2>1. Reached = kept /\ pass \in {2, 3}
    BY <1>1, WhenDecided
  <2>2. CASE pass = 2
    BY <1>1, <2>2 DEF IInv, LastInv, Decided
  <2>3. CASE pass = 3
    BY <1>1, <2>1, <2>3 DEF IInv, LastInv, Decided, Best
  <2> QED
    BY <2>1, <2>2, <2>3
<1>2. IInv => LastTagSurvives
  BY <1>1 DEF LastTagSurvives
<1> QED
  BY <1>2, Invariance, PTL

\* A manual cleanup keeps whatever was not selected, and what that lists.
THEOREM SelectionIsAlwaysTheLimit == Spec => []SelectionIsTheLimit
<1>1. ASSUME IInv, Decided, NEW m \in Manifest \ selection
      PROVE  {m} \cup (lists[m] \cap Manifest) \subseteq kept
  <2>1. m \in Starts
    BY DEF Starts
  <2>2. m \in kept /\ Content[m] \subseteq kept
    BY <1>1, <2>1, WhenDecided
  <2> QED
    BY <2>2 DEF Content
<1>2. IInv => SelectionIsTheLimit
  BY <1>1 DEF SelectionIsTheLimit
<1> QED
  BY <1>2, Invariance, PTL

-----------------------------------------------------------------------------
(* OrphanMarking: ScanInv says what the loop over the map has gathered so  *)
(* far, QueueInv what the one over the queue has passed on.                *)

Visited == Manifest \ unscanned
Taken    == orphaned \ marks

OwnersIn(S, c) == {p \in S : c \in lists[p]}

ScanInv ==
  /\ phase # "scan" => unscanned = {}
  /\ phase = "scan" => marks = orphaned
  /\ phase = "done" => marks = {}
  /\ hasOwner = {c \in Manifest : OwnersIn(Visited, c) # {}}
  /\ \A c \in Manifest :
       /\ owners[c] = Cardinality(OwnersIn(Visited, c))
       /\ parents[c] = {p \in Visited : c \in O!Dependencies(p)}
  /\ \A m \in Visited : ~(O!Dependencies(m) \subseteq Manifest) => m \in orphaned

QueueInv ==
  /\ \A c \in Manifest : brokenOwners[c] = Cardinality(OwnersIn(Taken, c))
  /\ \A m \in Taken : parents[m] \subseteq orphaned
  /\ \A c \in Manifest \ tagged :
       O!Owners(c) # {} /\ O!Owners(c) \subseteq Taken => c \in orphaned

MarkInv == O!TypeOK /\ ScanInv /\ QueueInv /\ O!OnlyOrphans

-----------------------------------------------------------------------------
(* Lemmas *)

\* The owners of a manifest can be counted.
LEMMA OwnersFinite ==
  ASSUME NEW S \in SUBSET Manifest, NEW c
  PROVE  IsFiniteSet(OwnersIn(S, c)) /\ Cardinality(OwnersIn(S, c)) \in Nat
<1>1. OwnersIn(S, c) \in SUBSET Manifest
  BY DEF OwnersIn
<1> QED
  BY <1>1, ManifestFinite, FS_Subset, FS_CardinalityType

\* One more manifest is one more owner of what it lists.
LEMMA OneMoreOwner ==
  ASSUME NEW S \in SUBSET Manifest, NEW m \in Manifest \ S, NEW c
  PROVE  Cardinality(OwnersIn(S \cup {m}, c)) =
           IF c \in lists[m] THEN Cardinality(OwnersIn(S, c)) + 1
                             ELSE Cardinality(OwnersIn(S, c))
<1>1. CASE c \in lists[m]
  <2>1. OwnersIn(S \cup {m}, c) = OwnersIn(S, c) \cup {m} /\ m \notin OwnersIn(S, c)
    BY <1>1 DEF OwnersIn
  <2> QED
    BY <1>1, <2>1, OwnersFinite, FS_AddElement
<1>2. CASE c \notin lists[m]
  BY <1>2 DEF OwnersIn
<1> QED
  BY <1>1, <1>2

\* A manifest whose broken owners are as many as its owners has no other.
LEMMA AllOwnersBroken ==
  ASSUME NEW S \in SUBSET Manifest, NEW c,
         Cardinality(OwnersIn(S, c)) = Cardinality(OwnersIn(Manifest, c))
  PROVE  OwnersIn(S, c) = OwnersIn(Manifest, c)
<1>1. OwnersIn(S, c) \in SUBSET OwnersIn(Manifest, c)
  BY DEF OwnersIn
<1> QED
  BY <1>1, OwnersFinite, FS_Subset

-----------------------------------------------------------------------------
\* The strengthening holds before the first manifest is scanned.
LEMMA MarkInit == O!Init => MarkInv
<1> SUFFICES ASSUME O!Init PROVE MarkInv
  OBVIOUS
<1> USE DEF O!Init, O!GraphInit
<1>1. O!TypeOK
  BY MayTagManifests DEF O!TypeOK, O!GraphTypeOK
<1>2. \A c : OwnersIn({}, c) = {}
  BY DEF OwnersIn
<1>3. Visited = {} /\ Taken = {}
  BY DEF Visited, Taken
<1>4. ScanInv /\ QueueInv
  BY <1>2, <1>3, FS_EmptySet DEF ScanInv, QueueInv
<1> QED
  BY <1>1, <1>4 DEF MarkInv, O!OnlyOrphans

\* Every step keeps the types of the variables.
LEMMA MarkTypeStep == O!TypeOK /\ [O!Next]_(O!vars) => O!TypeOK'
<1> SUFFICES ASSUME O!TypeOK, [O!Next]_(O!vars) PROVE O!TypeOK'
  OBVIOUS
<1> USE DEF O!TypeOK, O!GraphTypeOK, O!graph
<1>1. ASSUME NEW m \in Manifest, O!Scan(m) PROVE O!TypeOK'
  BY <1>1 DEF O!Scan, O!Mark
<1>2. ASSUME NEW m \in Manifest, O!Propagate(m) PROVE O!TypeOK'
  BY <1>2 DEF O!Propagate, O!Mark
<1>3. CASE O!Scanned \/ O!Propagated \/ UNCHANGED O!vars
  BY <1>3 DEF O!Scanned, O!Propagated, O!vars
<1> QED
  BY <1>1, <1>2, <1>3 DEF O!Next

\* The first loop.
LEMMA ScanStep ==
  ASSUME MarkInv, NEW m \in Manifest, O!Scan(m)
  PROVE  ScanInv' /\ QueueInv' /\ O!OnlyOrphans'
<1> USE DEF O!Scan, MarkInv
<1>1. Visited' = Visited \cup {m} /\ m \notin Visited /\ Visited \in SUBSET Manifest
  BY DEF Visited, O!TypeOK
<1>2. lists' = lists /\ tagged' = tagged /\ \A d : O!Dependencies(d)' = O!Dependencies(d)
  BY DEF O!graph, O!Dependencies
<1>3. \A S \in SUBSET Manifest, c \in Manifest : OwnersIn(S, c)' = OwnersIn(S, c)
  BY <1>2 DEF OwnersIn
<1>4. marks = orphaned /\ marks' = orphaned' /\ Taken = {} /\ Taken' = {}
  BY DEF ScanInv, O!Mark, Taken, O!TypeOK
<1>5. QueueInv'
  <2>1. \A c : OwnersIn({}, c) = {} /\ OwnersIn({}, c)' = {}
    BY DEF OwnersIn
  <2>2. Cardinality({}) = 0
    BY FS_EmptySet
  <2>3. \A c \in Manifest : brokenOwners'[c] = 0
    BY <1>4, <2>1, <2>2 DEF QueueInv
  <2>4. \A c \in Manifest : OwnersIn(Taken, c)' = {}
    BY <1>4, <2>1 DEF OwnersIn
  <2>5. \A c \in Manifest : ~(O!Owners(c) # {} /\ O!Owners(c) \subseteq Taken)'
    BY <1>4
  <2> QED
    BY <1>4, <2>2, <2>3, <2>4, <2>5 DEF QueueInv
<1>6. ScanInv'
  <2>1. \A c \in Manifest : OwnersIn(Visited, c)' = OwnersIn(Visited \cup {m}, c)
    BY <1>1, <1>2 DEF OwnersIn
  <2>2. ASSUME NEW c \in Manifest
        PROVE  owners'[c] = Cardinality(OwnersIn(Visited, c)')
    <3>1. owners[c] = Cardinality(OwnersIn(Visited, c))
      BY DEF ScanInv
    <3>2. owners'[c] = IF c \in lists[m] THEN owners[c] + 1 ELSE owners[c]
      OBVIOUS
    <3>3. Cardinality(OwnersIn(Visited \cup {m}, c)) =
            IF c \in lists[m] THEN Cardinality(OwnersIn(Visited, c)) + 1
                              ELSE Cardinality(OwnersIn(Visited, c))
      BY <1>1, OneMoreOwner
    <3> QED
      BY <2>1, <3>1, <3>2, <3>3
  <2>3. ASSUME NEW c \in Manifest
        PROVE  parents'[c] = {p \in Visited : c \in O!Dependencies(p)}'
    BY <1>1, <1>2 DEF ScanInv, O!TypeOK
  <2>4. hasOwner' = {c \in Manifest : OwnersIn(Visited, c)' # {}}
    <3>1. \A c \in Manifest : OwnersIn(Visited \cup {m}, c) # {}
                                <=> OwnersIn(Visited, c) # {} \/ c \in lists[m]
      BY DEF OwnersIn
    <3> QED
      BY <2>1, <3>1 DEF ScanInv, O!TypeOK, O!GraphTypeOK
  <2>5. \A n \in Visited' : ~(O!Dependencies(n)' \subseteq Manifest) => n \in orphaned'
    BY <1>1, <1>2 DEF ScanInv, O!Mark
  <2>6. phase' = phase /\ phase = "scan"
    OBVIOUS
  <2> QED
    BY <1>4, <2>2, <2>3, <2>4, <2>5, <2>6 DEF ScanInv
<1>7. O!OnlyOrphans'
  <2> SUFFICES ASSUME NEW S \in SUBSET Manifest, O!OrphanClosed(S)' PROVE orphaned' \subseteq S
    BY DEF O!OnlyOrphans
  <2>1. O!OrphanClosed(S)
    BY <1>2 DEF O!OrphanClosed, O!Owners
  <2>2. orphaned \subseteq S
    BY <2>1 DEF O!OnlyOrphans
  <2>3. ~(O!Dependencies(m) \subseteq Manifest) => m \in S
    BY <2>1 DEF O!OrphanClosed
  <2> QED
    BY <2>2, <2>3 DEF O!Mark
<1> QED
  BY <1>5, <1>6, <1>7

\* The second loop: what m passes on.
LEMMA PropagateStep ==
  ASSUME MarkInv, NEW m \in Manifest, O!Propagate(m)
  PROVE  ScanInv' /\ QueueInv' /\ O!OnlyOrphans'
<1> DEFINE abandoned == {c \in (lists[m] \cap Manifest) \ tagged : brokenOwners'[c] = owners[c]}
           marked == parents[m] \cup abandoned
<1> USE DEF MarkInv
<1>1. /\ phase = "propagate" /\ m \in marks /\ unscanned = {} /\ Visited = Manifest
      /\ UNCHANGED <<lists, subject, tagged, phase, unscanned, hasOwner, owners, parents>>
  BY DEF O!Propagate, ScanInv, O!graph, Visited
<1>2. orphaned' = orphaned \cup marked /\ marks' = (marks \ {m}) \cup (marked \ orphaned)
  BY DEF O!Propagate, O!Mark
<1>3. Taken' = Taken \cup {m} /\ m \notin Taken /\ Taken \in SUBSET Manifest /\ m \in orphaned
  BY <1>1, <1>2 DEF Taken, O!TypeOK
<1>4. \A d : O!Dependencies(d)' = O!Dependencies(d) /\ O!Owners(d)' = O!Owners(d)
  BY <1>1 DEF O!Dependencies, O!Owners
<1>5. \A c : OwnersIn(Manifest, c) = O!Owners(c)
  BY DEF OwnersIn, O!Owners
<1>6. ASSUME NEW c \in Manifest
      PROVE  /\ OwnersIn(Taken, c)' = OwnersIn(Taken \cup {m}, c)
             /\ brokenOwners'[c] = Cardinality(OwnersIn(Taken \cup {m}, c))
             /\ owners[c] = Cardinality(OwnersIn(Manifest, c))
  <2>1. OwnersIn(Taken, c)' = OwnersIn(Taken \cup {m}, c)
    BY <1>1, <1>3 DEF OwnersIn
  <2>2. brokenOwners'[c] = Cardinality(OwnersIn(Taken \cup {m}, c))
    BY <1>3, OneMoreOwner DEF O!Propagate, QueueInv, O!TypeOK
  <2> QED
    BY <1>1, <2>1, <2>2 DEF ScanInv
<1>7. \A c \in abandoned : O!Owners(c) \subseteq Taken \cup {m} /\ m \in O!Owners(c)
  <2> SUFFICES ASSUME NEW c \in abandoned
               PROVE  O!Owners(c) \subseteq Taken \cup {m} /\ m \in O!Owners(c)
    OBVIOUS
  <2>1. c \in Manifest /\ m \in O!Owners(c) /\ brokenOwners'[c] = owners[c]
    BY DEF O!Owners
  <2>2. Taken \cup {m} \in SUBSET Manifest
    BY <1>3
  <2>3. OwnersIn(Taken \cup {m}, c) = OwnersIn(Manifest, c)
    BY <1>6, <2>1, <2>2, AllOwnersBroken
  <2> QED
    BY <1>5, <2>1, <2>3 DEF OwnersIn
<1> HIDE DEF marked, abandoned
<1>8. ScanInv'
  <2>1. Visited' = Visited
    BY <1>1 DEF Visited
  <2>2. \A c \in Manifest : OwnersIn(Visited, c)' = OwnersIn(Visited, c)
    BY <1>1, <2>1 DEF OwnersIn
  <2> QED
    BY <1>1, <1>2, <1>4, <2>1, <2>2 DEF ScanInv
<1>9. QueueInv'
  <2>1. \A c \in Manifest : brokenOwners'[c] = Cardinality(OwnersIn(Taken, c)')
    BY <1>6
  <2>2. \A n \in Taken' : parents'[n] \subseteq orphaned'
    BY <1>1, <1>2, <1>3 DEF QueueInv, marked
  <2>3. ASSUME NEW c \in Manifest \ tagged, O!Owners(c) # {}, O!Owners(c) \subseteq Taken \cup {m}
        PROVE  c \in orphaned'
    <3>1. CASE m \notin O!Owners(c)
      BY <1>2, <2>3, <3>1 DEF QueueInv
    <3>2. CASE m \in O!Owners(c)
      <4>1. OwnersIn(Taken \cup {m}, c) = OwnersIn(Manifest, c)
        <5>1. OwnersIn(Manifest, c) \subseteq Taken \cup {m}
          BY <1>5, <2>3
        <5>2. OwnersIn(Taken \cup {m}, c) \subseteq OwnersIn(Manifest, c)
          BY <1>3 DEF OwnersIn
        <5>3. OwnersIn(Manifest, c) \subseteq OwnersIn(Taken \cup {m}, c)
          BY <5>1 DEF OwnersIn
        <5> QED
          BY <5>2, <5>3
      <4>2. brokenOwners'[c] = owners[c] /\ c \in lists[m]
        BY <1>6, <3>2, <4>1 DEF O!Owners
      <4> QED
        BY <1>2, <4>2 DEF marked, abandoned
    <3> QED
      BY <3>1, <3>2
  <2> QED
    BY <1>1, <1>3, <1>4, <2>1, <2>2, <2>3 DEF QueueInv
<1>10. O!OnlyOrphans'
  <2> SUFFICES ASSUME NEW S \in SUBSET Manifest, O!OrphanClosed(S)' PROVE orphaned' \subseteq S
    BY DEF O!OnlyOrphans
  <2>1. O!OrphanClosed(S)
    BY <1>1, <1>4 DEF O!OrphanClosed
  <2>2. orphaned \subseteq S /\ m \in S
    BY <1>3, <2>1 DEF O!OnlyOrphans
  <2>3. \A p \in parents[m] : p \in S
    <3>1. \A p \in parents[m] : p \in Manifest /\ m \in O!Dependencies(p)
      BY <1>1 DEF ScanInv
    <3> QED
      BY <2>1, <2>2, <3>1 DEF O!OrphanClosed
  <2>4. \A c \in abandoned : c \in S
    <3>1. \A c \in abandoned : c \in Manifest \ tagged
      BY DEF abandoned
    <3>2. \A c \in abandoned : O!Owners(c) # {} /\ O!Owners(c) \subseteq S
      BY <1>3, <1>7, <2>2 DEF Taken
    <3> QED
      BY <2>1, <3>1, <3>2 DEF O!OrphanClosed
  <2> QED
    BY <1>2, <2>2, <2>3, <2>4 DEF marked
<1> QED
  BY <1>8, <1>9, <1>10

\* The end of the first loop, the end of the second, and a step that changes
\* nothing.
LEMMA MarkedStep ==
  ASSUME MarkInv, O!Scanned \/ O!Propagated \/ UNCHANGED O!vars
  PROVE  ScanInv' /\ QueueInv' /\ O!OnlyOrphans'
<1> USE DEF MarkInv
<1>1. UNCHANGED <<lists, subject, tagged, unscanned, orphaned, hasOwner, owners, parents, marks, brokenOwners>>
  BY DEF O!Scanned, O!Propagated, O!vars, O!graph
<1>2. /\ Visited' = Visited /\ Taken' = Taken
      /\ \A c : OwnersIn(Visited, c)' = OwnersIn(Visited, c) /\ OwnersIn(Taken, c)' = OwnersIn(Taken, c)
      /\ \A d : O!Dependencies(d)' = O!Dependencies(d) /\ O!Owners(d)' = O!Owners(d)
  BY <1>1 DEF Visited, Taken, OwnersIn, O!Dependencies, O!Owners
<1>3. ScanInv'
  BY <1>1, <1>2 DEF ScanInv, O!Scanned, O!Propagated, O!vars, O!TypeOK
<1>4. QueueInv' /\ O!OnlyOrphans'
  BY <1>1, <1>2 DEF QueueInv, O!OnlyOrphans, O!OrphanClosed
<1> QED
  BY <1>3, <1>4

-----------------------------------------------------------------------------
(* Theorems *)

\* The strengthening the properties follow from.
THEOREM MarkInvariance == O!Spec => []MarkInv
<1>1. MarkInv /\ [O!Next]_(O!vars) => MarkInv'
  BY MarkTypeStep, ScanStep, PropagateStep, MarkedStep DEF MarkInv, O!Next
<1> QED
  BY MarkInit, <1>1, PTL DEF O!Spec

\* The variables keep their types.
THEOREM MarkTypesCorrect == O!Spec => []O!TypeOK
<1>1. MarkInv => O!TypeOK
  BY DEF MarkInv
<1> QED
  BY MarkInvariance, <1>1, PTL

\* No manifest is flagged that some set closed under the rule leaves out.
THEOREM FlagsAreOrphans == O!Spec => []O!OnlyOrphans
<1>1. MarkInv => O!OnlyOrphans
  BY DEF MarkInv
<1> QED
  BY MarkInvariance, <1>1, PTL

\* The flags are closed under the rule once the queue is empty.
THEOREM OrphansAreFlagged == O!Spec => []O!AllOrphans
<1>1. MarkInv => O!AllOrphans
  <2> SUFFICES ASSUME MarkInv, phase = "done" PROVE O!OrphanClosed(orphaned)
    BY DEF O!AllOrphans
  <2> USE DEF MarkInv
  <2>1. Visited = Manifest /\ Taken = orphaned
    BY DEF ScanInv, Visited, Taken, O!TypeOK
  <2>2. ASSUME NEW m \in Manifest, O!Dependencies(m) \ (Manifest \ orphaned) # {}
        PROVE  m \in orphaned
    <3>1. CASE ~(O!Dependencies(m) \subseteq Manifest)
      BY <2>1, <3>1 DEF ScanInv
    <3>2. CASE O!Dependencies(m) \subseteq Manifest
      <4>1. PICK d \in O!Dependencies(m) : d \in orphaned
        BY <2>2, <3>2
      <4>2. m \in parents[d]
        BY <2>1, <3>2, <4>1 DEF ScanInv
      <4> QED
        BY <2>1, <4>1, <4>2 DEF QueueInv
    <3> QED
      BY <3>1, <3>2
  <2>3. ASSUME NEW m \in Manifest, m \notin tagged, O!Owners(m) # {}, O!Owners(m) \subseteq orphaned
        PROVE  m \in orphaned
    BY <2>1, <2>3 DEF QueueInv
  <2> QED
    BY <2>2, <2>3 DEF O!OrphanClosed
<1> QED
  BY MarkInvariance, <1>1, PTL

\* Both halves of it.
THEOREM FlagsAreExact == O!Spec => []FlagsAreTheOrphans
<1>1. O!OnlyOrphans /\ O!AllOrphans => FlagsAreTheOrphans
  BY DEF FlagsAreTheOrphans, O!FlagsAreTheOrphans
<1> QED
  BY FlagsAreOrphans, OrphansAreFlagged, <1>1, PTL

\* HasOwner is what some index lists.
THEOREM OwnersAreKnown == O!Spec => []O!OwnersKnown
<1>1. MarkInv => O!OwnersKnown
  BY DEF MarkInv, ScanInv, O!OwnersKnown, OwnersIn, O!Owners, Visited
<1> QED
  BY MarkInvariance, <1>1, PTL

\* Hence the flags a finished run leaves are the orphans of the graph, which is
\* what Retention takes them for.
THEOREM FlagsAreLeast == O!Spec => [](phase = "done" => orphaned = Orphans)
<1>1. O!Orphans = Orphans
  BY DEF O!Orphans, Orphans, O!OrphanClosed, OrphanClosed, O!Dependencies, Dependencies, O!Owners, Owners
<1>2. O!OnlyOrphans /\ O!AllOrphans /\ O!TypeOK => (phase = "done" => orphaned = Orphans)
  BY <1>1 DEF O!OnlyOrphans, O!AllOrphans, O!TypeOK, O!Orphans
<1> QED
  BY FlagsAreOrphans, OrphansAreFlagged, MarkTypesCorrect, <1>2, PTL
=============================================================================
