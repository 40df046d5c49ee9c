-------------------------- MODULE ExplorerApp_proofs --------------------------
(***************************************************************************)
(* What the explorer shows, confirms and leaves behind, for all            *)
(* repositories, manifests and rule files and any number of deletions.     *)
(* ScreenInv says what may be under review while what is on screen,        *)
(* ExtentInv that it lies within the rows loaded, which no job outlives    *)
(* unchanged, UnlockInv which connection unlocking stems from, and         *)
(* HistoryInv counts the deletions.                                        *)
(***************************************************************************)
EXTENDS ExplorerApp, TLAPS

Requests ==
  [kind : {"repositories", "manifests", "rules"}, repositories : SUBSET Repository, digests : SUBSET Digest]

Jobs ==
  [kind : Kinds, request : Requests \cup {Nothing}, stage : {"started", "connected", "done"},
   stopping : BOOLEAN, outcome : {None, "done", "empty", "partial", "failed", "panicked", "canceled"},
   under : {None} \cup RuleFile]

Plans == [kind : {"repositories", "manifests", "rules"}, request : Requests, under : {None} \cup RuleFile]

TypeInv ==
  /\ TypeOK
  /\ repos = [rows |-> repos.rows, marked |-> repos.marked]
  /\ manifests = [rows |-> manifests.rows, marked |-> manifests.marked]
  /\ job \in Jobs \cup {Nothing}
  /\ job # Nothing /\ job.kind \in {"manifests", "preview", "execute"} => job.request \in Requests
  /\ plan \in Plans \cup {Nothing}
  /\ ruleRequest \in Requests \cup {Nothing}

ScreenInv ==
  /\ job # Nothing => plan = Nothing /\ ruleRequest = Nothing
  /\ plan # Nothing => panel \in {"plan", "confirm", "message"} /\ ruleRequest = Nothing
  /\ ruleRequest # Nothing => panel \in {"rule-picker", "rule-details"} /\ opts.client

ExtentInv ==
  /\ repository # None => repository \in repos.rows
  /\ job # Nothing =>
       /\ job.kind \in {"statistics", "reload"} => repository = None
       /\ job.kind = "manifests" => job.request.repositories \subseteq repos.rows
       /\ job.kind = "preview" /\ job.stage = "done" => job.under = rules
  /\ ruleRequest # Nothing => Reaches(ruleRequest)
  /\ WithinWhatIsShown

UnlockInv ==
  /\ job # Nothing =>
       /\ job.outcome = "canceled" => Cancelled
       /\ job.kind = "preview" /\ (job.stage = "connected" \/ job.outcome \in {"done", "empty", "partial"})
            /\ opts.includeLocked => unlocking
       /\ job.stage = "done" <=> job.outcome # None
  /\ plan # Nothing /\ opts.includeLocked => unlocking
  /\ AnnouncesUnlocking

HistoryInv ==
  /\ executions = completed + panicked + (IF job.kind = "execute" THEN 1 ELSE 0)
  /\ closed => job = Nothing
  /\ StaleUntilRescanned

IInv == TypeInv /\ ScreenInv /\ ExtentInv /\ UnlockInv /\ HistoryInv

\* The invariant holds however the explorer is opened.
LEMMA InitInv == Init => IInv
<1> SUFFICES ASSUME Init PROVE IInv
  OBVIOUS
<1>1. /\ opts \in Opening /\ repository = None
      /\ repos.rows \subseteq Repository /\ repos.marked = {} /\ manifests.rows = {} /\ manifests.marked = {}
      /\ repos = [rows |-> repos.rows, marked |-> repos.marked]
      /\ manifests = [rows |-> manifests.rows, marked |-> manifests.marked]
      /\ panel = "" /\ plan = Nothing /\ ruleRequest = Nothing
      /\ rules \in {None} \cup RuleFile
      /\ executions = 0 /\ completed = 0 /\ panicked = 0
  BY DEF Init, NewList
<1>2. /\ stale \in BOOLEAN /\ unlocking \in BOOLEAN /\ dirty \in BOOLEAN
      /\ interrupted \in BOOLEAN /\ closing \in BOOLEAN /\ closed \in BOOLEAN
  BY DEF Init
<1>3. ~dirty /\ ~closed
  BY DEF Init
<1>4. \/ job = Nothing
      \/ /\ job \in Jobs /\ job # Nothing /\ job.kind = "statistics"
         /\ job.stage = "started" /\ job.outcome = None
  BY DEF Init, Job, Jobs, Kinds, Nothing, None
<1>5. TypeInv
  <2>1. /\ executions \in 0..MaxExecutions /\ completed \in 0..executions /\ panicked \in 0..executions
    <3>1. 0 \in 0..MaxExecutions /\ 0 \in 0..0
      BY MaxExecutionsNatural
    <3> QED
      BY <1>1, <3>1
  <2>2. TypeOK
    BY <1>1, <1>2, <2>1 DEF TypeOK, Panels
  <2> QED
    BY <1>1, <1>4, <2>2 DEF TypeInv, Nothing
<1>6. ScreenInv /\ ExtentInv
  BY <1>1, <1>4 DEF ScreenInv, ExtentInv, WithinWhatIsShown, Nothing
<1>7. UnlockInv
  BY <1>1, <1>4 DEF UnlockInv, AnnouncesUnlocking, None
<1>8. HistoryInv
  <2>1. job.kind # "execute"
    BY <1>4 DEF Nothing
  <2>2. executions = completed + panicked + (IF job.kind = "execute" THEN 1 ELSE 0)
    <3>1. executions = 0 /\ completed = 0 /\ panicked = 0
      BY <1>1
    <3>2. 0 = 0 + 0 + 0
      OBVIOUS
    <3>3. (IF job.kind = "execute" THEN 1 ELSE 0) = 0
      BY <2>1
    <3> QED
      BY <3>1, <3>2, <3>3, Zenon
  <2> QED
    BY <1>3, <2>2 DEF HistoryInv, StaleUntilRescanned
<1> QED
  BY <1>5, <1>6, <1>7, <1>8 DEF IInv

\* What a job does beside the loop.
LEMMA GoroutineStep == IInv /\ Goroutine => IInv'
<1> SUFFICES ASSUME IInv, Goroutine PROVE IInv'
  OBVIOUS
<1> USE DEF IInv, lists, screen, ending, history
<1>1. job \in Jobs /\ job # Nothing
  BY DEF TypeInv, Goroutine, Connect, Return, Working, Nothing
<1>2. PICK s \in {"connected", "done"} :
        \E o \in {None, "done", "empty", "partial", "failed", "panicked", "canceled"} :
        \E u \in {None} \cup RuleFile :
          job' = [job EXCEPT !.stage = s, !.outcome = o, !.under = u]
  <2>1. CASE Connect
    <3>1. job' = [job EXCEPT !.stage = "connected", !.outcome = job.outcome, !.under = job.under]
      BY <1>1, <2>1 DEF Connect, Jobs
    <3> QED
      BY <1>1, <3>1 DEF Jobs
  <2>2. CASE Return
    BY <2>2 DEF Return, TypeInv, TypeOK, Successes
  <2> QED
    BY <2>1, <2>2 DEF Goroutine
<1>3. job' \in Jobs /\ job' # Nothing /\ job'.kind = job.kind /\ job'.request = job.request
      /\ job'.stopping = job.stopping
  BY <1>1, <1>2 DEF Jobs, Nothing, Kinds
<1>4. UNCHANGED <<opts, repos, repository, manifests, panel, plan, rules, ruleRequest, stale, interrupted,
                  closing, closed, executions, completed, panicked, dirty>>
  BY DEF Goroutine, Connect, Return
<1>5. TypeInv'
  <2>1. opts.includeLocked \in BOOLEAN /\ unlocking \in BOOLEAN
    BY OpeningValid DEF TypeInv, TypeOK
  <2>2. unlocking' \in BOOLEAN
    BY <2>1 DEF Goroutine, Connect, Return
  <2> QED
    BY <1>1, <1>3, <1>4, <2>2 DEF TypeInv, TypeOK
<1>6. ScreenInv'
  BY <1>1, <1>3, <1>4 DEF ScreenInv
<1>7. ExtentInv'
  <2>1. job'.kind = "preview" /\ job'.stage = "done" => job'.under = rules
    BY <1>1, <1>3 DEF Goroutine, Connect, Return, Jobs
  <2> QED
    BY <1>1, <1>3, <1>4, <2>1 DEF ExtentInv, WithinWhatIsShown, Reaches
<1>8. UnlockInv'
  <2>1. CASE Connect
    <3>1. /\ job.stage = "started" /\ job.kind # "execute" /\ job'.outcome = job.outcome
          /\ job'.stage = "connected" /\ plan = Nothing
          /\ unlocking' <=> job.kind = "preview" /\ opts.includeLocked
      BY <1>1, <2>1 DEF Connect, Jobs, ScreenInv
    <3>2. job.outcome = None
      BY <1>1, <3>1 DEF UnlockInv
    <3> QED
      BY <1>3, <1>4, <3>1, <3>2 DEF UnlockInv, AnnouncesUnlocking, None
  <2>2. CASE Return
    <3>1. job'.stage = "done" /\ unlocking' = unlocking
      BY <1>1, <2>2 DEF Return, Jobs
    <3>2. job'.outcome # None /\ (job'.outcome = "canceled" => Cancelled)
      BY <1>1, <2>2 DEF Return, Jobs, None, Successes
    <3>3. job'.kind = "preview" /\ job'.outcome \in {"done", "empty", "partial"} => job.stage = "connected"
      BY <1>1, <1>3, <2>2 DEF Return, Jobs, Successes
    <3>4. Cancelled' = Cancelled
      BY <1>3, <1>4 DEF Cancelled
    <3> QED
      BY <1>1, <1>3, <1>4, <3>1, <3>2, <3>3, <3>4 DEF UnlockInv, AnnouncesUnlocking
  <2> QED
    BY <2>1, <2>2 DEF Goroutine
<1>9. HistoryInv'
  BY <1>1, <1>3, <1>4 DEF HistoryInv, StaleUntilRescanned
<1> QED
  BY <1>5, <1>6, <1>7, <1>8, <1>9

\* The loop takes a result: no job is left, and what was under review before is
\* not any more.
LEMMA FinishStep == IInv /\ FinishJob => IInv'
<1> SUFFICES ASSUME IInv, FinishJob PROVE IInv'
  OBVIOUS
<1>1. /\ job \in Jobs /\ job # Nothing /\ job.stage = "done" /\ job' = Nothing
      /\ plan = Nothing /\ ruleRequest = Nothing
      /\ UNCHANGED <<opts, ruleRequest, unlocking, interrupted, closing, executions>>
      /\ closed' = closing
  BY DEF FinishJob, Finishing, TypeInv, ScreenInv, IInv
<1>2. job'.kind # "execute" /\ Nothing.kind = "none"
  BY <1>1 DEF Nothing
<1>3. HistoryInv' /\ completed' \in 0..executions /\ panicked' \in 0..executions
      /\ stale' \in BOOLEAN /\ dirty' \in BOOLEAN
  <2>1. /\ executions \in Nat /\ completed \in Nat /\ panicked \in Nat
        /\ executions = completed + panicked + (IF job.kind = "execute" THEN 1 ELSE 0)
        /\ stale \in BOOLEAN /\ dirty \in BOOLEAN
    BY MaxExecutionsNatural DEF IInv, TypeInv, TypeOK, HistoryInv
  <2>2. CASE job.kind = "execute"
    <3>1. CASE FinishExecution
      <4>1. completed' = completed + 1 /\ panicked' = panicked /\ stale' = TRUE /\ dirty' = dirty
        BY <3>1 DEF FinishExecution
      <4> QED
        BY <1>1, <1>2, <2>1, <2>2, <4>1 DEF HistoryInv, StaleUntilRescanned
    <3>2. CASE FinishCanceled \/ FinishFailed
      <4>1. completed' = completed /\ panicked' = panicked + 1 /\ stale' = stale /\ dirty' = dirty
        BY <2>2, <3>2 DEF FinishCanceled, FinishFailed, Panicking
      <4> QED
        BY <1>1, <1>2, <2>1, <2>2, <4>1 DEF HistoryInv, StaleUntilRescanned
    <3> QED
      BY <2>2, <3>1, <3>2 DEF FinishJob, FinishPreview, FinishManifests, FinishStatistics, FinishRules, Succeeded
  <2>3. CASE job.kind # "execute"
    <3>3. StaleUntilRescanned
      BY DEF IInv, HistoryInv
    <3>1. CASE FinishCanceled \/ FinishFailed \/ FinishPreview \/ FinishManifests \/ FinishRules
      <4>1. completed' = completed /\ panicked' = panicked /\ stale' = stale /\ dirty' = dirty
        <5>1. Panicking => panicked' = panicked
          BY <2>1, <2>3 DEF Panicking
        <5> QED
          BY <3>1, <5>1 DEF FinishCanceled, FinishFailed, FinishPreview, FinishManifests, FinishRules
      <4> QED
        BY <1>1, <1>2, <2>1, <2>3, <4>1, <3>3 DEF HistoryInv, StaleUntilRescanned
    <3>2. CASE FinishStatistics
      <4> DEFINE fresh == job.kind = "statistics" /\ job.outcome = "done"
      <4>1. completed' = completed /\ panicked' = panicked /\ stale' = (stale /\ ~fresh) /\ dirty' = (dirty /\ ~fresh)
        BY <3>2 DEF FinishStatistics
      <4>2. stale' \in BOOLEAN /\ dirty' \in BOOLEAN
        BY <4>1
      <4>3. (dirty' => dirty) /\ (dirty' /\ stale => stale')
        BY <4>1
      <4> QED
        BY <1>1, <1>2, <2>1, <2>3, <4>1, <4>2, <4>3, <3>3 DEF HistoryInv, StaleUntilRescanned
    <3>4. ~FinishExecution
      BY <2>3 DEF FinishExecution, Executed
    <3> QED
      BY <3>1, <3>2, <3>4 DEF FinishJob
  <2> QED
    BY <2>2, <2>3
<1>4. ASSUME plan' = Nothing,
             \/ UNCHANGED repository /\ repos' \in {repos, Clear(repos)}
                  /\ manifests' \in {manifests, Clear(manifests)}
             \/ UNCHANGED <<repos, repository, manifests>>
             \/ UNCHANGED repos /\ repository' \in repos.rows
                  /\ \E found \in SUBSET Digest : manifests' = NewList(found)
             \/ repository = None /\ UNCHANGED <<repository, manifests>>
                  /\ \E found \in SUBSET Repository : repos' = NewList(found),
             panel' \in Panels, rules' \in {None} \cup RuleFile
      PROVE  IInv'
  <2>1. /\ repos' = [rows |-> repos'.rows, marked |-> repos'.marked]
        /\ manifests' = [rows |-> manifests'.rows, marked |-> manifests'.marked]
        /\ repos'.marked \subseteq repos'.rows /\ repos'.rows \subseteq Repository
        /\ manifests'.marked \subseteq manifests'.rows /\ manifests'.rows \subseteq Digest
        /\ repository' \in {None} \cup Repository
        /\ repository' # None => repository' \in repos'.rows
    BY <1>4 DEF IInv, TypeInv, TypeOK, ExtentInv, Clear, NewList
  <2>2. closed' \in BOOLEAN
    BY <1>1 DEF IInv, TypeInv, TypeOK
  <2>3. TypeInv'
    BY <1>1, <1>3, <1>4, <2>1, <2>2 DEF IInv, TypeInv, TypeOK
  <2> QED
    BY <1>1, <1>2, <1>3, <1>4, <2>1, <2>3
    DEF IInv, ScreenInv, ExtentInv, WithinWhatIsShown, UnlockInv, AnnouncesUnlocking
<1>5. CASE FinishExecution
  BY <1>4, <1>5 DEF FinishExecution, Panels, IInv, TypeInv, TypeOK
<1>6. CASE FinishCanceled
  <2>1. /\ UNCHANGED <<repos, repository, manifests, rules>> /\ plan' = Nothing
        /\ panel' \in {"message", ""} /\ rules \in {None} \cup RuleFile
    BY <1>6 DEF FinishCanceled, lists, IInv, TypeInv, TypeOK
  <2> QED
    BY <1>4, <2>1 DEF Panels
<1>7. CASE FinishFailed
  <2>1. /\ UNCHANGED <<repos, repository, manifests, rules>> /\ plan' = Nothing
        /\ panel' = "message" /\ rules \in {None} \cup RuleFile
    BY <1>1, <1>7 DEF FinishFailed, lists, IInv, TypeInv, TypeOK
  <2> QED
    BY <1>4, <2>1 DEF Panels
<1>8. CASE FinishPreview
  <2>1. CASE job.outcome = "empty"
    <3>1. /\ UNCHANGED <<repos, repository, manifests, rules>> /\ plan' = Nothing
          /\ panel' = "message" /\ rules \in {None} \cup RuleFile
      BY <1>8, <2>1 DEF FinishPreview, lists, IInv, TypeInv, TypeOK
    <3> QED
      BY <1>4, <3>1 DEF Panels
  <2>2. CASE job.outcome # "empty"
    <3>1. /\ plan' = [kind |-> job.request.kind, request |-> job.request, under |-> job.under]
          /\ panel' = "plan"
          /\ UNCHANGED <<repos, repository, manifests, rules>>
      BY <1>8, <2>2 DEF FinishPreview, lists
    <3>2. job.request \in Requests /\ Reaches(job.request) /\ job.under = rules
      BY <1>1, <1>8 DEF FinishPreview, Succeeded, IInv, TypeInv, ExtentInv, WithinWhatIsShown
    <3>3. plan' \in Plans /\ plan' # Nothing
      BY <1>1, <3>1, <3>2 DEF Plans, Requests, Jobs, Nothing
    <3>4. opts.includeLocked => unlocking
      <4>1. job.kind = "preview" /\ job.outcome \in {"done", "empty", "partial"}
        BY <1>1, <1>8 DEF FinishPreview, Succeeded, Discards, IInv, UnlockInv, Jobs
      <4> QED
        BY <1>1, <4>1 DEF IInv, UnlockInv
    <3>5. TypeInv'
      BY <1>1, <1>3, <3>1, <3>3 DEF IInv, TypeInv, TypeOK, Panels
    <3>6. ExtentInv'
      BY <1>1, <3>1, <3>2 DEF IInv, ExtentInv, WithinWhatIsShown, Reaches
    <3> QED
      BY <1>1, <1>2, <1>3, <3>1, <3>3, <3>4, <3>5, <3>6 DEF IInv, ScreenInv, UnlockInv, AnnouncesUnlocking
  <2> QED
    BY <2>1, <2>2
<1>9. CASE FinishManifests
  <2>1. job.request.repositories \subseteq repos.rows
    BY <1>1, <1>9 DEF FinishManifests, Succeeded, IInv, ExtentInv
  <2> QED
    BY <1>1, <1>4, <1>9, <2>1 DEF FinishManifests, Panels, IInv, TypeInv, TypeOK
<1>10. CASE FinishStatistics
  <2>1. repository = None
    BY <1>1, <1>10 DEF FinishStatistics, Succeeded, IInv, ExtentInv
  <2> QED
    BY <1>1, <1>4, <1>10, <2>1 DEF FinishStatistics, Panels, IInv, TypeInv, TypeOK
<1>11. CASE FinishRules
  BY <1>1, <1>4, <1>11 DEF FinishRules, Panels, IInv, TypeInv, TypeOK, lists
<1> QED
  BY <1>5, <1>6, <1>7, <1>8, <1>9, <1>10, <1>11 DEF FinishJob

\* Marks come and go, and what is listed stays.
RowsKept ==
  /\ repos' = [rows |-> repos.rows, marked |-> repos'.marked]
  /\ repos'.marked \subseteq repos.rows
  /\ manifests' = [rows |-> manifests.rows, marked |-> manifests'.marked]
  /\ manifests'.marked \subseteq manifests.rows

\* Whatever a key of the rows or a panel leaves alone.
KeyFrame == UNCHANGED <<opts, stale, unlocking, ending, completed, panicked>>

\* What is on screen after a key that starts no job.
IdleKey ==
  /\ job = Nothing /\ KeyFrame /\ RowsKept
  /\ UNCHANGED <<job, executions, dirty>>
  /\ panel' \in Panels
  /\ \/ repository' = repository
     \/ repository' = None /\ plan' = Nothing /\ ruleRequest' = Nothing
  /\ \/ plan' = plan /\ rules' = rules
     \/ plan' = Nothing /\ rules' \in {None} \cup RuleFile
  /\ plan' # Nothing => panel' \in {"plan", "confirm", "message"} /\ ruleRequest' = Nothing
  /\ ruleRequest' \in Requests \cup {Nothing}
  /\ ruleRequest' # Nothing =>
       Reaches(ruleRequest') /\ opts.client /\ panel' \in {"rule-picker", "rule-details"}

\* The invariant survives the keys that start no job.
LEMMA IdleKeyKeeps == IInv /\ IdleKey => IInv'
<1> SUFFICES ASSUME IInv, IdleKey PROVE IInv'
  OBVIOUS
<1> USE DEF IInv, IdleKey, KeyFrame, ending
<1>1. repos'.rows = repos.rows /\ manifests'.rows = manifests.rows
  BY DEF RowsKept
<1>2. TypeInv'
  <2>1. repository' \in {None} \cup Repository
    BY DEF TypeInv, TypeOK
  <2>2. plan' \in Plans \cup {Nothing} /\ rules' \in {None} \cup RuleFile
    BY DEF TypeInv, TypeOK
  <2>3. TypeOK'
    BY <1>1, <2>1, <2>2 DEF TypeInv, TypeOK, RowsKept
  <2> QED
    BY <1>1, <2>2, <2>3 DEF TypeInv, RowsKept
<1>3. ScreenInv'
  BY DEF ScreenInv
<1>4. ExtentInv'
  BY <1>1 DEF ExtentInv, WithinWhatIsShown, Reaches, ScreenInv, Nothing
<1>5. UnlockInv'
  BY DEF UnlockInv, AnnouncesUnlocking
<1>6. HistoryInv'
  BY DEF HistoryInv, StaleUntilRescanned
<1> QED
  BY <1>2, <1>3, <1>4, <1>5, <1>6

\* What a key that starts a job asks for.
StartingKey(kind, request) ==
  /\ job = Nothing /\ ~closed /\ KeyFrame
  /\ UNCHANGED <<repos, repository, manifests>>
  /\ job' = Job(kind, request)
  /\ panel' \in Panels /\ plan' = Nothing /\ ruleRequest' = Nothing /\ rules' \in {None} \cup RuleFile
  /\ kind \in Kinds /\ request \in Requests \cup {Nothing}
  /\ kind \in {"manifests", "preview", "execute"} => request \in Requests
  /\ kind \in {"statistics", "reload"} => repository = None
  /\ kind = "manifests" => request.repositories \subseteq repos.rows
  /\ kind \in {"preview", "execute"} => Reaches(request)
  /\ IF kind = "execute"
     THEN /\ opts.includeLocked => unlocking
          /\ executions' = executions + 1 /\ executions' \in 0..MaxExecutions /\ dirty' = TRUE
     ELSE UNCHANGED <<executions, dirty>>

\* The invariant survives the keys that start a job.
LEMMA StartingKeyKeeps ==
  ASSUME NEW kind, NEW request, IInv, StartingKey(kind, request)
  PROVE  IInv'
<1> USE DEF IInv, StartingKey, KeyFrame, ending
<1>1. /\ job' \in Jobs /\ job' # Nothing /\ job'.kind = kind /\ job'.request = request
      /\ job'.stage = "started" /\ job'.outcome = None
  BY DEF Job, Jobs, Nothing, None
<1>2. TypeInv'
  <2>1. executions' \in 0..MaxExecutions /\ completed' \in 0..executions' /\ panicked' \in 0..executions'
    BY MaxExecutionsNatural DEF TypeInv, TypeOK
  <2>2. dirty' \in BOOLEAN
    BY DEF TypeInv, TypeOK
  <2>3. TypeOK'
    BY <2>1, <2>2 DEF TypeInv, TypeOK
  <2> QED
    BY <1>1, <2>3 DEF TypeInv
<1>3. ScreenInv'
  BY DEF ScreenInv
<1>4. ExtentInv'
  BY <1>1 DEF ExtentInv, WithinWhatIsShown, Reaches
<1>5. UnlockInv'
  BY <1>1 DEF UnlockInv, AnnouncesUnlocking, None
<1>6. HistoryInv'
  <2>1. /\ executions = completed + panicked
        /\ executions \in Nat /\ completed \in Nat /\ panicked \in Nat
    BY MaxExecutionsNatural DEF HistoryInv, Nothing, TypeInv, TypeOK
  <2>2. executions' = completed' + panicked' + (IF job'.kind = "execute" THEN 1 ELSE 0)
    BY <1>1, <2>1
  <2>3. StaleUntilRescanned'
    BY <1>1 DEF HistoryInv, StaleUntilRescanned
  <2> QED
    BY <2>2, <2>3 DEF HistoryInv
<1> QED
  BY <1>2, <1>3, <1>4, <1>5, <1>6

\* What is under review, and what waits for rules, by what covers the rows.
LEMMA PanelTells ==
  IInv => /\ panel \notin {"plan", "confirm", "message"} => plan = Nothing
          /\ panel \notin {"rule-picker", "rule-details"} => ruleRequest = Nothing
BY DEF IInv, ScreenInv

\* Marks that stay as they are, stay within the rows.
LEMMA SameRows == IInv /\ UNCHANGED <<repos, manifests>> => RowsKept
BY DEF IInv, TypeInv, TypeOK, RowsKept

\* A preview that is asked for begins, or waits for a rule file, or is refused.
LEMMA PrepareKeeps ==
  ASSUME IInv, NEW request \in Requests, Reaches(request), Prepare(request),
         job = Nothing, ~closed, plan = Nothing, KeyFrame,
         UNCHANGED <<repos, repository, manifests, executions, dirty>>,
         rules' \in {None} \cup RuleFile
  PROVE  IInv'
<1>1. CASE job' # job
  <2>1. /\ panel' = "" /\ plan' = Nothing /\ ruleRequest' = Nothing
        /\ job' = Job("preview", request)
    BY <1>1 DEF Prepare, Start
  <2>2. StartingKey("preview", request)
    BY <2>1 DEF StartingKey, Kinds, Panels
  <2> QED
    BY <2>2, StartingKeyKeeps
<1>2. CASE job' = job
  <2>1. job' # Job("preview", request)
    BY <1>2 DEF Job, Nothing
  <2>2. RowsKept
    BY SameRows
  <2>3. plan' = Nothing
    BY <2>1 DEF Prepare, Start
  <2>4. CASE ruleRequest' = ruleRequest /\ panel' = panel
    BY <1>2, <2>2, <2>3, <2>4, IdleKeyKeeps DEF IdleKey, IInv, TypeInv, TypeOK, ScreenInv, ExtentInv, Reaches
  <2>5. CASE ~opts.client
    <3>1. ruleRequest = Nothing /\ ruleRequest' = Nothing /\ panel' = "message"
      BY <2>5 DEF Prepare, Live, IInv, ScreenInv
    <3> QED
      BY <1>2, <2>2, <2>3, <3>1, IdleKeyKeeps DEF IdleKey, Panels
  <2>6. CASE opts.client /\ panel' = "rule-picker" /\ ruleRequest' = request
    BY <1>2, <2>2, <2>3, <2>6, IdleKeyKeeps DEF IdleKey, Panels, Reaches
  <2> QED
    BY <2>1, <2>4, <2>5, <2>6 DEF Prepare, Start, Live
<1> QED
  BY <1>1, <1>2

\* The invariant survives the keys among the rows.
LEMMA RowKeys ==
  ASSUME IInv,
         ChangeMarks \/ Back \/ Browse \/ Reload \/ Show \/ ChooseRules \/ EnterRules
           \/ ChooseRepositories \/ PreviewDeletion
  PROVE  IInv'
<1> USE DEF lists, screen, history, ending, KeyFrame
<1>1. CASE ChangeMarks
  <2>1. job = Nothing /\ plan = Nothing /\ ruleRequest = Nothing
    BY <1>1, PanelTells DEF Key, ChangeMarks
  <2>2. /\ repos'.marked \subseteq repos.rows /\ repos' = [rows |-> repos.rows, marked |-> repos'.marked]
        /\ manifests'.marked \subseteq manifests.rows
        /\ manifests' = [rows |-> manifests.rows, marked |-> manifests'.marked]
    <3>1. /\ repos = [rows |-> repos.rows, marked |-> repos.marked] /\ repos.marked \subseteq repos.rows
          /\ manifests = [rows |-> manifests.rows, marked |-> manifests.marked]
          /\ manifests.marked \subseteq manifests.rows
      BY DEF IInv, TypeInv, TypeOK
    <3>2. ASSUME NEW names, names \subseteq List.rows, Mark(names)
          PROVE  /\ repos'.marked \subseteq repos.rows /\ repos' = [rows |-> repos.rows, marked |-> repos'.marked]
                 /\ manifests'.marked \subseteq manifests.rows
                 /\ manifests' = [rows |-> manifests.rows, marked |-> manifests'.marked]
      BY <3>1, <3>2 DEF Mark, List
    <3>3. PICK names : names \subseteq List.rows /\ Mark(names)
      BY <1>1, <3>1 DEF ChangeMarks, List
    <3> QED
      BY <3>2, <3>3
  <2> QED
    BY <1>1, <2>1, <2>2, IdleKeyKeeps DEF ChangeMarks, IdleKey, RowsKept, IInv, TypeInv, TypeOK, Panels
<1>2. CASE Back
  BY <1>2, PanelTells, SameRows, IdleKeyKeeps DEF Key, Back, IdleKey, IInv, TypeInv, TypeOK, Panels
<1>3. CASE Browse
  <2>1. job = Nothing /\ ~closed /\ plan = Nothing /\ ruleRequest = Nothing
    BY <1>3, PanelTells DEF Key, Browse
  <2>2. PICK name \in repos.rows : LoadManifests(name)
    BY <1>3 DEF Browse, IInv, ExtentInv
  <2>3. rules \in {None} \cup RuleFile /\ panel \in Panels /\ name \in Repository
    BY <2>2 DEF IInv, TypeInv, TypeOK
  <2>4. CASE opts.client
    <3> DEFINE request == Request("manifests", {name}, {})
    <3>1. request \in Requests /\ request.repositories \subseteq repos.rows
      BY <2>2, <2>3 DEF Request, Requests
    <3>2. job' = Job("manifests", request) /\ UNCHANGED panel
      BY <2>2, <2>4 DEF LoadManifests, Live, Start
    <3> HIDE DEF request
    <3>3. StartingKey("manifests", request)
      BY <1>3, <2>1, <2>3, <3>1, <3>2 DEF Browse, StartingKey, Kinds
    <3> QED
      BY <3>3, StartingKeyKeeps
  <2>5. CASE ~opts.client
    BY <1>3, <2>1, <2>2, <2>5, SameRows, IdleKeyKeeps DEF Browse, LoadManifests, Live, IdleKey, Panels
  <2> QED
    BY <2>4, <2>5
<1>4. CASE Reload
  <2>1. /\ job = Nothing /\ ~closed /\ plan = Nothing /\ ruleRequest = Nothing /\ repository = None
        /\ panel \in Panels /\ rules \in {None} \cup RuleFile
    BY <1>4, PanelTells DEF Key, Reload, IInv, TypeInv, TypeOK
  <2>2. PICK kind \in {"statistics", "reload"} : StartingKey(kind, Nothing)
    BY <1>4, <2>1 DEF Reload, Start, StartingKey, Kinds
  <2> QED
    BY <2>2, StartingKeyKeeps
<1>5. CASE Show
  BY <1>5, PanelTells, SameRows, IdleKeyKeeps DEF Key, Show, IdleKey, Panels
<1>6. CASE ChooseRules
  BY <1>6, PanelTells, SameRows, IdleKeyKeeps DEF Key, ChooseRules, IdleKey, Panels
<1>7. CASE EnterRules
  <2>1. job = Nothing /\ plan = Nothing /\ (ruleRequest # Nothing => Live)
    BY <1>7, PanelTells DEF Key, EnterRules, IInv, ScreenInv, Live
  <2>2. ruleRequest' = Nothing /\ panel' \in Panels
    BY <1>7, <2>1 DEF EnterRules, ManualRules, Panels
  <2> QED
    BY <1>7, <2>1, <2>2, SameRows, IdleKeyKeeps DEF EnterRules, IdleKey
<1>8. CASE ChooseRepositories
  BY <1>8, PanelTells, SameRows, IdleKeyKeeps DEF Key, ChooseRepositories, IdleKey, Panels
<1>9. CASE PreviewDeletion
  <2>1. job = Nothing /\ ~closed /\ plan = Nothing
    BY <1>9, PanelTells DEF Key, PreviewDeletion
  <2>2. /\ repos.marked \subseteq repos.rows /\ repos.rows \subseteq Repository
        /\ manifests.marked \subseteq manifests.rows /\ manifests.rows \subseteq Digest
        /\ repository # None => repository \in repos.rows
        /\ rules \in {None} \cup RuleFile
    BY DEF IInv, TypeInv, TypeOK, ExtentInv
  <2>3. PICK request \in Requests : Reaches(request) /\ Prepare(request)
    <3>1. ASSUME NEW names \in Selections,
                 Prepare(IF repository = None
                         THEN Request("repositories", names, {})
                         ELSE Request("manifests", {repository}, names))
          PROVE  \E request \in Requests : Reaches(request) /\ Prepare(request)
      <4>1. names \subseteq List.rows
        BY <2>2 DEF Selections, List
      <4>2. CASE repository = None
        BY <2>2, <3>1, <4>1, <4>2 DEF Request, Requests, Reaches, List
      <4>3. CASE repository # None
        BY <2>2, <3>1, <4>1, <4>3 DEF Request, Requests, Reaches, List
      <4> QED
        BY <4>2, <4>3
    <3>2. ASSUME NEW names \in SUBSET repos.rows, ByRules(names)
          PROVE  \E request \in Requests : Reaches(request) /\ Prepare(request)
      BY <2>2, <3>2 DEF ByRules, Request, Requests, Reaches
    <3> QED
      BY <1>9, <2>2, <3>1, <3>2 DEF PreviewDeletion
  <2> QED
    BY <1>9, <2>1, <2>2, <2>3, PrepareKeeps DEF PreviewDeletion
<1> QED
  BY <1>1, <1>2, <1>3, <1>4, <1>5, <1>6, <1>7, <1>8, <1>9

\* The invariant survives the keys in the panels.
LEMMA PanelKeys ==
  ASSUME IInv,
         ClosePanel \/ ShowRule \/ PickRule \/ ReadRules \/ SelectRepositories \/ LeavePlan
           \/ ReviewPlan \/ Confirm
  PROVE  IInv'
<1> USE DEF lists, screen, history, ending, KeyFrame
<1>1. CASE ClosePanel
  <2>1. PICK p \in {"message", "repository-details", "rule-details", "rules", "mark", "preview", "rule-picker"} :
          /\ job = Nothing /\ panel = p
          /\ panel' = IF p = "rule-details" THEN "rule-picker"
                      ELSE IF p = "message" /\ plan # Nothing THEN "plan" ELSE ""
          /\ ruleRequest' = IF p = "rule-picker" THEN Nothing ELSE ruleRequest
    BY <1>1 DEF ClosePanel, Key
  <2>2. UNCHANGED <<opts, repos, repository, manifests, plan, rules, stale, job, unlocking, interrupted, closing,
                    closed, executions, completed, panicked, dirty>>
    BY <1>1 DEF ClosePanel
  <2>3. /\ p # "message" => plan = Nothing
        /\ p # "rule-picker" /\ p # "rule-details" => ruleRequest = Nothing
    BY <2>1, PanelTells
  <2>4. /\ ruleRequest \in Requests \cup {Nothing}
        /\ ruleRequest # Nothing => Reaches(ruleRequest) /\ opts.client
    BY DEF IInv, TypeInv, ExtentInv, ScreenInv
  <2>5. panel' \in Panels
    BY <2>1 DEF Panels
  <2>6. plan' # Nothing => panel' = "plan" /\ ruleRequest' = Nothing
    BY <2>1, <2>2, <2>3
  <2>7. ruleRequest' # Nothing => ruleRequest' = ruleRequest /\ panel' = "rule-picker"
    BY <2>1, <2>3
  <2>8. ruleRequest' \in {ruleRequest, Nothing}
    BY <2>1
  <2>9. IdleKey
    BY <2>1, <2>2, <2>4, <2>5, <2>6, <2>7, <2>8, SameRows DEF IdleKey
  <2> QED
    BY <2>9, IdleKeyKeeps
<1>2. CASE ShowRule
  BY <1>2, PanelTells, SameRows, IdleKeyKeeps
  DEF ShowRule, Key, IdleKey, Panels, IInv, TypeInv, ScreenInv, ExtentInv
<1>3. CASE PickRule
  <2>1. job = Nothing /\ ~closed /\ plan = Nothing /\ panel = "rule-picker"
    BY <1>3, PanelTells DEF PickRule, Key
  <2>2. /\ ruleRequest \in Requests \cup {Nothing}
        /\ ruleRequest # Nothing => Reaches(ruleRequest) /\ opts.client
    BY DEF IInv, TypeInv, ExtentInv, ScreenInv
  <2>3. /\ UNCHANGED <<opts, repos, repository, manifests, stale, unlocking, interrupted, closing, closed,
                       executions, completed, panicked, dirty>>
        /\ rules' \in {None} \cup RuleFile
    BY <1>3 DEF PickRule, IInv, TypeInv, TypeOK
  <2>4. CASE ruleRequest # Nothing /\ Prepare(ruleRequest)
    BY <2>1, <2>2, <2>3, <2>4, PrepareKeeps
  <2>5. CASE ruleRequest = Nothing /\ panel' \in {"", "message"} /\ UNCHANGED <<plan, ruleRequest, job>>
    BY <2>1, <2>3, <2>5, SameRows, IdleKeyKeeps DEF IdleKey, Panels
  <2> QED
    BY <1>3, <2>2, <2>4, <2>5 DEF PickRule, Live
<1>4. CASE ReadRules
  <2>1. /\ job = Nothing /\ ~closed /\ plan = Nothing /\ ruleRequest = Nothing
        /\ panel \in Panels /\ rules \in {None} \cup RuleFile
    BY <1>4, PanelTells DEF ReadRules, Key, IInv, TypeInv, TypeOK
  <2>2. StartingKey("rules", Nothing)
    BY <1>4, <2>1 DEF ReadRules, Start, StartingKey, Kinds
  <2> QED
    BY <2>2, StartingKeyKeeps
<1>5. CASE SelectRepositories
  <2>1. /\ job = Nothing /\ ~closed /\ plan = Nothing /\ ruleRequest = Nothing
        /\ rules \in {None} \cup RuleFile
    BY <1>5, PanelTells DEF SelectRepositories, Key, IInv, TypeInv, TypeOK
  <2>2. /\ repos = [rows |-> repos.rows, marked |-> repos.marked] /\ repos.marked \subseteq repos.rows
        /\ manifests = [rows |-> manifests.rows, marked |-> manifests.marked]
        /\ manifests.marked \subseteq manifests.rows /\ repos.rows \subseteq Repository
    BY DEF IInv, TypeInv, TypeOK
  <2>3. PICK matches \in SUBSET repos.rows :
          \/ ByRules(matches) /\ UNCHANGED repos
          \/ /\ repos' = [repos EXCEPT !.marked = @ \cup matches]
             /\ panel' = "" /\ UNCHANGED <<plan, ruleRequest, job>>
    BY <1>5 DEF SelectRepositories
  <2>4. CASE ByRules(matches) /\ UNCHANGED repos
    <3> DEFINE request == Request("rules", matches, {})
    <3>1. request \in Requests /\ Reaches(request) /\ Prepare(request)
      BY <2>2, <2>4 DEF ByRules, Request, Requests, Reaches
    <3> HIDE DEF request
    <3> QED
      BY <1>5, <2>1, <2>4, <3>1, PrepareKeeps DEF SelectRepositories
  <2>5. CASE /\ repos' = [repos EXCEPT !.marked = @ \cup matches]
             /\ panel' = "" /\ UNCHANGED <<plan, ruleRequest, job>>
    <3>1. RowsKept
      BY <1>5, <2>2, <2>5 DEF SelectRepositories, RowsKept
    <3> QED
      BY <1>5, <2>1, <2>5, <3>1, IdleKeyKeeps DEF SelectRepositories, IdleKey, Panels
  <2> QED
    BY <2>3, <2>4, <2>5
<1>6. CASE LeavePlan
  BY <1>6, PanelTells, SameRows, IdleKeyKeeps DEF LeavePlan, Key, IdleKey, Panels, IInv, TypeInv, TypeOK
<1>7. CASE ReviewPlan
  BY <1>7, PanelTells, SameRows, IdleKeyKeeps DEF ReviewPlan, Key, IdleKey, Panels
<1>8. CASE Confirm
  <2>1. /\ job = Nothing /\ ~closed /\ plan # Nothing /\ ruleRequest = Nothing
        /\ rules \in {None} \cup RuleFile
    BY <1>8, PanelTells DEF Confirm, Key, IInv, TypeInv, TypeOK
  <2>2. /\ plan.request \in Requests /\ Reaches(plan.request)
        /\ opts.includeLocked => unlocking
    BY <2>1 DEF IInv, TypeInv, Plans, ExtentInv, WithinWhatIsShown, UnlockInv
  <2>3. executions' = executions + 1 /\ executions' \in 0..MaxExecutions
    <3>1. executions \in 0..MaxExecutions
      BY DEF IInv, TypeInv, TypeOK
    <3>2. executions < MaxExecutions /\ executions' = executions + 1
      BY <1>8 DEF Confirm
    <3> QED
      BY <3>1, <3>2, MaxExecutionsNatural
  <2>4. StartingKey("execute", plan.request)
    BY <1>8, <2>1, <2>2, <2>3 DEF Confirm, Start, StartingKey, Kinds, Panels
  <2> QED
    BY <2>4, StartingKeyKeeps
<1> QED
  BY <1>1, <1>2, <1>3, <1>4, <1>5, <1>6, <1>7, <1>8

\* The invariant survives cancelling, quitting and a signal.
LEMMA EndingSteps == IInv /\ (CancelJob \/ Close \/ Interrupt) => IInv'
<1> SUFFICES ASSUME IInv, CancelJob \/ Close \/ Interrupt PROVE IInv'
  OBVIOUS
<1> USE DEF IInv, lists, screen, history, ending
<1>1. UNCHANGED <<opts, repos, repository, manifests, panel, plan, ruleRequest, rules, stale, unlocking,
                  executions, completed, panicked, dirty>>
  BY DEF CancelJob, Close, Interrupt
<1>2. /\ interrupted' \in BOOLEAN /\ closing' \in BOOLEAN /\ closed' \in BOOLEAN
      /\ interrupted => interrupted'
      /\ closed' => closed \/ job = Nothing
  <2>1. interrupted \in BOOLEAN /\ closing \in BOOLEAN /\ closed \in BOOLEAN
    BY DEF TypeInv, TypeOK
  <2>2. CASE CancelJob
    BY <2>1, <2>2 DEF CancelJob
  <2>3. CASE Close
    <3>1. interrupted' = interrupted /\ closing' = TRUE
      BY <2>3 DEF Close
    <3>2. \/ closed' = TRUE /\ job = Nothing
          \/ closed' = closed
      BY <2>3 DEF Close
    <3>3. closed' \in BOOLEAN
      BY <2>1, <3>2
    <3>4. closed' => closed \/ job = Nothing
      BY <3>2, Zenon
    <3> QED
      BY <2>1, <3>1, <3>3, <3>4
  <2>4. CASE Interrupt
    <3>1. interrupted' = TRUE /\ closing' = closing /\ closed' = closed
      BY <2>4 DEF Interrupt
    <3> QED
      BY <2>1, <3>1
  <2> QED
    BY <2>2, <2>3, <2>4
<1>3. \/ job' = job
      \/ job # Nothing /\ job' = [job EXCEPT !.stopping = TRUE] /\ closed' = closed
  BY DEF CancelJob, Close, Interrupt, Stop
<1>4. /\ job = Nothing <=> job' = Nothing
      /\ job' \in Jobs \cup {Nothing}
      /\ job'.kind = job.kind
      /\ job # Nothing =>
           /\ job'.request = job.request /\ job'.stage = job.stage /\ job'.outcome = job.outcome
           /\ job'.under = job.under
           /\ job.stopping => job'.stopping
  BY <1>3 DEF TypeInv, Jobs, Nothing
<1>5. TypeInv'
  BY <1>1, <1>2, <1>4 DEF TypeInv, TypeOK
<1>6. ScreenInv'
  BY <1>1, <1>4 DEF ScreenInv
<1>7. ExtentInv'
  BY <1>1, <1>4 DEF ExtentInv, WithinWhatIsShown, Reaches
<1>8. UnlockInv'
  BY <1>1, <1>2, <1>4 DEF UnlockInv, AnnouncesUnlocking, Cancelled
<1>9. HistoryInv'
  <2>1. closed' => job' = Nothing
    BY <1>2, <1>4 DEF HistoryInv
  <2> QED
    BY <1>1, <1>4, <2>1 DEF HistoryInv, StaleUntilRescanned
<1> QED
  BY <1>5, <1>6, <1>7, <1>8, <1>9

\* A state in which nothing happens keeps the invariant.
LEMMA Stutter == IInv /\ UNCHANGED vars => IInv'
<1> SUFFICES ASSUME IInv, UNCHANGED vars PROVE IInv'
  OBVIOUS
<1> USE DEF IInv, vars, lists, screen, ending, history
<1>1. TypeInv' /\ ScreenInv'
  BY DEF TypeInv, TypeOK, ScreenInv
<1>2. ExtentInv'
  BY DEF ExtentInv, WithinWhatIsShown, Reaches
<1>3. UnlockInv' /\ HistoryInv'
  BY DEF UnlockInv, AnnouncesUnlocking, Cancelled, HistoryInv, StaleUntilRescanned
<1> QED
  BY <1>1, <1>2, <1>3

\* The invariant holds in every state.
THEOREM Invariance == Spec => []IInv
<1>1. IInv /\ [Next]_vars => IInv'
  BY GoroutineStep, FinishStep, RowKeys, PanelKeys, EndingSteps, Stutter DEF Next, Keys
<1> QED
  BY InitInv, <1>1, PTL DEF Spec

\* The selections, marks, flags and counts of the explorer have their types.
THEOREM TypeCorrect == Spec => []TypeOK
<1>1. IInv => TypeOK
  BY DEF IInv, TypeInv
<1> QED
  BY Invariance, <1>1, PTL

\* Confirm: what is under review or being deleted lies within what is on screen,
\* and a deletion that removes locks is one that a signal warns of.
THEOREM AlwaysConfirmsWhatIsShown == Spec => []ConfirmsWhatIsShown
<1>1. IInv => ConfirmsWhatIsShown
  BY DEF IInv, ExtentInv, UnlockInv, ConfirmsWhatIsShown
<1> QED
  BY Invariance, <1>1, PTL

\* finishJob: statistics that a deletion may have outdated are shown as stale
\* until the registry was scanned completely.
THEOREM AlwaysStaleUntilRescanned == Spec => []StaleUntilRescanned
<1>1. IInv => StaleUntilRescanned
  BY DEF IInv, HistoryInv
<1> QED
  BY Invariance, <1>1, PTL

\* close and finish: the explorer closes when nothing is under way, with every
\* deletion in its log but those that panicked.
THEOREM AlwaysClosesWhenAllIsDone == Spec => []ClosesWhenAllIsDone
<1>1. ASSUME IInv PROVE ClosesWhenAllIsDone
  <2>1. closed => job = Nothing
    BY <1>1 DEF IInv, HistoryInv
  <2>2. /\ executions = completed + panicked + (IF job.kind = "execute" THEN 1 ELSE 0)
        /\ completed \in Nat /\ panicked \in Nat
    BY <1>1, MaxExecutionsNatural DEF IInv, HistoryInv, TypeInv, TypeOK
  <2> QED
    BY <2>1, <2>2 DEF ClosesWhenAllIsDone, Nothing
<1> QED
  BY Invariance, <1>1, PTL

\* finishJob: what comes of an operation that was cancelled, other than a
\* deletion, changes nothing that was loaded, chosen or marked.
THEOREM CanceledReadsAlwaysKeep == Spec => CanceledReadsKeepAll
<1>1. IInv /\ [Next]_vars
        => [(job # Nothing /\ job' = Nothing /\ job.stopping /\ job.kind # "execute"
              => UNCHANGED <<lists, rules, stale>> /\ plan' = Nothing)]_vars
  <2> SUFFICES ASSUME IInv, Next, job # Nothing, job' = Nothing, job.stopping, job.kind # "execute"
               PROVE  UNCHANGED <<lists, rules, stale>> /\ plan' = Nothing
    OBVIOUS
  <2>1. FinishJob
    <3>1. job \in Jobs
      BY DEF IInv, TypeInv
    <3>2. ~Goroutine
      BY <3>1 DEF Goroutine, Connect, Return, Jobs, Nothing
    <3>3. ~Keys
      BY DEF Keys, Key, ChangeMarks, Back, Browse, Reload, Show, ChooseRules, EnterRules, ChooseRepositories,
             PreviewDeletion, ClosePanel, ShowRule, PickRule, ReadRules, SelectRepositories, LeavePlan,
             ReviewPlan, Confirm
    <3>4. ~CancelJob /\ ~Close /\ ~Interrupt
      BY <3>1 DEF CancelJob, Close, Interrupt, Stop, Jobs, Nothing
    <3> QED
      BY <3>2, <3>3, <3>4 DEF Next
  <2>2. FinishCanceled
    BY <2>1 DEF FinishJob, FinishExecution, FinishFailed, FinishPreview, FinishManifests, FinishStatistics,
                FinishRules, Succeeded, Executed, Discards, Cancelled
  <2> QED
    BY <2>2 DEF FinishCanceled
<1> QED
  BY Invariance, <1>1, PTL DEF Spec, CanceledReadsKeepAll

=============================================================================
