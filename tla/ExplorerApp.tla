---------------------------- MODULE ExplorerApp -----------------------------
(***************************************************************************)
(* The interactive explorer, internal/explore: app.run, its event loop,    *)
(* the one job that may run beside it in a goroutine, and the keys that    *)
(* select, confirm and execute a cleanup (terminal.go, rules.go,  *)
(* repositories.go, model.go), with the jobs' side of client.go and of     *)
(* cmd/crprune/explore.go.                                                 *)
(*                                                                         *)
(* Rows are filtered, sorted and scrolled through freely between two keys, *)
(* so a key finds any rows visible and any of them under the cursor. What  *)
(* is typed matches or does not; a window is large enough to review a plan *)
(* or is not.                                                              *)
(***************************************************************************)
EXTENDS Naturals, FiniteSets

CONSTANTS
  Opening,       \* how the explorer may be opened
  Repository,
  Digest,        \* of the manifests listed in a repository
  RuleFile,      \* the rule files that compile
  MaxExecutions  \* bound: confirmed deletions

ASSUME MaxExecutionsNatural == MaxExecutions \in Nat

\* Live statistics, and unlocking, need --registry.
ASSUME OpeningValid ==
  /\ Opening \subseteq [client : BOOLEAN, liveStats : BOOLEAN, includeLocked : BOOLEAN]
  /\ \A o \in Opening : o.liveStats \/ o.includeLocked => o.client

VARIABLES
  opts,        \* how the explorer was opened
  repos,       \* the loaded statistics: the repositories, and those marked
  repository,  \* the repository whose manifests are on screen
  manifests,   \* the loaded manifests, and those marked
  panel,       \* what covers the rows
  plan,        \* the deletion under review
  rules,       \* Client.RuleSource
  ruleRequest, \* the preview that waits for a rule file to be chosen
  stale,       \* whether the statistics are shown as potentially stale
  job,         \* the operation under way
  unlocking,   \* interrupts.unlocking: a signal warns of locks
  interrupted, \* whether a signal cancelled the explorer's context
  closing,     \* whether the explorer closes when the job is done
  closed,
  executions,  \* how many deletions were begun
  completed,   \* how many are in the log left behind on exit
  panicked,    \* how many ended in a panic
  dirty        \* whether one began since the statistics were scanned

lists   == <<repos, repository, manifests>>
screen  == <<panel, plan, ruleRequest>>
ending  == <<interrupted, closing, closed>>
history == <<executions, completed, panicked, dirty>>
vars    == <<opts, lists, screen, rules, stale, job, unlocking, ending, history>>

Nothing == [kind |-> "none"]
None    == "none"

\* Help and the choice of a sort order count as messages: Esc closes them. The
\* panel "repositories" is named for what its selector does with the matches.
Panels == {"", "plan", "confirm", "message", "rule-picker", "rule-details", "rules",
           "mark", "preview", "repository-details"}

Kinds == {"statistics", "reload", "manifests", "rules", "preview", "execute"}

Request(kind, repositories, digests) ==
  [kind |-> kind, repositories |-> repositories, digests |-> digests]

\* A job, and what it was asked for; under is the rule file its preview used.
Job(kind, request) ==
  [kind |-> kind, request |-> request, stage |-> "started", stopping |-> FALSE,
   outcome |-> None, under |-> None]

\* newList: marks are by name, and a new list has none.
NewList(rows) == [rows |-> rows, marked |-> {}]

Init ==
  /\ opts \in Opening
  /\ repos = NewList(IF opts.liveStats THEN {} ELSE Repository)
  /\ repository = None /\ manifests = NewList({})
  /\ panel = "" /\ plan = Nothing /\ ruleRequest = Nothing
  /\ rules \in {None} \cup (IF opts.client THEN RuleFile ELSE {})
  /\ stale = FALSE
  /\ job = IF opts.liveStats THEN Job("statistics", Nothing) ELSE Nothing
  /\ unlocking = FALSE
  /\ interrupted = FALSE /\ closing = FALSE /\ closed = FALSE
  /\ executions = 0 /\ completed = 0 /\ panicked = 0 /\ dirty = FALSE

-----------------------------------------------------------------------------
(* The job's goroutine *)

Working == job # Nothing /\ job.stage # "done"

\* The context of the job is a child of the explorer's.
Cancelled == job.stopping \/ interrupted

\* Client.Connect, with write access for a preview alone; from then on a signal
\* warns of the locks that a deletion may remove.
Connect ==
  /\ Working /\ job.stage = "started"
  /\ job.kind \in {"statistics", "manifests", "preview"}
  /\ unlocking' = (job.kind = "preview" /\ opts.includeLocked)
  /\ job' = [job EXCEPT !.stage = "connected"]
  /\ UNCHANGED <<opts, lists, screen, rules, stale, ending, history>>

\* What a job may come to. A preview may turn out empty, a scan partial.
Successes(kind) ==
  CASE kind = "preview"    -> {"done", "empty"}
    [] kind = "statistics" -> {"done", "partial"}
    [] OTHER               -> {"done"}

\* The work returns or panics, either of which also happens after it was
\* cancelled, as does a success.
Return ==
  /\ Working
  /\ \E outcome \in Successes(job.kind) \cup {"failed", "panicked", "canceled"} :
       /\ outcome \in Successes(job.kind) /\ job.kind \in {"statistics", "manifests", "preview"}
            => job.stage = "connected"
       /\ outcome = "canceled" => Cancelled
       /\ job' = [job EXCEPT !.stage = "done", !.outcome = outcome,
                             !.under = IF job.kind = "preview" THEN rules ELSE None]
  /\ UNCHANGED <<opts, lists, screen, rules, stale, unlocking, ending, history>>

-----------------------------------------------------------------------------
(* finishJob and finish, on the event loop *)

Finishing == ~closed /\ job # Nothing /\ job.stage = "done"

\* Mutant of Discards: only what says it was cancelled is discarded.
DiscardsErrors == job.outcome = "canceled"

\* "Esc also discards a successful result that raced with the keypress."
Discards == Cancelled

\* The result's kind is lost in a panic.
Executed == job.kind = "execute" /\ job.outcome # "panicked"

Clear(list) == [list EXCEPT !.marked = {}]

\* Whatever became of a deletion, it is reported; the preview is spent and the
\* marks are cleared.
FinishExecution ==
  /\ Executed
  /\ completed' = completed + 1
  /\ panel' = "message" /\ plan' = Nothing
  /\ stale' = TRUE
  /\ repos' = Clear(repos) /\ manifests' = Clear(manifests)
  /\ UNCHANGED <<repository, rules, panicked, dirty>>

Panicking == panicked' = panicked + (IF job.kind = "execute" THEN 1 ELSE 0)

\* A failure of another kind than the cancellation is shown all the same.
FinishCanceled ==
  /\ ~Executed /\ Discards
  /\ panel' = IF job.outcome \in {"failed", "panicked", "partial"} THEN "message" ELSE ""
  /\ plan' = Nothing
  /\ Panicking
  /\ UNCHANGED <<lists, rules, stale, completed, dirty>>

FinishFailed ==
  /\ ~Executed /\ ~Discards /\ job.outcome \in {"failed", "panicked"}
  /\ panel' = "message"
  /\ Panicking
  /\ UNCHANGED <<lists, plan, rules, stale, completed, dirty>>

Succeeded(kind) ==
  ~Discards /\ job.kind = kind /\ job.outcome \notin {"failed", "panicked"}

FinishPreview ==
  /\ Succeeded("preview")
  /\ IF job.outcome = "empty"
     THEN plan' = Nothing /\ panel' = "message"
     ELSE /\ plan' = [kind |-> job.request.kind, request |-> job.request, under |-> job.under]
          /\ panel' = "plan"
  /\ UNCHANGED <<lists, rules, stale, completed, panicked, dirty>>

FinishManifests ==
  /\ Succeeded("manifests")
  /\ \E name \in job.request.repositories : repository' = name
  /\ \E found \in SUBSET Digest : manifests' = NewList(found)
  /\ panel' = ""
  /\ UNCHANGED <<repos, plan, rules, stale, completed, panicked, dirty>>

\* Mutant of FinishStatistics: any new statistics are taken for fresh.
FinishStatisticsFresh ==
  /\ Succeeded("statistics") \/ Succeeded("reload")
  /\ \E found \in SUBSET Repository : repos' = NewList(found)
  /\ stale' = FALSE
  /\ dirty' = (dirty /\ ~(job.kind = "statistics" /\ job.outcome = "done"))
  /\ panel' = IF job.outcome = "partial" THEN "message" ELSE panel
  /\ UNCHANGED <<repository, manifests, plan, rules, completed, panicked>>

\* The statistics of a file, or of a scan that failed in part, may predate a
\* deletion.
FinishStatistics ==
  /\ Succeeded("statistics") \/ Succeeded("reload")
  /\ \E found \in SUBSET Repository : repos' = NewList(found)
  /\ LET fresh == job.kind = "statistics" /\ job.outcome = "done"
     IN  stale' = (stale /\ ~fresh) /\ dirty' = (dirty /\ ~fresh)
  /\ panel' = IF job.outcome = "partial" THEN "message" ELSE panel
  /\ UNCHANGED <<repository, manifests, plan, rules, completed, panicked>>

FinishRules ==
  /\ Succeeded("rules")
  /\ \E file \in RuleFile : rules' = file
  /\ panel' = ""
  /\ UNCHANGED <<lists, plan, stale, completed, panicked, dirty>>

\* Mutant of FinishJob: what quitting asked for is forgotten.
FinishJobStays ==
  /\ Finishing
  /\ \/ FinishExecution \/ FinishCanceled \/ FinishFailed \/ FinishPreview
     \/ FinishManifests \/ FinishStatistics \/ FinishRules
  /\ job' = Nothing
  /\ UNCHANGED <<opts, ruleRequest, unlocking, interrupted, closing, closed, executions>>

FinishJob ==
  /\ Finishing
  /\ \/ FinishExecution \/ FinishCanceled \/ FinishFailed \/ FinishPreview
     \/ FinishManifests \/ FinishStatistics \/ FinishRules
  /\ job' = Nothing
  /\ closed' = closing
  /\ UNCHANGED <<opts, ruleRequest, unlocking, interrupted, closing, executions>>

-----------------------------------------------------------------------------
(* Starting jobs *)

Start(kind, request) == job' = Job(kind, request)

Live == opts.client

\* prepare asks for a rule file first if the request needs one and none is chosen.
Prepare(request) ==
  IF ~Live THEN panel' = "message" /\ UNCHANGED <<plan, ruleRequest, job>>
  ELSE IF request.repositories = {} THEN UNCHANGED <<panel, plan, ruleRequest, job>>
  ELSE IF request.kind = "rules" /\ rules' = None
       THEN panel' = "rule-picker" /\ ruleRequest' = request /\ UNCHANGED <<plan, job>>
  ELSE /\ panel' = "" /\ plan' = Nothing
       /\ ruleRequest' = Nothing
       /\ Start("preview", request)

LoadManifests(name) ==
  IF Live
  THEN Start("manifests", Request("manifests", {name}, {})) /\ UNCHANGED panel
  ELSE panel' = "message" /\ UNCHANGED job

\* A preview by rules of the repositories named.
ByRules(names) == Prepare(Request("rules", names, {}))

\* manualRules forgets what the rules were wanted for.
ManualRules ==
  IF Live THEN panel' = "rules" /\ ruleRequest' = Nothing
  ELSE panel' = "message" /\ UNCHANGED ruleRequest

-----------------------------------------------------------------------------
(* Keys among the rows *)

\* The loop takes a key, and no job is under way.
Key(p) == ~closed /\ job = Nothing /\ panel = p

List == IF repository = None THEN repos ELSE manifests

Mark(names) ==
  IF repository = None
  THEN repos' = [repos EXCEPT !.marked = names] /\ UNCHANGED manifests
  ELSE manifests' = [manifests EXCEPT !.marked = names] /\ UNCHANGED repos

\* What listState.selected() may be: all that is marked, visible or not, or else
\* the row under the cursor, if any is visible.
Selections ==
  IF List.marked # {} THEN {List.marked} ELSE {{name} : name \in List.rows} \cup {{}}

\* Space, a and c.
ChangeMarks ==
  /\ Key("")
  /\ \/ \E name \in List.rows :
          Mark(IF name \in List.marked THEN List.marked \ {name} ELSE List.marked \cup {name})
     \/ \E visible \in SUBSET List.rows :
          Mark(IF visible \subseteq List.marked THEN List.marked \ visible ELSE List.marked \cup visible)
     \/ Mark({})
  /\ UNCHANGED <<opts, repository, screen, rules, stale, job, unlocking, ending, history>>

\* Esc, back to the repositories.
Back ==
  /\ Key("") /\ repository # None
  /\ repository' = None
  /\ UNCHANGED <<opts, repos, manifests, screen, rules, stale, job, unlocking, ending, history>>

\* Enter and m on a repository, m on its statistics, R among its manifests.
Browse ==
  /\ Key("") \/ Key("repository-details")
  /\ \E name \in IF repository = None THEN repos.rows ELSE {repository} : LoadManifests(name)
  /\ UNCHANGED <<opts, lists, plan, ruleRequest, rules, stale, unlocking, ending, history>>

\* R among the repositories: scan the registry again, or read the file.
Reload ==
  /\ Key("") /\ repository = None
  /\ Start(IF opts.liveStats THEN "statistics" ELSE "reload", Nothing)
  /\ UNCHANGED <<opts, lists, screen, rules, stale, unlocking, ending, history>>

\* Enter, i, s and ? show something.
Show ==
  /\ Key("")
  /\ panel' \in {"message", "repository-details"}
  /\ UNCHANGED <<opts, lists, plan, ruleRequest, rules, stale, job, unlocking, ending, history>>

\* l
ChooseRules ==
  /\ Key("")
  /\ panel' = "rule-picker" /\ ruleRequest' = Nothing
  /\ UNCHANGED <<opts, lists, plan, rules, stale, job, unlocking, ending, history>>

\* L, also in the picker.
EnterRules ==
  /\ Key("") \/ Key("rule-picker")
  /\ ManualRules
  /\ UNCHANGED <<opts, lists, plan, rules, stale, job, unlocking, ending, history>>

\* S, and P when nothing is marked: select repositories by a pattern.
ChooseRepositories ==
  /\ Key("")
  /\ \/ repository = None /\ panel' = "mark"
     \/ Live /\ repos.marked = {} /\ panel' = "preview"
     \/ ~Live /\ panel' = "message"
  /\ UNCHANGED <<opts, lists, plan, ruleRequest, rules, stale, job, unlocking, ending, history>>

\* d, p and P
PreviewDeletion ==
  /\ Key("")
  /\ UNCHANGED rules
  /\ \/ \E names \in Selections :
          Prepare(IF repository = None
                  THEN Request("repositories", names, {})
                  ELSE Request("manifests", {repository}, names))
     \/ \E name \in IF repository = None THEN repos.rows ELSE {repository} : ByRules({name})
     \/ Live /\ repos.marked # {} /\ ByRules(repos.marked)
  /\ UNCHANGED <<opts, lists, stale, unlocking, ending, history>>

-----------------------------------------------------------------------------
(* Keys in the panels *)

\* Esc, and i in the rule picker; scrolling through what is shown apart.
ClosePanel ==
  /\ \E p \in {"message", "repository-details", "rule-details", "rules", "mark", "preview", "rule-picker"} :
       /\ Key(p)
       /\ panel' = IF p = "rule-details" THEN "rule-picker"
                   ELSE IF p = "message" /\ plan # Nothing THEN "plan" ELSE ""
       /\ ruleRequest' = IF p = "rule-picker" THEN Nothing ELSE ruleRequest
  /\ UNCHANGED <<opts, lists, plan, rules, stale, job, unlocking, ending, history>>

ShowRule ==
  /\ Key("rule-picker")
  /\ panel' = "rule-details"
  /\ UNCHANGED <<opts, lists, plan, ruleRequest, rules, stale, job, unlocking, ending, history>>

\* Enter in the rule picker: the preview that waited for the choice begins.
PickRule ==
  /\ Key("rule-picker")
  /\ \E file \in RuleFile :
       IF Live
       THEN /\ rules' = file
            /\ IF ruleRequest # Nothing
               THEN Prepare(ruleRequest)
               ELSE panel' = "" /\ UNCHANGED <<plan, ruleRequest, job>>
       ELSE panel' = "message" /\ UNCHANGED <<rules, plan, ruleRequest, job>>
  /\ UNCHANGED <<opts, lists, stale, unlocking, ending, history>>

\* Enter in the panel that asks for a file's name.
ReadRules ==
  /\ Key("rules")
  /\ Start("rules", Nothing)
  /\ UNCHANGED <<opts, lists, screen, rules, stale, unlocking, ending, history>>

\* Enter in the pattern selector, whose matches are of all the rows.
SelectRepositories ==
  /\ UNCHANGED rules
  /\ \E matches \in SUBSET repos.rows \ {{}} :
       \/ Key("preview") /\ ByRules(matches) /\ UNCHANGED repos
       \/ /\ Key("mark")
          /\ repos' = [repos EXCEPT !.marked = @ \cup matches]
          /\ panel' = "" /\ UNCHANGED <<plan, ruleRequest, job>>
  /\ UNCHANGED <<opts, repository, manifests, stale, unlocking, ending, history>>

\* Mutant of LeavePlan: the preview is left, and its plan kept.
LeavePlanKept ==
  /\ Key("plan")
  /\ panel' = ""
  /\ UNCHANGED <<opts, lists, plan, ruleRequest, rules, stale, job, unlocking, ending, history>>

\* Esc discards a preview.
LeavePlan ==
  /\ Key("plan")
  /\ panel' = "" /\ plan' = Nothing
  /\ UNCHANGED <<opts, lists, ruleRequest, rules, stale, job, unlocking, ending, history>>

\* Enter and w show details of it, c asks for confirmation, Esc takes that back.
ReviewPlan ==
  /\ \/ Key("plan") /\ panel' \in {"message", "confirm"}
     \/ Key("confirm") /\ panel' = "plan"
  /\ UNCHANGED <<opts, lists, plan, ruleRequest, rules, stale, job, unlocking, ending, history>>

\* Enter after the exact phrase. The plan is taken, so that it is executed once.
Confirm ==
  /\ Key("confirm") /\ plan # Nothing
  /\ executions < MaxExecutions
  /\ executions' = executions + 1
  /\ Start("execute", plan.request)
  /\ panel' = "" /\ plan' = Nothing
  /\ dirty' = TRUE
  /\ UNCHANGED <<opts, lists, ruleRequest, rules, stale, unlocking, ending, completed, panicked>>

-----------------------------------------------------------------------------
(* Cancelling and closing *)

Stop == job' = [job EXCEPT !.stopping = TRUE]

\* Esc while a job is under way.
CancelJob ==
  /\ ~closed /\ job # Nothing /\ ~job.stopping
  /\ Stop
  /\ UNCHANGED <<opts, lists, screen, rules, stale, unlocking, ending, history>>

\* Mutant of Close: it does not wait for the job.
CloseAtOnce ==
  /\ ~closed /\ ~closing
  /\ closing' = TRUE /\ closed' = TRUE
  /\ UNCHANGED <<opts, lists, screen, rules, stale, job, unlocking, interrupted, history>>

\* q, Ctrl-C, a signal noticed, a lost terminal, or a panic of the loop itself: an
\* operation under way is cancelled and waited for.
Close ==
  /\ ~closed /\ ~closing
  /\ closing' = TRUE
  /\ IF job = Nothing
     THEN closed' = TRUE /\ UNCHANGED job
     ELSE Stop /\ UNCHANGED closed
  /\ UNCHANGED <<opts, lists, screen, rules, stale, unlocking, interrupted, history>>

\* A signal cancels the context; the loop sees it some time later.
Interrupt ==
  /\ ~closed /\ ~interrupted
  /\ interrupted' = TRUE
  /\ UNCHANGED <<opts, lists, screen, rules, stale, job, unlocking, closing, closed, history>>

Goroutine == Connect \/ Return

Keys ==
  \/ ChangeMarks \/ Back \/ Browse \/ Reload \/ Show \/ ChooseRules \/ EnterRules
  \/ ChooseRepositories \/ PreviewDeletion \/ ClosePanel \/ ShowRule \/ PickRule
  \/ ReadRules \/ SelectRepositories \/ LeavePlan \/ ReviewPlan \/ Confirm

Next == Goroutine \/ FinishJob \/ Keys \/ CancelJob \/ Close \/ Interrupt

Spec == Init /\ [][Next]_vars

\* Cancelled work returns, the loop takes what the goroutine sends it, and it
\* notices a signal.
FairSpec ==
  /\ Spec
  /\ WF_vars(Return /\ Cancelled)
  /\ WF_vars(FinishJob)
  /\ WF_vars(Close /\ interrupted)

-----------------------------------------------------------------------------
(* Properties *)

TypeOK ==
  /\ opts \in Opening
  /\ repos.marked \subseteq repos.rows /\ repos.rows \subseteq Repository
  /\ manifests.marked \subseteq manifests.rows /\ manifests.rows \subseteq Digest
  /\ repository \in {None} \cup Repository
  /\ panel \in Panels
  /\ rules \in {None} \cup RuleFile
  /\ stale \in BOOLEAN /\ unlocking \in BOOLEAN /\ dirty \in BOOLEAN
  /\ interrupted \in BOOLEAN /\ closing \in BOOLEAN /\ closed \in BOOLEAN
  /\ executions \in 0..MaxExecutions /\ completed \in 0..executions /\ panicked \in 0..executions

\* README: "No action scoped to the snapshot can reach another repository in the
\* registry." What is under review, and what is being deleted, was selected from
\* the rows now loaded, whatever was reloaded, browsed, cancelled or chosen since
\* the explorer was opened; and a preview by rules is of the rules on display.
Reaches(request) ==
  /\ request.repositories \subseteq repos.rows
  /\ request.kind = "manifests" =>
       request.repositories = {repository} /\ request.digests \subseteq manifests.rows

WithinWhatIsShown ==
  /\ plan # Nothing => Reaches(plan.request) /\ (plan.kind = "rules" => plan.under = rules)
  /\ job # Nothing /\ job.kind \in {"preview", "execute"} => Reaches(job.request)

\* signal.go, unlocking: "set when the run removes locks to delete, so that the
\* messages say what an interruption means for them". The flag is that of the
\* latest connection, and a deletion makes none of its own.
AnnouncesUnlocking ==
  job # Nothing /\ job.kind = "execute" /\ opts.includeLocked => unlocking

\* What is confirmed is what is shown: its extent, and what it does to locks.
ConfirmsWhatIsShown == WithinWhatIsShown /\ AnnouncesUnlocking

\* README: "Canceled reads keep the previous snapshot, image list, rules, filters,
\* and marks, even if a result arrives just after cancellation."
CanceledReadsKeepAll ==
  [][job # Nothing /\ job' = Nothing /\ job.stopping /\ job.kind # "execute"
       => UNCHANGED <<lists, rules, stale>> /\ plan' = Nothing]_vars

\* README: "After cleanup it marks the snapshot as potentially stale", until a
\* complete scan of the registry; a deletion that panicked is the exception.
StaleUntilRescanned ==
  dirty /\ (job = Nothing \/ job.kind # "execute") => stale \/ panicked > 0

\* README: "active requests and lock restores finish before the terminal closes",
\* and Run logs every cleanup then: nothing is under way, and no deletion begun
\* is missing from that log but one that panicked.
ClosesWhenAllIsDone ==
  closed => job = Nothing /\ executions = completed + panicked

\* Whatever is under way, quitting and cancelling come to an end.
CancellingEnds ==
  /\ (closing \/ interrupted) ~> closed
  /\ (job # Nothing /\ job.stopping) ~> (job = Nothing)

=============================================================================
