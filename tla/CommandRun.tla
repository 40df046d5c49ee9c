----------------------------- MODULE CommandRun -----------------------------
(***************************************************************************)
(* One run of the program, from run of cmd/crprune/main.go to its exit     *)
(* status: the goroutine that handles signals (signal.go), the progress    *)
(* display and the work that runs under it (internal/progress), and the    *)
(* ownership of the terminal (internal/tui) that a forced exit takes over. *)
(* The work itself is any that may warn, fail, panic or hang, and that     *)
(* ends when it is cancelled unless it hangs.                              *)
(***************************************************************************)
EXTENDS Naturals, Sequences, SequencesExt

CONSTANTS
  Mode,          \* how progress may be shown: "plain", "auto", "tui"
  WarningLimit,  \* progress.warningLimit, what the display retains
  MaxWarnings,   \* bound: the warnings of the work
  MaxSignals     \* bound: the signals sent to the process

ASSUME ModeValid == Mode \subseteq {"plain", "auto", "tui"}
ASSUME LimitsNatural == /\ WarningLimit \in Nat \ {0}
                        /\ MaxWarnings \in Nat /\ MaxSignals \in Nat

VARIABLES
  mode,
  main,      \* what the main goroutine is doing
  work,      \* what the work's goroutine is doing
  result,    \* what the work came to
  handler,   \* what the signal handler is doing
  buffered,  \* whether the channel of signals holds one
  sent,      \* how many signals were sent
  cause,     \* whether the run's context was cancelled by a signal
  key,       \* whether a key cancelled the display's context
  fault,     \* what ended the display before its work: "lost", "panicked"
  terminal,  \* the terminal: "cooked", "raw", "owned" or "restored"
  mutex,     \* who holds the mutex of the displays
  display,   \* whether interrupts.display is set
  logger,    \* what the handler found it to be
  said,      \* where the first signal was reported
  tracker,   \* the warnings the display retains, and how many it dropped
  warnings,  \* how many the work logged
  summary,   \* the tracker, as printed
  status     \* the exit status: 0, 1, 130 or 143, or of a crash

signals == <<handler, buffered, sent, logger, said>>
screen  == <<terminal, mutex, display>>
logs    == <<tracker, warnings>>
ctx     == <<cause, key, fault>>
vars    == <<mode, main, work, result, signals, ctx, screen, logs, summary, status>>

Running    == "running"
None       == "none"
Forced     == "forced"
Free       == "free"
EmptyLog   == [kept |-> <<>>, dropped |-> 0]
NoSummary  == [printed |-> FALSE]

Init ==
  /\ mode \in Mode
  /\ main = "starting" /\ work = None /\ result = None
  /\ handler = "waiting" /\ buffered = FALSE /\ sent = 0 /\ logger = None /\ said = None
  /\ cause = FALSE /\ key = FALSE /\ fault = None
  /\ terminal = "cooked" /\ mutex = Free /\ display = FALSE
  /\ tracker = EmptyLog /\ warnings = 0
  /\ summary = NoSummary /\ status = Running

Alive == status = Running

-----------------------------------------------------------------------------
(* The tracker *)

\* Mutant of Retain: the count of what is dropped is forgotten.
RetainUncounted(log, entry) ==
  IF Len(log.kept) = WarningLimit
  THEN [kept |-> Append(Tail(log.kept), entry), dropped |-> log.dropped]
  ELSE [kept |-> Append(log.kept, entry), dropped |-> log.dropped]

\* appendBounded drops the oldest entry of a full log.
Retain(log, entry) ==
  IF Len(log.kept) = WarningLimit
  THEN [kept |-> Append(Tail(log.kept), entry), dropped |-> log.dropped + 1]
  ELSE [kept |-> Append(log.kept, entry), dropped |-> log.dropped]

-----------------------------------------------------------------------------
(* The terminal's ownership: Own, OnScreen, Disown and RestoreTerminal hold *)
(* one mutex                                                                *)

\* A screen is finalized by whoever finds it owned.
Restored == IF terminal = "owned" THEN "restored" ELSE terminal

-----------------------------------------------------------------------------
(* The main goroutine: progress.Run and runScreen *)

\* Without a display the work runs here; else screen.Init puts the terminal in
\* raw mode, or fails: then the logs are plain after all, or the run is over.
Begin ==
  /\ Alive /\ main = "starting"
  /\ \/ /\ mode \in {"plain", "auto"}
        /\ main' = "working" /\ work' = "working" /\ UNCHANGED <<terminal, result>>
     \/ /\ mode \in {"auto", "tui"}
        /\ main' = "initialized" /\ terminal' = "raw" /\ UNCHANGED <<work, result>>
     \/ /\ mode = "tui"
        /\ main' = "returning" /\ result' = "failed" /\ UNCHANGED <<work, terminal>>
  /\ UNCHANGED <<mode, signals, ctx, mutex, display, logs, summary, status>>

\* tui.Own; the work's goroutine starts.
Own ==
  /\ Alive /\ main = "initialized" /\ mutex = Free
  /\ terminal' = "owned"
  /\ main' = "loop" /\ work' = "beginning"
  /\ UNCHANGED <<mode, result, signals, ctx, mutex, display, logs, summary, status>>

\* Mutant of Draw: whether the screen is owned is looked up without the mutex.
DrawUnlocked ==
  /\ Alive /\ main = "loop"
  /\ main' = IF terminal = "owned" THEN "drawing" ELSE "selecting"
  /\ UNCHANGED <<mode, work, result, signals, ctx, screen, logs, summary, status>>

\* OnScreen: nothing is drawn on a screen that was restored.
Draw ==
  /\ Alive /\ main = "loop" /\ mutex = Free
  /\ IF terminal = "owned"
     THEN main' = "drawing" /\ mutex' = "main"
     ELSE main' = "selecting" /\ UNCHANGED mutex
  /\ UNCHANGED <<mode, work, result, signals, ctx, terminal, display, logs, summary, status>>

Drawn ==
  /\ Alive /\ main = "drawing"
  /\ main' = "selecting"
  /\ mutex' = Free
  /\ UNCHANGED <<mode, work, result, signals, ctx, terminal, display, logs, summary, status>>

\* A panic of draw: OnScreen lets go of the mutex, runScreen cancels the work.
Break ==
  /\ Alive /\ main = "drawing"
  /\ main' = "leaving"
  /\ mutex' = Free
  /\ fault' = "panicked"
  /\ UNCHANGED <<mode, work, result, signals, cause, key, terminal, display, logs, summary, status>>

\* The loop: the result, a key or a tick.
Select ==
  /\ Alive /\ main = "selecting"
  /\ \/ result # None /\ work = "finished" /\ main' = "leaving" /\ UNCHANGED key
     \/ main' = "loop" /\ key' \in {key, TRUE}
  /\ UNCHANGED <<mode, work, result, signals, cause, fault, screen, logs, summary, status>>

\* Mutant of Lose: the work is not waited for.
LoseAtOnce ==
  /\ Alive /\ main = "selecting"
  /\ fault' = "lost"
  /\ main' = "disowning"
  /\ UNCHANGED <<mode, work, result, signals, cause, key, screen, logs, summary, status>>

\* The stream of events is lost: the work is cancelled.
Lose ==
  /\ Alive /\ main = "selecting"
  /\ fault' = "lost"
  /\ main' = "leaving"
  /\ UNCHANGED <<mode, work, result, signals, cause, key, screen, logs, summary, status>>

\* runScreen returns only after the work has finished, however it leaves.
Leave ==
  /\ Alive /\ main = "leaving" /\ work = "finished"
  /\ main' = "disowning"
  /\ UNCHANGED <<mode, work, result, signals, ctx, screen, logs, summary, status>>

\* A panic of the display goes on once the terminal is restored.
Disown ==
  /\ Alive /\ main = "disowning" /\ mutex = Free
  /\ terminal' = Restored
  /\ main' = IF fault = "panicked" THEN "returning" ELSE "summarizing"
  /\ UNCHANGED <<mode, work, result, signals, ctx, mutex, display, logs, summary, status>>

\* The summary and the warnings retained are printed on the restored terminal.
Summarize ==
  /\ Alive /\ main = "summarizing"
  /\ summary' = tracker
  /\ main' = "returning"
  /\ UNCHANGED <<mode, work, result, signals, ctx, screen, logs, status>>

ReturnPlain ==
  /\ Alive /\ main = "working" /\ work = "finished"
  /\ main' = "returning"
  /\ UNCHANGED <<mode, work, result, signals, ctx, screen, logs, summary, status>>

\* exitCode; a panic of the work is raised again once the terminal is restored.
\* The error of a lost terminal is joined with the work's.
ExitCode ==
  IF result = "panicked" \/ fault = "panicked" THEN "crash"
  ELSE IF result = "ok" /\ fault = None THEN "success"
  ELSE IF cause \/ result = "canceled" THEN "interrupted" ELSE "failure"

Exit ==
  /\ Alive /\ main = "returning"
  /\ status' = ExitCode
  /\ UNCHANGED <<mode, main, work, result, signals, ctx, screen, logs, summary>>

-----------------------------------------------------------------------------
(* The work's goroutine *)

\* display tells the signal handler where to log.
Register ==
  /\ Alive /\ work = "beginning"
  /\ display' = TRUE
  /\ work' = "working"
  /\ UNCHANGED <<mode, main, result, signals, ctx, terminal, mutex, logs, summary, status>>

\* Under a display a warning is captured by the tracker.
Warn ==
  /\ Alive /\ work = "working" /\ warnings < MaxWarnings
  /\ warnings' = warnings + 1
  /\ tracker' = IF main = "working" THEN tracker ELSE Retain(tracker, "work")
  /\ UNCHANGED <<mode, main, work, result, signals, ctx, screen, summary, status>>

Stopping == cause \/ key \/ fault # None

Finish ==
  /\ Alive /\ work = "working"
  /\ \E outcome \in {"ok", "failed", "panicked", "canceled"} :
       /\ outcome = "canceled" => Stopping
       /\ result' = outcome
  /\ work' = IF main = "working" THEN "finished" ELSE "unregistering"
  /\ UNCHANGED <<mode, main, signals, ctx, screen, logs, summary, status>>

Unregister ==
  /\ Alive /\ work = "unregistering"
  /\ display' = FALSE
  /\ work' = "finished"
  /\ UNCHANGED <<mode, main, result, signals, ctx, terminal, mutex, logs, summary, status>>

-----------------------------------------------------------------------------
(* The signal handler *)

\* The channel holds one signal; another that comes meanwhile is dropped.
Signal ==
  /\ Alive /\ sent < MaxSignals
  /\ sent' = sent + 1 /\ buffered' = TRUE
  /\ UNCHANGED <<mode, main, work, result, handler, logger, said, ctx, screen, logs, summary, status>>

Handle(from, to) ==
  /\ Alive /\ handler = from /\ handler' = to

TakeFirst ==
  /\ Handle("waiting", "reporting") /\ buffered
  /\ buffered' = FALSE
  /\ UNCHANGED <<mode, main, work, result, sent, logger, said, ctx, screen, logs, summary, status>>

\* logger(): the display's if it is set, or else stderr.
Look ==
  /\ Handle("reporting", "logging")
  /\ logger' = IF display THEN "display" ELSE "stderr"
  /\ UNCHANGED <<mode, main, work, result, buffered, sent, said, ctx, screen, logs, summary, status>>

\* What is logged on a display that is over is in no summary.
Report ==
  /\ Handle("logging", "canceling")
  /\ IF logger = "display"
     THEN /\ said' = IF main = "returning" THEN "late" ELSE "display"
          /\ tracker' = Retain(tracker, "signal")
     ELSE /\ said' = IF terminal = "owned" THEN "across" ELSE "stderr"
          /\ UNCHANGED tracker
  /\ UNCHANGED <<mode, main, work, result, buffered, sent, logger, ctx, screen, warnings, summary, status>>

Cancel ==
  /\ Handle("canceling", "armed")
  /\ cause' = TRUE
  /\ UNCHANGED <<mode, main, work, result, buffered, sent, logger, said, key, fault, screen, logs, summary, status>>

\* Mutant of TakeSecond: the second signal waits for the work, too.
TakeSecondWaiting ==
  /\ Handle("armed", "restoring") /\ buffered /\ work = "finished"
  /\ buffered' = FALSE
  /\ UNCHANGED <<mode, main, work, result, sent, logger, said, ctx, screen, logs, summary, status>>

TakeSecond ==
  /\ Handle("armed", "restoring") /\ buffered
  /\ buffered' = FALSE
  /\ UNCHANGED <<mode, main, work, result, sent, logger, said, ctx, screen, logs, summary, status>>

\* RestoreTerminal
Restore ==
  /\ Handle("restoring", "exiting") /\ mutex = Free
  /\ terminal' = Restored
  /\ UNCHANGED <<mode, main, work, result, buffered, sent, logger, said, ctx, mutex, display, logs, summary, status>>

\* Exit at once, whatever is under way.
ForceExit ==
  /\ Handle("exiting", "exited")
  /\ status' = Forced
  /\ UNCHANGED <<mode, main, work, result, buffered, sent, logger, said, ctx, screen, logs, summary>>

Main ==
  \/ Begin \/ Own \/ Draw \/ Drawn \/ Break \/ Select \/ Lose
  \/ Leave \/ Disown \/ Summarize \/ ReturnPlain \/ Exit

Work == Register \/ Warn \/ Finish \/ Unregister

Handler == TakeFirst \/ Look \/ Report \/ Cancel \/ TakeSecond \/ Restore \/ ForceExit

Next == Main \/ Work \/ Handler \/ Signal

Spec == Init /\ [][Next]_vars

\* The goroutines run, the mutex starves none of them, and select chooses the
\* result some time although keys and ticks keep coming. Nothing is assumed of
\* the work: it may hang.
FairSpec ==
  /\ Spec
  /\ WF_vars(Main) /\ SF_vars(Select /\ main' = "leaving")
  /\ SF_vars(Handler)
  /\ WF_vars(Register) /\ WF_vars(Unregister)

-----------------------------------------------------------------------------
(* Properties *)

TypeOK ==
  /\ mode \in Mode
  /\ main \in {"starting", "working", "initialized", "loop", "drawing", "selecting", "leaving",
               "disowning", "summarizing", "returning"}
  /\ work \in {None, "beginning", "working", "unregistering", "finished"}
  /\ result \in {None, "ok", "failed", "panicked", "canceled"}
  /\ handler \in {"waiting", "reporting", "logging", "canceling", "armed", "restoring", "exiting", "exited"}
  /\ buffered \in BOOLEAN /\ cause \in BOOLEAN /\ key \in BOOLEAN /\ fault \in {None, "lost", "panicked"}
  /\ display \in BOOLEAN /\ sent \in 0..MaxSignals
  /\ terminal \in {"cooked", "raw", "owned", "restored"}
  /\ mutex \in {Free, "main"}
  /\ said \in {None, "display", "late", "stderr", "across"}
  /\ Len(tracker.kept) <= WarningLimit /\ tracker.dropped \in Nat
  /\ warnings \in 0..MaxWarnings

\* progress.Run: the terminal is "restored only after every worker has stopped".
\* Unless a second signal forces it, the process does not end while the work,
\* which may be restoring locks, is under way: also when the display fails or
\* panics.
WorkIsWaitedFor == status \notin {Running, Forced} => work \in {None, "finished"}

\* tui: "a forced exit can restore either interface, without racing a draw or
\* finalizing the same screen twice"; "once restored, displays draw nothing more".
\* Nothing is drawn on a terminal that was restored meanwhile, and a process that
\* ends by itself leaves it restored.
TerminalIsHandedBack ==
  /\ main = "drawing" => terminal = "owned"
  /\ status \notin {Running, Forced} => terminal \in {"cooked", "restored"}

\* signal.go: "Log before waking workers: they can finish and exit the process as
\* soon as their context is canceled, losing the stopping message." A run whose
\* work nothing but a signal cut short said so on stderr or, through its display,
\* in the summary, as one of the warnings retained or of those counted as omitted.
StopIsAnnounced ==
  status = "interrupted" /\ result = "canceled" /\ ~key /\ fault = None =>
    \/ said \in {"stderr", "across"}
    \/ said = "display" /\ ("signal" \in ToSet(summary.kept) \/ summary.dropped > 0)

Entries(log) == Len(log.kept) + log.dropped

\* The summary the display leaves behind, whenever and however it ends, retains or
\* counts as omitted every warning of the work and the message of a signal that
\* was reported before it, each once, and nothing else.
SummaryAccountsForAll ==
  summary # NoSummary => Entries(summary) = warnings + (IF said = "display" THEN 1 ELSE 0)

\* What an exit status says of the run. A success did all its work, although a
\* signal came at the end; a failure or an interruption did not, or lost its
\* terminal; a crash is a panic, of the work or of the display. Only a run that a
\* signal or a key interrupted has the status of one, with one exception: when
\* the terminal is lost, runScreen cancels the work itself, and exitCode takes the
\* cancellation for that of a key, also when there was neither key nor signal
\* (although main.go speaks of "Ctrl-C in the terminal display", and README of
\* status "1 on failure").
StatusIsTruthful ==
  /\ status = "success" => result = "ok"
  /\ status \in {"failure", "interrupted"} => result # "ok" \/ fault = "lost"
  /\ status = "crash" => result = "panicked" \/ fault = "panicked"
  /\ status = "interrupted" =>
       \/ sent > 0
       \/ result = "canceled" /\ (key \/ fault = "lost")

\* However a run ends, the terminal is usable and says why it was stopped.
TerminalTellsTheEnd == TerminalIsHandedBack /\ StopIsAnnounced

\* What a run leaves behind, its summary and its status, is true of it.
OutcomeIsTold == SummaryAccountsForAll /\ StatusIsTruthful

\* signal.go: "A second exits at once", also when the work hangs and whatever the
\* display is doing; and a run ends once its work has.
SignalsEndTheRun ==
  /\ (handler = "armed" /\ buffered) ~> status # Running
  /\ work = "finished" ~> status # Running

\* README: "A second signal exits at once, restoring the terminal if the dashboard
\* owns it." The display may come to own it between the restoring and the exit,
\* and does nothing to find out.
ForcedExitRestores == status = Forced => terminal # "owned"

=============================================================================
