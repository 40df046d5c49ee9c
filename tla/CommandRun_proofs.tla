--------------------------- MODULE CommandRun_proofs ---------------------------
(***************************************************************************)
(* How a run ends, whatever the display retains, however many warnings the *)
(* work logs and signals arrive. StageInv says how far the work and the    *)
(* terminal can be while the main goroutine does what it does; SignalInv   *)
(* what the handler did before the work could see itself cancelled; and    *)
(* LogInv that nothing is dropped from the log uncounted. A process that   *)
(* has ended changes no more, so EndInv speaks of its last step.           *)
(***************************************************************************)
EXTENDS CommandRun, TLAPS

Ended == status \notin {Running, Forced}

Log == [kept : Seq({"work", "signal"}), dropped : Nat]

\* Where the display has not begun, it registers no logger.
Early == {"starting", "working", "initialized"}

\* Where the work has been waited for.
Late == {"disowning", "summarizing", "returning"}

StageInv ==
  /\ main \in {"starting", "initialized"} => work = None /\ warnings = 0
  /\ main \in Late => work = "finished" \/ (main = "returning" /\ work = None)
  /\ main \in {"starting", "working"} => terminal = "cooked"
  /\ main = "initialized" => terminal = "raw"
  /\ main \in {"loop", "drawing", "selecting", "leaving", "disowning"} =>
       terminal \in {"owned", "restored"}
  /\ main \in {"summarizing", "returning"} => terminal \in {"cooked", "restored"}
  /\ main = "drawing" => terminal = "owned" /\ mutex = "main"
  /\ work \in {"beginning", "working"} => result = None
  /\ main \in {"starting", "initialized"} => result = None
  /\ main \in {"starting", "initialized", "working"} => work # "beginning" /\ work # "unregistering"

SignalInv ==
  /\ buffered \/ handler # "waiting" => sent > 0
  /\ cause => handler \in {"armed", "restoring", "exiting", "exited"}
  /\ handler \in {"waiting", "reporting", "logging"} => said = None
  /\ handler \in {"canceling", "armed", "restoring", "exiting", "exited"} => said # None
  /\ said = "late" => main = "returning"
  /\ result = "canceled" /\ ~key /\ fault = None => cause /\ said # "late"
  /\ main \in Early => ~display /\ logger # "display" /\ said # "display"
  /\ logger \in {None, "display", "stderr"}

Announced(log) == "signal" \in ToSet(log.kept) \/ log.dropped > 0

Signalled == IF said = "display" THEN 1 ELSE 0

LogInv ==
  /\ tracker \in Log
  /\ main # "returning" => summary = NoSummary
  /\ main \notin {"working", "returning"} => Entries(tracker) = warnings + Signalled
  /\ main # "returning" /\ said = "display" => Announced(tracker)
  /\ main = "returning" /\ said = "display" /\ fault # "panicked" => Announced(summary)
  /\ SummaryAccountsForAll

EndInv ==
  /\ Ended => main = "returning" /\ status = ExitCode
  /\ status \in {Running, Forced, "success", "failure", "interrupted", "crash"}

IInv == TypeOK /\ StageInv /\ SignalInv /\ LogInv /\ EndInv

-----------------------------------------------------------------------------
(* The log *)

\* An entry is retained, or counted as dropped, and an entry dropped for it is
\* counted.
LEMMA RetainKeeps ==
  ASSUME NEW log \in Log, NEW entry \in {"work", "signal"}, Len(log.kept) <= WarningLimit
  PROVE  LET r == Retain(log, entry)
         IN /\ r \in Log /\ Len(r.kept) <= WarningLimit
            /\ Entries(r) = Entries(log) + 1
            /\ entry = "signal" => Announced(r)
            /\ Announced(log) => Announced(r)
<1> DEFINE r == Retain(log, entry)
<1>1. log.kept \in Seq({"work", "signal"}) /\ log.dropped \in Nat /\ Len(log.kept) \in Nat
  BY DEF Log
<1>2. CASE Len(log.kept) = WarningLimit
  <2>1. r = [kept |-> Append(Tail(log.kept), entry), dropped |-> log.dropped + 1]
    BY <1>2 DEF Retain
  <2>2. log.kept # <<>>
    BY <1>1, <1>2, LimitsNatural
  <2>3. /\ Tail(log.kept) \in Seq({"work", "signal"})
        /\ Len(Tail(log.kept)) = Len(log.kept) - 1
    BY <1>1, <2>2
  <2>4. /\ r.kept \in Seq({"work", "signal"})
        /\ Len(r.kept) = Len(log.kept)
    BY <1>1, <2>1, <2>3
  <2>5. r.dropped = log.dropped + 1 /\ r.dropped > 0 /\ r.dropped \in Nat
    BY <1>1, <2>1
  <2>6. r \in Log
    BY <2>1, <2>4, <2>5 DEF Log
  <2>7. Announced(r)
    BY <2>5 DEF Announced
  <2> HIDE DEF r
  <2>8. /\ Len(r.kept) <= WarningLimit
        /\ Entries(r) = Entries(log) + 1
    BY <1>1, <1>2, <2>4, <2>5, LimitsNatural DEF Entries
  <2> QED
    BY <2>6, <2>7, <2>8 DEF r
<1>3. CASE Len(log.kept) # WarningLimit
  <2>1. r = [kept |-> Append(log.kept, entry), dropped |-> log.dropped]
    BY <1>3 DEF Retain
  <2>2. /\ r.kept \in Seq({"work", "signal"})
        /\ Len(r.kept) = Len(log.kept) + 1
        /\ r.kept[Len(log.kept) + 1] = entry
        /\ \A i \in 1..Len(log.kept) : r.kept[i] = log.kept[i]
    BY <1>1, <2>1
  <2>3. entry \in ToSet(r.kept)
    BY <1>1, <2>2 DEF ToSet
  <2>4. r.dropped = log.dropped
    BY <2>1
  <2>5. r \in Log
    BY <1>1, <2>1, <2>2, <2>4 DEF Log
  <2>6. ASSUME "signal" \in ToSet(log.kept) PROVE "signal" \in ToSet(r.kept)
    <3>1. PICK i \in 1..Len(log.kept) : log.kept[i] = "signal"
      BY <1>1, <2>6 DEF ToSet
    <3>2. i \in DOMAIN r.kept /\ r.kept[i] = "signal"
      BY <1>1, <2>2, <3>1
    <3> QED
      BY <3>2 DEF ToSet
  <2> HIDE DEF r
  <2>7. /\ Len(r.kept) <= WarningLimit
        /\ Entries(r) = Entries(log) + 1
    <3>1. Len(log.kept) < WarningLimit
      BY <1>1, <1>3, LimitsNatural
    <3>2. Len(r.kept) = Len(log.kept) + 1
      BY <2>2
    <3> QED
      BY <1>1, <2>4, <3>1, <3>2, LimitsNatural DEF Entries
  <2> QED
    BY <2>3, <2>4, <2>5, <2>6, <2>7 DEF Announced, r
<1> QED
  BY <1>2, <1>3

-----------------------------------------------------------------------------
(* The invariant *)

\* The command begins with the invariant.
LEMMA InitInv == Init => IInv
<1> SUFFICES ASSUME Init PROVE IInv
  OBVIOUS
<1>1. /\ tracker = [kept |-> <<>>, dropped |-> 0] /\ tracker \in Log
      /\ Len(tracker.kept) = 0 /\ tracker.dropped = 0 /\ Entries(tracker) = 0
  BY DEF Init, EmptyLog, Log, Entries
<1> USE DEF Init, Running, None, Forced, Free
<1>2. TypeOK
  <2>1. /\ buffered \in BOOLEAN /\ cause \in BOOLEAN /\ key \in BOOLEAN
        /\ display \in BOOLEAN
    OBVIOUS
  <2>2. sent \in 0..MaxSignals /\ warnings \in 0..MaxWarnings
    BY LimitsNatural
  <2>3. Len(tracker.kept) <= WarningLimit /\ tracker.dropped \in Nat
    BY <1>1, LimitsNatural
  <2> QED
    BY <2>1, <2>2, <2>3 DEF TypeOK
<1>3. StageInv
  BY DEF StageInv, Late
<1>4. SignalInv
  <2>1. ~buffered /\ ~cause /\ ~display
    OBVIOUS
  <2> QED
    BY <2>1 DEF SignalInv, Early
<1>5. LogInv
  BY <1>1 DEF LogInv, SummaryAccountsForAll, Signalled
<1>6. EndInv
  BY DEF EndInv, Ended
<1> QED
  BY <1>2, <1>3, <1>4, <1>5, <1>6 DEF IInv

\* What the main goroutine does.
LEMMA MainStep == IInv /\ Main => IInv'
<1> SUFFICES ASSUME IInv, Main PROVE IInv'
  OBVIOUS
<1> USE DEF IInv, TypeOK, StageInv, SignalInv, LogInv, EndInv, SummaryAccountsForAll, Signalled, Announced,
            Alive, Running, None, Forced, Free, Early, Late, Ended, signals, ctx, screen, logs
<1>1. CASE Begin
  BY <1>1 DEF Begin
<1>2. CASE Own
  BY <1>2 DEF Own
<1>3. CASE Draw
  BY <1>3 DEF Draw
<1>4. CASE Drawn
  BY <1>4 DEF Drawn
<1>5. CASE Select
  <2>1. key' \in BOOLEAN /\ (key => key')
    BY <1>5 DEF Select
  <2>2. CASE main' = "leaving"
    BY <1>5, <2>1, <2>2 DEF Select
  <2>3. CASE main' = "loop"
    BY <1>5, <2>1, <2>3 DEF Select
  <2> QED
    BY <1>5, <2>2, <2>3 DEF Select
<1>6. CASE Lose
  BY <1>6 DEF Lose
<1>7. CASE Leave
  BY <1>7 DEF Leave
<1>8. CASE Disown
  BY <1>8 DEF Disown, Restored
<1>9. CASE Summarize
  BY <1>9 DEF Summarize
<1>10. CASE ReturnPlain
  BY <1>10 DEF ReturnPlain
<1>11. CASE Exit
  BY <1>11 DEF Exit, ExitCode
<1>12. CASE Break
  BY <1>12 DEF Break
<1> QED
  BY <1>1, <1>2, <1>3, <1>4, <1>5, <1>6, <1>7, <1>8, <1>9, <1>10, <1>11, <1>12 DEF Main

\* What the work does.
LEMMA WorkStep == IInv /\ Work => IInv'
<1> SUFFICES ASSUME IInv, Work PROVE IInv'
  OBVIOUS
<1> USE DEF IInv, TypeOK, StageInv, SignalInv, LogInv, EndInv, SummaryAccountsForAll, Signalled,
            Alive, Running, None, Forced, Free, Early, Late, Ended, signals, ctx, screen, logs
<1>1. CASE Register
  BY <1>1 DEF Register
<1>2. CASE Warn
  <2>1. CASE main = "working"
    BY <1>2, <2>1, LimitsNatural DEF Warn
  <2>2. CASE main # "working"
    <3>1. tracker' = Retain(tracker, "work") /\ warnings' = warnings + 1
      BY <1>2, <2>2 DEF Warn
    <3>2. /\ tracker' \in Log /\ Len(tracker'.kept) <= WarningLimit
          /\ Entries(tracker') = Entries(tracker) + 1
          /\ Announced(tracker) => Announced(tracker')
      BY <3>1, RetainKeeps
    <3>3. Entries(tracker) \in Nat /\ tracker'.dropped \in Nat
      BY <3>2 DEF Log, Entries
    <3>4. warnings' \in 0..MaxWarnings
      BY <1>2, LimitsNatural DEF Warn
    <3> HIDE DEF Announced
    <3> QED
      BY <1>2, <2>2, <3>1, <3>2, <3>3, <3>4 DEF Warn
  <2> QED
    BY <2>1, <2>2
<1>3. CASE Finish
  BY <1>3 DEF Finish, Stopping
<1>4. CASE Unregister
  <2>1. display' \in BOOLEAN /\ ~display'
    BY <1>4 DEF Unregister
  <2> QED
    BY <1>4, <2>1 DEF Unregister
<1> QED
  BY <1>1, <1>2, <1>3, <1>4 DEF Work

\* What the signal handler does, and a signal.
LEMMA HandlerStep == IInv /\ (Handler \/ Signal) => IInv'
<1> SUFFICES ASSUME IInv, Handler \/ Signal PROVE IInv'
  OBVIOUS
<1> USE DEF IInv, TypeOK, StageInv, SignalInv, LogInv, EndInv, SummaryAccountsForAll, Signalled, Handle,
            Alive, Running, None, Forced, Free, Early, Late, Ended, signals, ctx, screen, logs
<1>1. CASE TakeFirst
  <2>1. buffered' \in BOOLEAN /\ ~buffered'
    BY <1>1 DEF TakeFirst
  <2> QED
    BY <1>1, <2>1 DEF TakeFirst
<1>2. CASE Look
  BY <1>2 DEF Look
<1>3. CASE Report
  <2>1. CASE logger = "display"
    <3>1. /\ tracker' = Retain(tracker, "signal")
          /\ said' = IF main = "returning" THEN "late" ELSE "display"
      BY <1>3, <2>1 DEF Report
    <3>2. /\ tracker' \in Log /\ Len(tracker'.kept) <= WarningLimit
          /\ Entries(tracker') = Entries(tracker) + 1
          /\ Announced(tracker')
      BY <3>1, RetainKeeps
    <3>3. Entries(tracker) \in Nat /\ tracker'.dropped \in Nat
      BY <3>2 DEF Log, Entries
    <3>4. said = None /\ ~cause /\ handler' = "canceling"
      BY <1>3 DEF Report
    <3>5. CASE main = "returning"
      BY <1>3, <2>1, <3>1, <3>2, <3>3, <3>4, <3>5 DEF Report
    <3>6. CASE main # "returning"
      BY <1>3, <2>1, <3>1, <3>2, <3>3, <3>4, <3>6 DEF Report
    <3> QED
      BY <3>5, <3>6
  <2>2. CASE logger # "display"
    BY <1>3, <2>2 DEF Report
  <2> QED
    BY <2>1, <2>2
<1>4. CASE Cancel
  BY <1>4 DEF Cancel
<1>5. CASE TakeSecond
  <2>1. buffered' \in BOOLEAN /\ ~buffered'
    BY <1>5 DEF TakeSecond
  <2> QED
    BY <1>5, <2>1 DEF TakeSecond
<1>6. CASE Restore
  BY <1>6 DEF Restore, Restored
<1>7. CASE ForceExit
  BY <1>7 DEF ForceExit
<1>8. CASE Signal
  BY <1>8, LimitsNatural DEF Signal
<1> QED
  BY <1>1, <1>2, <1>3, <1>4, <1>5, <1>6, <1>7, <1>8 DEF Handler

\* The strengthening the theorems follow from.
THEOREM Invariance == Spec => []IInv
<1>1. IInv /\ UNCHANGED vars => IInv'
  BY DEF IInv, TypeOK, StageInv, SignalInv, LogInv, EndInv, SummaryAccountsForAll, Signalled, Announced, ExitCode,
         Ended, vars, signals, ctx, screen, logs
<1> QED
  BY InitInv, MainStep, WorkStep, HandlerStep, <1>1, PTL DEF Spec, Next

-----------------------------------------------------------------------------
(* Theorems *)

\* The variables keep their types.
THEOREM TypeCorrect == Spec => []TypeOK
<1>1. IInv => TypeOK
  BY DEF IInv
<1> QED
  BY Invariance, <1>1, PTL

\* No process ends by itself before its work has.
THEOREM WorkIsAlwaysWaitedFor == Spec => []WorkIsWaitedFor
<1>1. IInv => WorkIsWaitedFor
  BY DEF IInv, EndInv, StageInv, Ended, Late, WorkIsWaitedFor
<1> QED
  BY Invariance, <1>1, PTL

\* However a run ends by itself, the terminal is restored and says what ended it.
THEOREM TerminalAlwaysTellsTheEnd == Spec => []TerminalTellsTheEnd
<1>1. IInv => TerminalIsHandedBack
  BY DEF IInv, EndInv, StageInv, Ended, TerminalIsHandedBack
<1>2. IInv => StopIsAnnounced
  BY DEF IInv, TypeOK, EndInv, SignalInv, LogInv, Ended, StopIsAnnounced, Announced, Running, Forced, None
<1> QED
  BY Invariance, <1>1, <1>2, PTL DEF TerminalTellsTheEnd

\* The summary accounts for every warning, and the status for the outcome.
THEOREM OutcomeIsAlwaysTold == Spec => []OutcomeIsTold
<1>1. IInv => SummaryAccountsForAll
  BY DEF IInv, LogInv
<1>2. IInv => StatusIsTruthful
  BY DEF IInv, TypeOK, EndInv, SignalInv, Ended, ExitCode, StatusIsTruthful, Running, Forced
<1> QED
  BY Invariance, <1>1, <1>2, PTL DEF OutcomeIsTold

=============================================================================
