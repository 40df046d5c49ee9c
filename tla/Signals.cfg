SPECIFICATION FairSpec
CONSTANTS
  Mode = {"plain", "auto", "tui"}
  WarningLimit = 1
  MaxWarnings = 2
  MaxSignals = 3
INVARIANTS WorkIsWaitedFor TerminalTellsTheEnd OutcomeIsTold
PROPERTY SignalsEndTheRun
CHECK_DEADLOCK FALSE
