SPECIFICATION FairSpec
CONSTANTS
  Opening <- Openings
  Repository = {r1, r2}
  Digest = {d1}
  RuleFile = {f1, f2}
  MaxExecutions = 1
INVARIANTS ConfirmsWhatIsShown StaleUntilRescanned ClosesWhenAllIsDone
PROPERTY CanceledReadsKeepAll CancellingEnds
CHECK_DEADLOCK FALSE
