SPECIFICATION MCSpec
CONSTANTS
  MaxThreads = 3
  MaxCommands = 3
  LimitSet <- AllLimits
  Commands <- AllCommands
  IdleOnly <- QuietCommands
  Threads <- MCThreads
  Jobs <- MCJobs
  NoJob = "none"
INVARIANTS ExclusiveDrivers NobodyIsDisturbed SearchesWhatItShould
PROPERTIES KeepsPromise CommandsEnd
