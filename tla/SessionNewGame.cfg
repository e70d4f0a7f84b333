SPECIFICATION FairSpec
CONSTANTS
  MaxThreads = 2
  MaxCommands = 2
  LimitSet <- GameLimits
  Commands <- NewGame
  IdleOnly <- JustGo
  Threads <- MCThreads
  Jobs <- MCJobs
  NoJob = "none"
PROPERTIES ReaderReturns
\* The main worker spins and the reader is blocked: the system really stops.
CHECK_DEADLOCK FALSE
