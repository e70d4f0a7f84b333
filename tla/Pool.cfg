SPECIFICATION PoolSpec
CONSTANTS
  t1 = t1
  t2 = t2
  reader = reader
  main = main
  search = search
  clear = clear
  none = none
  Threads <- MCThreads
  Callers <- MCCallers
  Jobs <- MCJobs
  NoJob <- none
  MaxCpuIndex = 7
  BundleSize = 2
  Machines <- MCMachines
  Disks <- MCDisks
  DefaultName = "default"
  FileNames = {"", "default", "a", "b"}
  Policies <- MCPolicies
  MaxThreads = 3
  MaxHashMB = 2
  Values <- MCValues
  Nets = {"n1", "n2"}
  MaxWorkers = 3
INVARIANTS
  NoLostWakeup
  WorkersFitTheirPool
  NetworksAreRead
PROPERTIES
  ImplementsSlot
  WorkGetsDone
