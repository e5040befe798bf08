\* main, two waiting threads (a worker and the HMI thread) and one blind setter.
CONSTANTS
  Main = main
  Waiters = {worker, hmi}
  Setters = {downloader}
  Samples = 3
SPECIFICATION FairSpec
INVARIANTS TypeOK NoOrphanLock
PROPERTIES LockEventuallyClear WaiterServed MainPollsWhenQuiet
