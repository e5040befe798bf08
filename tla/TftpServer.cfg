\* Two clients of which one has a longer job; a block number has 3 values.
CONSTANTS
  c1 = c1
  c2 = c2
  Clients = {c1, c2}
  NoClient = NoClient
  Jobs <- MCJobs
  Wrap = 3
  Tries = 3
  Cap = 2
  Repeats <- MCRepeats
SPECIFICATION FairSpec
INVARIANTS TypeOK StoredIsWhole SpinIsProvoked LostBlockNeedsClient
PROPERTIES ImplementsFileTransfer TransferEnds
CHECK_DEADLOCK FALSE
