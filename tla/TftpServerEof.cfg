\* One client gets a file of two full blocks: the comment on on_read_data.
CONSTANTS
  c1 = c1
  c2 = c2
  Clients = {c1}
  NoClient = NoClient
  Jobs <- MCEofJobs
  Wrap = 65536
  Tries = 3
  Cap = 2
  Repeats <- MCNoRepeats
SPECIFICATION Spec
INVARIANT EndOfFileIsNoFailure
CHECK_DEADLOCK FALSE
