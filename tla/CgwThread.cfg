\* tdr_run requests, one after the other, or tdr_stat requests that overlap. The
\* server stops after the last tdr_run.
CONSTANTS
  Workers = {w1, w2}
  Api = "tdr_run"
  Serial = TRUE
  MaxRequests = 6
SPECIFICATION MCSpec
INVARIANTS TypeOK RunsUntilRequestEnd FlagDownWhenIdle
PROPERTIES ThreadEnds StatThreadEnds
CHECK_DEADLOCK FALSE
