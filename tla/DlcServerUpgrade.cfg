\* One manifest and one START_UPGRADE, in a build without INFO logs, where the
\* progress of the upgrade is polled to its end; or two manifests, the second of which
\* may be taken for another stage, so that the package status is asked for.
CONSTANTS
  Main = main
  Hmi = hmithread
  Workers = {w1, w2}
  Downloaders = {d1, d2}
  Uploaders = {u1}
  Samples = 1
  MaxStarts = 1
  Devices = {"WPC", "VDCM"}
  LogInfo = FALSE
  Reread = TRUE
SPECIFICATION MCSpec
INVARIANTS TypeOK HmiKnown UpgradeNeedsUpload NcNotStale
PROPERTIES StageForward LockProtocol WorkerProtocol
SYMMETRY Symmetry
ACTION_CONSTRAINT OneUnlessStatusOnly
