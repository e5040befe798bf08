\* Two manifests, or two START_UPGRADEs, that overlap, in the default build. With
\* Samples = 0 a wait for the lock may time out at any time.
CONSTANTS
  Main = main
  Hmi = hmithread
  Workers = {w1, w2}
  Downloaders = {d1, d2}
  Uploaders = {u1}
  Samples = 0
  MaxStarts = 2
  Devices = {"WPC", "VDCM"}
  LogInfo = TRUE
  Reread = FALSE
SPECIFICATION USpec
INVARIANTS HmiTriggers HmiKnown UpgradeNeedsUpload UpgradesAsAsked
SYMMETRY Symmetry
CONSTRAINT FewMessages
ACTION_CONSTRAINT SwitchAtOnce
