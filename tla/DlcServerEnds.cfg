\* A manifest, a second one after a failed download, and two START_UPGRADEs, with fair
\* threads and an orchestrator of which only the ends of connections are expected.
CONSTANTS
  Main = main
  Hmi = hmithread
  Workers = {w1}
  Downloaders = {d1, d2}
  Uploaders = {u1}
  Samples = 1
  MaxStarts = 2
  Devices = {"WPC", "VDCM"}
  LogInfo = FALSE
  Reread = FALSE
SPECIFICATION PSpec
PROPERTIES  StartServed
