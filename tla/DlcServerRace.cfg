\* Two manifests in the build of the Makefile: the comment at line 888.
CONSTANTS
  Main = main
  Hmi = hmithread
  Workers = {w1, w2}
  Downloaders = {d1, d2}
  Uploaders = {u1}
  Samples = 0
  MaxStarts = 1
  Devices = {"WPC"}
  LogInfo = FALSE
  Reread = TRUE
SPECIFICATION Spec
INVARIANT HmiTriggers
