\* Percentages of one digit and of three, uuids and status reports of any length class.
CONSTANTS
  Percents = {0, 100}
  Statuses = {"in_progress", "success"}
  StatusLength <- MCStatusLength
  Reports <- MCReports
  Uuids = {0, 63}
  StatusReports = {0, 255, 256, 2043}
  Lists <- MCLists
  NoManifest = NoManifest
SPECIFICATION MCSpec
INVARIANTS TypeOK EndsRightly EndNotPushed FramedUpTo256 ParsersAgree
CHECK_DEADLOCK FALSE
