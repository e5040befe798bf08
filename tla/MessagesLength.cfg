\* The comments on the length of a message to the HMI.
CONSTANTS
  Percents = {0, 100}
  Statuses = {"in_progress", "success"}
  StatusLength <- MCStatusLength
  Reports <- MCReports
  Uuids = {0, 63}
  StatusReports = {0, 255, 256, 2043}
  Lists <- MCLists
  NoManifest = NoManifest
SPECIFICATION MCSpec
INVARIANT LengthAnnounced
