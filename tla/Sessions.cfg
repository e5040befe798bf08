\* Two connections of each peer.
CONSTANTS
  d1 = d1
  d2 = d2
  h1 = h1
  h2 = h2
  Dmcs = {d1, d2}
  Hmis = {h1, h2}
  Manifests <- MCManifests
  Requests <- MCRequests
  Monitor = monitor
  Reporters = {r1, r2}
  None = None
SPECIFICATION FairSpec
INVARIANTS TypeOK ManifestsAsSent AnswerGoesToLatest FirstRequestOnly StraysAreBounded
PROPERTY SecondDmcEnds
CONSTRAINT OneTalks
CHECK_DEADLOCK FALSE
