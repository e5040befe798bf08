\* pkg_new requests, one after the other: the comment at line 1113.
CONSTANTS
  Workers = {w1}
  Api = "pkg_new"
  Serial = TRUE
SPECIFICATION Spec
INVARIANT RunsUntilRequestEnd
