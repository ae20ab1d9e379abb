\* One page, two calls at a time, up to two credentials.
CONSTANTS
  Page = {p}
  Task = {t1, t2}
  Calls = {"fetch", "upload", "check"}
  Credential = {1, 2}
  Csrf = {x1, x2, x3, x4}
  Nothing = Nothing
  MayLoseCredential = FALSE
SYMMETRY Symmetry
SPECIFICATION Spec
INVARIANTS ReuseNeverDetected NoLostWakeup MemoryFollowsJar SignOutEndsSession
PROPERTIES RefusedOnlyIfOver
