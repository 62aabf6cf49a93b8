SPECIFICATION Spec
CONSTANTS
  Requests = {r1, r2}
  Boot = Boot
  None = None
INVARIANT RescanOnlyClosed
CHECK_DEADLOCK FALSE
