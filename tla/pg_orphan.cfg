SPECIFICATION Spec
CONSTANTS
  w1 = w1
  w2 = w2
  c1 = c1
  c2 = c2
  f1 = f1
  f2 = f2
  e1 = e1
  e2 = e2
  None = None
  Worker = {w1}
  Client = {c1}
  Finding = {f1}
  Evidence = {e1}
  Target = {"acknowledged"}
  Reason = {TRUE}
  Keep = 1
  MaxRequests = 0
  Faults = TRUE
CHECK_DEADLOCK FALSE
INVARIANT StartedScansEnd
