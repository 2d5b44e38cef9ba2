SPECIFICATION Spec
CONSTANTS
  d1 = d1
  d2 = d2
  c1 = c1
  c2 = c2
  stale = stale
  review = review
  e1 = e1
  e2 = e2
  None = None
  Unset = Unset
  Doc = {d1}
  Content = {c1, c2}
  Issue = {stale, review}
  Evidence = {e1, e2}
  Keep = 2
  MaxScans = 3
  MaxTime = 1
SYMMETRY Symmetric
INVARIANT TypeOK
INVARIANT DetectedIssuesAreTracked
INVARIANT ContextShowsTheFinding
PROPERTY DispositionsCoverTheirEvidence
PROPERTY ScansClearTheQueue
PROPERTY ScansActOnEvidence
