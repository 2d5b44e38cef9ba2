SPECIFICATION Spec
CONSTANTS
  p1 = p1
  p2 = p2
  p3 = p3
  None = None
  Page = {p1, p2, p3}
  Contents <- Corpus
  MaxUpsets = 0
SYMMETRY Symmetric
INVARIANT HardSuffixesStay
