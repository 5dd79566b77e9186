SPECIFICATION Spec
CONSTANTS
  Workers = {w1, w2}
  Capacity = 1
  MaxResults = 2
SYMMETRY Alike
INVARIANTS
  ReportCoversSamples
