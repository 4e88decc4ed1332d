SPECIFICATION MCSpec
CONSTANTS
  Session = {s1, s2}
  Change = {x, y}
  NoSession = NoSession
  MaxRevision = 2
SYMMETRY Symmetry
INVARIANTS
  OneContinuation
  LineageKept
  SurvivorsOnLineage
