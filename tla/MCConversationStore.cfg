SPECIFICATION Spec
CONSTANTS
  Handle = {h1, h2, h3}
  Body = {x, y}
  MaxRevision = 2
SYMMETRY Symmetry
INVARIANTS
  DurableAsPromised
  CallsStayRight
