SPECIFICATION SQLiteSpec
CONSTANTS
  s1 = s1
  s2 = s2
  a = a
  A = A
  Session = {s1, s2}
  Connection = {h1, h2}
  Light = {a}
  Heavy = {A}
  NoEntry = NoEntry
  NoWriter = NoWriter
  MaxEntries = 2
  Keep = 1
  MaxWrites = 2
  Legacy <- MCLegacy
SYMMETRY Symmetry
INVARIANTS
  OneRevision
PROPERTIES
  ImplementsCatalog
  PrunedAsShown
CHECK_DEADLOCK FALSE
