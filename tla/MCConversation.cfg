SPECIFICATION SessionSpec
CONSTANTS
  Kinds = {"chat", "git"}
  MaxEntries = 2
  MaxSides = 2
  MaxForks = 1
  Exchanges = 4
  Attempts = 4
INVARIANTS
  SentOnce
  RecordTrue
  RecordAddsUp
PROPERTIES
  OutcomesFinal
  SideResolves
