SPECIFICATION Spec
CONSTANTS
  EntryId = {e1, e2, e3}
  Digest = {d1, d2}
  Evidence = {v1}
  Holder = {p1}
  MaxAmount = 2
  Ceiling = 2
  MaxBatch = 2
  NoDigest = NoDigest
  NoAudit = NoAudit
  NoEntry = NoEntry
  NoLimit = NoLimit
SYMMETRY Symmetry
CHECK_DEADLOCK FALSE
INVARIANTS
  ExposureSound
  AuditsAgree
PROPERTIES
  EntriesIrrevocable
  BlockedAdmitsNothing
  ImplementsBudget
