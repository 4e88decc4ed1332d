SPECIFICATION TxSpec
CONSTANTS
  e1 = e1
  e2 = e2
  e3 = e3
  d1 = d1
  v1 = v1
  EntryId = {e1, e2, e3}
  Digest = {d1}
  Evidence = {v1}
  Holder = {p1, p2}
  MaxAmount = 2
  Ceiling = 2
  MaxBatch = 2
  NoDigest = NoDigest
  NoAudit = NoAudit
  NoEntry = NoEntry
  NoLimit = NoLimit
  Calls <- MCCalls
INVARIANTS
  ChecksStayTrue
PROPERTIES
  TxImplementsLedger
  CallsEnd
