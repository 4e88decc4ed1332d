SPECIFICATION AnchorSpec
CONSTANTS
  c1 = c1
  c2 = c2
  a1 = a1
  a2 = a2
  b1 = b1
  EntryId = {c1, c2}
  Attempt = {a1, a2, b1}
  CallOf <- MCCallOf
  Kinds <- MCKinds
  Full = 2
  Digest = {0, 1, 2, 3}
  Evidence = {"signed"}
  Holder = {p1}
  MaxAmount = 3
  Ceiling = 3
  MaxBatch = 1
  NoDigest = NoDigest
  NoAudit = NoAudit
  NoEntry = NoEntry
  NoLimit = NoLimit
  Rates = {1, 999999, 1000000, 2500001}
  TokenCounts = {0, 1, 2, 7}
CHECK_DEADLOCK FALSE
INVARIANTS
  OneDispatch
  AdmittedBeforeSent
  BilledIsCharged
  ReceiptAgrees
  ChargeWithinReservation
PROPERTIES
  AttemptsEnd
