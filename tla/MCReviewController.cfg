SPECIFICATION ReviewSpec
CONSTANTS
  c1 = c1
  c2 = c2
  Allowance = allowance
  Judge = judge
  Other = other
  EntryId = {c1, c2, allowance, judge, other}
  Digest = {c1, c2, allowance, judge, other}
  Critic = {c1, c2}
  Controller = {k1, k2}
  Batch <- MCBatch
  Price <- MCPrice
  MinCritics = 1
  FormalCampaign = TRUE
  NoTerminal = NoTerminal
  Evidence = {}
  Holder = {}
  MaxAmount = 4
  Ceiling = 4
  MaxBatch = 3
  NoDigest = NoDigest
  NoAudit = NoAudit
  NoEntry = NoEntry
  NoLimit = NoLimit
CHECK_DEADLOCK FALSE
INVARIANTS
  StagesInOrder
  InspectionTrue
PROPERTIES
  TerminalIsLast
  RunEnds
