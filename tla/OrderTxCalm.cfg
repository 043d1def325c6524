\* The same orders when no commit lands inside a snapshot window: the
\* transactions implement the atomic ledger.
CONSTANTS
  w1 = w1  w2 = w2
  o1 = o1  o2 = o2  o3 = o3
  b1 = b1  b2 = b2  s1 = s1  s2 = s2
  ana = ana  bia = bia
  Workers = {w1, w2}
  Orders = {o1, o2}
  Batches = {b1, b2}
  Sectors = {s1, s2}
  SectorOf <- TwoSectors
  Qty <- OneAndBoth
  Capacity <- OneLeft
  Rank <- IdRank
  Buyer <- OneBuyer
  NoOrder = NoOrder
  Providers = {"gateway", "manual"}
  Kinds = {"create", "checkout", "pay", "manual", "expire", "cancel"}
  MaxCharges = 1
  MaxRevived = 1
SPECIFICATION CalmSpec
INVARIANTS HoldLedger NoOversell
PROPERTIES RefinesLedger
SYMMETRY WorkerSymmetry
\* Requests stop coming and orders are finitely many: stopping is no deadlock.
CHECK_DEADLOCK FALSE
