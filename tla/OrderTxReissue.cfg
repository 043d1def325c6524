\* One order, two checkouts and the confirmations of its charges.
CONSTANTS
  w1 = w1  w2 = w2
  o1 = o1  o2 = o2  o3 = o3
  b1 = b1  b2 = b2  s1 = s1  s2 = s2
  ana = ana  bia = bia
  Workers = {w1, w2}
  Orders = {o1}
  Batches = {b1}
  Sectors = {s1}
  SectorOf <- OneSector
  Qty <- AllBatchesEach
  Capacity <- OneLeft
  Rank <- IdRank
  Buyer <- OneBuyer
  NoOrder = NoOrder
  Providers = {"gateway"}
  Kinds = {"create", "checkout", "pay"}
  MaxCharges = 2
  MaxRevived = 1
SPECIFICATION Spec
INVARIANTS IssuedAtMostOnce
SYMMETRY WorkerSymmetry
\* Requests stop coming and orders are finitely many: stopping is no deadlock.
CHECK_DEADLOCK FALSE
