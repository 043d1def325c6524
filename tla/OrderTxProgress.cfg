\* Fairness of every started transaction, with deadlocks resolved by the database.
CONSTANTS
  w1 = w1  w2 = w2
  o1 = o1  o2 = o2  o3 = o3
  b1 = b1  b2 = b2  s1 = s1  s2 = s2
  ana = ana  bia = bia
  Workers = {w1, w2}
  Orders = {o1, o2, o3}
  Batches = {b1, b2}
  Sectors = {s1, s2}
  SectorOf <- TwoSectors
  Qty <- BothAndOne
  Capacity <- TwoLeft
  Rank <- IdRank
  Buyer <- FirstAndThird
  NoOrder = NoOrder
  Providers = {"gateway", "manual"}
  Kinds = {"create", "manual", "cancel"}
  MaxCharges = 1
  MaxRevived = 0
SPECIFICATION FairSpec
INVARIANTS SalesNeverDeadlock
PROPERTIES TransactionsEnd
\* Requests stop coming and orders are finitely many: stopping is no deadlock.
CHECK_DEADLOCK FALSE
