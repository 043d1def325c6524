\* Two requests, two orders, a single and a combo, two requests of the desk,
\* and an order that a checkout or the script puts back.
CONSTANTS
  w1 = w1  w2 = w2  o1 = o1  o2 = o2  o3 = o3  b1 = b1  b2 = b2
  Workers = {w1, w2}
  Orders = {o1, o2}
  Batches = {b1, b2}
  Combos = {b2}
  SortOrder <- SortOrderMC
  Capacities = {1}
  Openings <- OpeningsMC
  Budgets <- BudgetsMC
  Settings = {"off", "shut"}
SPECIFICATION Spec
SYMMETRY Symmetric
INVARIANTS TypeOK SectorIsSum CountersMatchOrders OversoldOnlyByCut OfferIsShown SoldOncePerKey
\* Buyers and the desk may simply stop.
CHECK_DEADLOCK FALSE
