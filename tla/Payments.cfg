\* Two requests at once, two charges, an event that changes its provider.
CONSTANTS
  w1 = w1  w2 = w2
  Workers = {w1, w2}
  Providers = {"gateway", "manual"}
  MaxCharges = 2
SPECIFICATION Spec
SYMMETRY WorkerSymmetry
INVARIANTS TypeOK LastChargeIsKept TotalMatchesCharge CacheIsOfTheRow
\* Buyers, the gateway and the script may simply stop.
CHECK_DEADLOCK FALSE
