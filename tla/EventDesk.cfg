\* Two requests at once on two events, new or on sale, five requests that write.
CONSTANTS
  w1 = w1  w2 = w2  e1 = e1  e2 = e2  p1 = p1  k1 = k1  k2 = k2
  Workers = {w1, w2}
  Events = {e1, e2}
  Producers = {p1}
  Keys = {k1, k2}
  LastTime = 1
  Openings <- OpeningsMC
  MaxWrites = 5
SPECIFICATION Spec
SYMMETRY Symmetric
INVARIANTS TypeOK FrontPage PayoutLocked
\* The desk may simply stop.
CHECK_DEADLOCK FALSE
