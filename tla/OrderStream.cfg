\* Three tabs, three changes of any kind, one reopening.
CONSTANTS
  t1 = t1  t2 = t2  t3 = t3  e1 = e1  e2 = e2  e3 = e3
  Streams = {t1, t2, t3}
  Ends = {e1, e2, e3}
  Kinds = {"payment", "manual", "expiry", "cancel", "script", "checkout"}
  MaxReopen = 1
SPECIFICATION Spec
SYMMETRY Tabs
INVARIANTS TypeOK EndIsHeard OneLostPerClosed ToldPaymentIsCommitted
\* Clients and changes may simply stop.
CHECK_DEADLOCK FALSE
