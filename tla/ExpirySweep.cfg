\* An order of the site and one of sell-by-email, sweeps that overlap, a page
\* of one order, a checkout that saves late, a failure or a restart.
CONSTANTS
  o1 = o1  o2 = o2
  Orders = {o1, o2}
  Untracked = {o2}
  c1 = c1
  Checkouts = {c1}
  Reopenable = {o1}
  TTL = 2
  Safety = 4
  PageSize = 1
  JobMinutes = 1
  Late = 1
  MaxFaults = 1
  Floor <- BelowZero
  NoExpiry = NoExpiry
  NoCharge = NoCharge
SPECIFICATION FairSpec
INVARIANTS TypeOK OverdueBounded
PROPERTIES OverdueEnds
\* Every order may be settled before the cron finds one: the clock goes on.
