\* One seat, two gates of its event, two users who may send its ticket on twice.
CONSTANTS
  t1 = t1  t2 = t2  t3 = t3  sa = sa  ea = ea  eb = eb
  ana = ana  bia = bia  w1 = w1  w2 = w2  g1 = g1  g2 = g2  g3 = g3
  Seats = {sa}
  Tickets = {t1, t2, t3}
  Issued <- OneIssued
  Users = {ana, bia}
  Workers = {w1, w2}
  Gates = {g1, g2, g3}
  Events = {ea, eb}
  EventOf <- SeatsOfA
  GateEvent <- GatesOfAB
  MayAdmit <- AnyForEA
  Buyer <- BoughtByAna
  Attendee <- NamesBia
  NoOne = NoOne  NoTicket = NoTicket  NoSeat = NoSeat
SPECIFICATION Spec
INVARIANTS TypeOK OneTicketPerSeat SeatEnteredOnce CodesStayWithHolder
PROPERTIES SpentIsFinal
SYMMETRY Symmetric
\* Requests may stop coming once the ticket has been used: no deadlock.
CHECK_DEADLOCK FALSE
