--------------------------- MODULE MCTicketCustody ---------------------------
(* The instance of TicketCustody that TLC checks: one seat, whose ticket    *)
(* may be sent on twice, two gates of its event and one of another event.   *)
EXTENDS TicketCustody, TLC

CONSTANTS t1, t2, t3, sa, ea, eb, ana, bia, w1, w2, g1, g2, g3

OneIssued == [s \in Seats |-> t1]
BoughtByAna == [s \in Seats |-> ana]
NamesBia == [s \in Seats |-> bia]
SeatsOfA == [s \in Seats |-> ea]
GatesOfAB == [g \in Gates |-> IF g = g3 THEN eb ELSE ea]
AnyForEA == [g \in Gates |-> IF g = g3 THEN {eb} ELSE Events]
Symmetric == Permutations(Workers) \cup Permutations({t2, t3})
                \cup Permutations({g1, g2})
=============================================================================
