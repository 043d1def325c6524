---------------------------- MODULE MCEventDesk ----------------------------
(* The instance of EventDesk that TLC checks: two events that are still to  *)
(* be created, or that are on sale.                                         *)
EXTENDS EventDesk, TLC
CONSTANTS w1, w2, e1, e2, p1, k1, k2
OnSaleBefore(e) == [NoEvent EXCEPT !.status = "PUBLISHED", !.slug = IF e = e1 THEN 1 ELSE 2,
                                   !.payout = k1, !.starts = 1, !.owner = p1]
OpeningsMC == {[e \in Events |-> NoEvent], [e \in Events |-> OnSaleBefore(e)]}
Symmetric == Permutations(Workers)
=============================================================================
