---------------------------- MODULE MCLeadership ----------------------------
(* Two members of one role on small clocks.                                *)
EXTENDS Leadership

CONSTANTS m1, m2

TwoMembers == {m1, m2}

NoSkew == [m \in Member |-> 0]

\* The clock of one member runs ahead by less than Duration - RenewInterval.
AheadSkew == [m \in Member |-> IF m = m2 THEN 1 ELSE 0]

\* One clock is ahead of the others by more than a whole lease.
WildSkew == [m \in Member |-> IF m = m2 THEN Duration + 1 ELSE 0]
=============================================================================
