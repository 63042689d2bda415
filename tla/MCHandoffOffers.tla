--------------------------- MODULE MCHandoffOffers ---------------------------
(* Small instances of HandoffOffers: tickets of employees who are no staff.   *)
EXTENDS HandoffOffers

NobodyOfStaff == [t \in Tickets |-> None]
=============================================================================
