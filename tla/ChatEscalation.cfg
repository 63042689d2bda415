SPECIFICATION Spec
CONSTANTS
    Requests = {r1, r2, r3}
    Workers = {w1, w2}
    None = None
INVARIANTS SecondTicketHasACause CopiesFollowTickets
SYMMETRY Symmetry
CHECK_DEADLOCK FALSE
