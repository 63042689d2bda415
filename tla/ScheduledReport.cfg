SPECIFICATION ReportSpec
CONSTANTS
    Replicas = {r1, r2, r3}
    LastMonth = 3
    None = None
INVARIANT MailedOnce
SYMMETRY Symmetry
PROPERTY MailsAtMostOnce
