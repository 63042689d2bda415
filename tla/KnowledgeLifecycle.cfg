SPECIFICATION Spec
CONSTANTS
    Articles = {a1}
    Contents = {c1, c2}
    Requests = {r1, r2}
    MaxVersion = 3
    None = None
    Deleted = Deleted
PROPERTIES HistoryIsKept ArchivedIsNotPublished DriftNeedsOverlap 
SYMMETRY Symmetry
CHECK_DEADLOCK FALSE
