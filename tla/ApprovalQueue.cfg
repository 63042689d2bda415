SPECIFICATION FairSpec
CONSTANTS
    Approvals = {a1}
    Requests = {r1, r2, r3}
    Workers = {w1, w2}
    None = None
INVARIANT RepeatIsMarked
PROPERTIES DecidedOnce ClaimIsNotStranded RunsAtMostOnce
