SPECIFICATION Spec
CONSTANTS
    s1 = s1  s2 = s2  s3 = s3 
    Steps = {s1, s2, s3}
    Messages <- MCMessages
    LlmReads = {}
    MaxTurns = 10
    MaxQuestions = 3
    MissLimit = 3
SYMMETRY MCSymmetry
INVARIANT PromisedTicketExists
