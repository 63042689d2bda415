SPECIFICATION Spec
CONSTANTS
    s1 = s1  s2 = s2  s3 = s3 
    Steps = {s1, s2, s3}
    Messages <- MCMessages
    LlmReads = {"positive", "gratitude", "continue"}
    MaxTurns = 7
    MaxQuestions = 2
    MissLimit = 2
SYMMETRY MCSymmetry
PROPERTIES StepsAreAgreed NoStepsAfterAsking TicketIsAskedFor StepsDoNotRepeat TicketFollowsTopic
