------------------------ MODULE MCDiagnosticWorkflow ------------------------
EXTENDS DiagnosticWorkflow, TLC
CONSTANTS s1, s2, s3

Says(cues, words, tells, long) ==
    [cues |-> cues, words |-> words, tells |-> tells, long |-> long]

\* Messages with the detections that the code's own lists give them.
MCMessages == {
    Says({}, {}, {"system", "problem"}, FALSE),                     \* my outlook crashes
    Says({"negative"}, {"fails"}, {"system", "problem"}, TRUE),     \* outlook is not working
    Says({"confirm"}, {"yes"}, {}, FALSE),                          \* yes
    Says({"deny"}, {"no"}, {}, FALSE),                              \* no
    Says({"negative"}, {"fails"}, {}, FALSE),                       \* still not working
    Says({"positive"}, {"works"}, {}, FALSE),                       \* that worked
    Says({"gratitude"}, {"thanks"}, {}, FALSE),                     \* thanks
    Says({"escalate"}, {}, {}, TRUE),                               \* talk to a specialist
    Says({"new_topic"}, {}, {"system"}, TRUE),                      \* i have another issue with teams
    Says({"confirm", "negative"}, {"yes", "fails"}, {}, TRUE),      \* yes please, it's still not working
    Says({"simplify"}, {"simpler"}, {}, TRUE),                      \* explain it in simpler words
    Says({"negative"}, {"fails", "simpler"}, {}, TRUE),             \* still not working, explain in simple words
    Says({"greeting"}, {"hello"}, {}, FALSE),                       \* hi
    Says({"small_talk"}, {}, {}, FALSE),                            \* hmm
    Says({}, {"live"}, {}, FALSE),                                  \* transfer me
    Says({"confirm"}, {"yes", "live"}, {}, TRUE)}                   \* yes please transfer me

MCSymmetry == Permutations(Steps)
=============================================================================
