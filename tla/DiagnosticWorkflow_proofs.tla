---------------------- MODULE DiagnosticWorkflow_proofs ----------------------
(***************************************************************************)
(* Safety of DiagnosticWorkflow for any knowledge base, any set of         *)
(* messages, any answers of the LLM and any limits.                        *)
(*                                                                         *)
(* Triage rewrites the state of the conversation in stages before it       *)
(* decides; Carried says what every stage preserves of the saved state,    *)
(* and the invariant says what each later node may rely on.                *)
(***************************************************************************)
EXTENDS DiagnosticWorkflow, TLAPS

\* A ticket may be drafted: the employee asks for a human, or was offered one.
Asks == "escalate" \in msg.cues \/ "escalate" \in LlmReads
Offered == \/ saved.offered \/ saved.live \/ "live" \in msg.words
           \/ turn.shown # {} \/ "simpler" \in msg.words

\* A new topic has nothing agreed and nothing tried.
FreshOK(c) == c.fresh => /\ ~c.agreed /\ ~c.awaiting /\ ~c.missed
                         /\ c.suggested = {} /\ c.phase # "confirming"

\* A turn that ended with a step did not start from a request for a human.
LiveOK(c) == c.phase = "confirming" => ~c.live

\* The employee agreed, or complained about steps.
MayAdvise(c) ==
    \/ c.agreed
    \/ saved.missed
    \/ "fails" \in msg.words /\ (saved.suggested # {} \/ saved.phase = "confirming")

\* What was tried is remembered, or the issue is another one.
Remembered(c) == \/ saved.suggested \cup saved.failed \subseteq c.suggested \cup c.failed
                 \/ saved.resolved \/ msg.tells # {}

\* Where a new topic comes from.
TopicOK == saved.fresh \/ "new_topic" \in Reads(msg, TriageContext(saved))

TriageOK == pc = "triage" => s = [saved EXCEPT !.turns = s.turns] /\ turn = NoTurn

AdviceOK ==
    pc \in {"retrieve", "resolve"} =>
        /\ ~s.live /\ ~saved.live /\ MayAdvise(s) /\ Remembered(s)
        /\ s.offered => saved.offered
        /\ turn.said = "user" /\ turn.shown = {} /\ ~turn.confirmed /\ ~turn.drafted

OfferOK ==
    pc = "escalate" =>
        /\ s.live \/ turn.confirmed => Asks \/ Offered
        /\ s.offered => Offered
        /\ turn.said # "user" => Offered
        /\ ~turn.drafted

DraftOK ==
    /\ pc \in {"draft", "reply"} /\ turn.confirmed => Asks \/ Offered
    /\ pc \in {"retrieve", "resolve", "escalate", "draft"} => ~s.fresh
    /\ turn.drafted => ~s.fresh

IInv == /\ TypeOK /\ FreshOK(s) /\ FreshOK(saved) /\ LiveOK(s) /\ LiveOK(saved)
        /\ TriageOK /\ AdviceOK /\ OfferOK /\ DraftOK
        /\ (pc # "idle" /\ s.fresh => TopicOK)
        /\ (pc = "idle" => turn = NoTurn)

\* What a stage of triage keeps of the state that the turn started from.
Carried(c) ==
    /\ c \in State /\ c.phase = s.phase
    /\ FreshOK(c) /\ (c.fresh => s.fresh)
    /\ c.live => s.live \/ "live" \in msg.words
    /\ c.offered => s.offered
    /\ c.suggested # {} => s.suggested # {}
    /\ c.missed => MayAdvise(c)
    /\ s.live => c.live \/ (~c.agreed /\ ~c.awaiting /\ ~c.missed /\ c.suggested = {})
    /\ Remembered(c)

-----------------------------------------------------------------------------
(* Records and counters                                                     *)

LEMMA UpToRange == ASSUME NEW n \in Nat, NEW limit \in Nat
                   PROVE UpTo(n, limit) \in 0 .. limit
BY DEF UpTo

LEMMA NoStateOK == NoState \in State /\ NoTurn \in Turn /\ NoMessage \in Message
BY BoundsAssumption DEF NoState, State, NoTurn, Turn, NoMessage, Message, Phases

LEMMA ResetState == ASSUME NEW c \in State
                    PROVE  /\ ResetIssue(c) \in State
                           /\ ResetIssue(c).phase = c.phase
                           /\ ~ResetIssue(c).fresh /\ ~ResetIssue(c).live
                           /\ ~ResetIssue(c).offered /\ ~ResetIssue(c).missed
                           /\ ~ResetIssue(c).agreed /\ ~ResetIssue(c).awaiting
                           /\ ResetIssue(c).suggested = {}
<1>1. /\ c.sorted \in BOOLEAN /\ c.known \in BOOLEAN /\ c.phase \in Phases
      /\ c.turns \in 0 .. MaxTurns
      BY DEF State
<1>2. /\ ~NoState.fresh /\ ~NoState.live /\ ~NoState.offered /\ ~NoState.missed
      /\ ~NoState.agreed /\ ~NoState.awaiting /\ NoState.suggested = {}
      BY DEF NoState
<1>3. QED BY <1>1, <1>2, NoStateOK DEF ResetIssue, State

-----------------------------------------------------------------------------
(* The stages of triage                                                     *)

LEMMA CarriedStart == ASSUME IInv, pc = "triage" PROVE Carried(s)
BY DEF IInv, TypeOK, TriageOK, Carried, MayAdvise, Remembered, FreshOK, State

LEMMA ResetCarried == ASSUME NEW c, Carried(c), saved.resolved \/ msg.tells # {}
                      PROVE Carried(ResetIssue(c))
<1>1. c \in State BY DEF Carried
<1>2. QED BY <1>1, ResetState DEF Carried, FreshOK, Remembered

\* The system, the category, the symptom and the answers to the question touch
\* nothing that Carried looks at.
LEMMA SortedCarried == ASSUME NEW c, Carried(c), NEW b \in BOOLEAN
                       PROVE Carried([c EXCEPT !.sorted = b])
BY DEF Carried, FreshOK, MayAdvise, Remembered, State

LEMMA KnownCarried == ASSUME NEW c, Carried(c), NEW b \in BOOLEAN
                      PROVE Carried([c EXCEPT !.known = TRUE, !.sorted = b])
BY DEF Carried, FreshOK, MayAdvise, Remembered, State

LEMMA DescribedCarried == ASSUME NEW c, Carried(c), NEW b \in BOOLEAN
                          PROVE Carried([c EXCEPT !.described = b])
BY DEF Carried, FreshOK, MayAdvise, Remembered, State

LEMMA ReopenedCarried == ASSUME IInv, pc = "triage" PROVE Carried(Reopened)
<1>1. s.resolved => saved.resolved
      BY DEF IInv, TypeOK, TriageOK, State
<1>2. QED BY <1>1, CarriedStart, ResetCarried DEF Reopened

LEMMA NamedCarried == ASSUME NEW c, Carried(c), NEW n \in Named(c) PROVE Carried(n)
<1>1. CASE "system" \notin msg.tells
      BY <1>1 DEF Named
<1>2. CASE "system" \in msg.tells
  <2>1. c.sorted \in BOOLEAN
        BY DEF Carried, State
  <2>2. CASE \E b \in {c.sorted, TRUE} : n = [c EXCEPT !.known = TRUE, !.sorted = b]
    <3>1. PICK b \in {c.sorted, TRUE} : n = [c EXCEPT !.known = TRUE, !.sorted = b]
          BY <2>2
    <3>2. b \in BOOLEAN
          BY <2>1
    <3>3. QED BY <3>1, <3>2, KnownCarried
  <2>3. CASE \E b \in BOOLEAN : n = [ResetIssue(c) EXCEPT !.sorted = b]
    <3>1. Carried(ResetIssue(c))
          BY <1>2, ResetCarried
    <3>2. QED BY <2>3, <3>1, SortedCarried
  <2>4. QED BY <1>2, <2>2, <2>3 DEF Named
<1>3. QED BY <1>1, <1>2

LEMMA ToldCarried == ASSUME NEW c, Carried(c), NEW n \in Told(c) PROVE Carried(n)
<1>1. c.described \in BOOLEAN /\ (c.described \/ "problem" \in msg.tells) \in BOOLEAN
      BY DEF Carried, State
<1>2. PICK b \in BOOLEAN : n = [c EXCEPT !.described = b]
      BY <1>1 DEF Told
<1>3. QED BY <1>2, DescribedCarried

LEMMA HeardCarried == ASSUME IInv, pc = "triage", NEW c \in Heard PROVE Carried(c)
<1>1. PICK n \in Named(Reopened) : c \in Told(n)
      BY DEF Heard
<1>2. Carried(n)
      BY <1>1, ReopenedCarried, NamedCarried
<1>3. QED BY <1>1, <1>2, ToldCarried

\* A complaint counts when steps were given, in the turn before if not for this issue.
LEMMA JudgedCarried == ASSUME IInv, pc = "triage", NEW c, Carried(c) PROVE Carried(Judged(c))
<1>1. CASE ~(StepsGiven(c) /\ "fails" \in msg.words)
      BY <1>1 DEF Judged
<1>2. CASE StepsGiven(c) /\ "fails" \in msg.words
  <2>1. Judged(c) = [c EXCEPT !.missed = TRUE, !.failed = @ \cup c.suggested]
        BY <1>2 DEF Judged
  <2>2. /\ Judged(c) \in State /\ Judged(c).phase = c.phase /\ Judged(c).fresh = c.fresh
        /\ Judged(c).live = c.live /\ Judged(c).offered = c.offered
        /\ Judged(c).suggested = c.suggested /\ c.failed \subseteq Judged(c).failed
        /\ Judged(c).agreed = c.agreed /\ Judged(c).awaiting = c.awaiting
        BY <2>1 DEF Carried, State
  <2>3. ~c.fresh /\ MayAdvise(Judged(c)) /\ (s.live => c.live)
        BY <1>2 DEF IInv, TypeOK, TriageOK, LiveOK, Carried, FreshOK, StepsGiven, MayAdvise, State
  <2>4. Remembered(Judged(c))
        BY <2>2 DEF Carried, Remembered
  <2>5. QED BY <2>2, <2>3, <2>4 DEF Carried, FreshOK
<1>3. QED BY <1>1, <1>2

LEMMA AssessedCarried == ASSUME IInv, pc = "triage", NEW c \in Assessed PROVE Carried(c)
BY HeardCarried, JudgedCarried DEF Assessed

LEMMA AnsweredCarried == ASSUME NEW c, Carried(c) PROVE Carried(Answered(c))
<1> DEFINE n == Answered(c)
<1>1. /\ n \in State /\ n.phase = c.phase /\ n.fresh = c.fresh /\ n.live = c.live
      /\ n.offered = c.offered /\ n.suggested = c.suggested /\ n.failed = c.failed
      /\ n.missed = c.missed /\ ~n.awaiting
      /\ n.agreed <=> c.agreed \/ (c.awaiting /\ "yes" \in msg.words)
      BY DEF Answered, Carried, State
<1>2. MayAdvise(c) => MayAdvise(n)
      BY <1>1 DEF MayAdvise
<1>3. Remembered(n)
      BY <1>1 DEF Carried, Remembered
<1>. HIDE DEF n
<1>4. Carried(n)
      BY <1>1, <1>2, <1>3 DEF Carried, FreshOK
<1>5. QED BY <1>4 DEF n

LEMMA ClassifiedCarried == ASSUME NEW c, Carried(c), NEW n \in Classified(c) PROVE Carried(n)
<1>0. c \in State
      BY DEF Carried
<1>1. CASE ~c.sorted
  <2>1. Carried([c EXCEPT !.sorted = TRUE])
        BY SortedCarried
  <2>2. PICK b \in BOOLEAN : n = [c EXCEPT !.sorted = TRUE, !.described = b]
        BY <1>0, <1>1 DEF Classified, State
  <2>3. n = [[c EXCEPT !.sorted = TRUE] EXCEPT !.described = b]
        BY <1>0, <2>2 DEF State
  <2>4. QED BY <2>1, <2>3, DescribedCarried
<1>2. CASE c.sorted
  <2>1. PICK b \in BOOLEAN : /\ n = [c EXCEPT !.described = TRUE, !.live = b]
                             /\ b => c.live \/ "live" \in msg.words
                             /\ c.live => b
        BY <1>0, <1>2 DEF Classified, State
  <2>2. /\ n \in State /\ n.phase = c.phase /\ n.fresh = c.fresh /\ n.live = b
        /\ n.offered = c.offered /\ n.suggested = c.suggested /\ n.failed = c.failed
        /\ n.missed = c.missed /\ n.awaiting = c.awaiting /\ n.agreed = c.agreed
        BY <1>0, <2>1 DEF State
  <2>3. QED BY <2>1, <2>2 DEF Carried, FreshOK, MayAdvise, Remembered
<1>3. QED BY <1>1, <1>2

LEMMA SubtypedCarried == ASSUME NEW c, Carried(c), NEW n \in Subtyped(c) PROVE Carried(n)
<1>1. CASE n = c
      BY <1>1
<1>2. CASE n = [c EXCEPT !.described = TRUE]
      BY <1>2, DescribedCarried
<1>3. CASE /\ "problem" \in msg.tells
           /\ n = [c EXCEPT !.described = TRUE, !.suggested = {}, !.failed = {}]
  <2>1. /\ n \in State /\ n.phase = c.phase /\ n.fresh = c.fresh /\ n.live = c.live
        /\ n.offered = c.offered /\ n.suggested = {} /\ n.missed = c.missed
        /\ n.awaiting = c.awaiting /\ n.agreed = c.agreed
        BY <1>3 DEF Carried, State
  <2>2. QED BY <1>3, <2>1 DEF Carried, FreshOK, MayAdvise, Remembered
<1>4. QED BY <1>1, <1>2, <1>3 DEF Subtyped

LEMMA DiagnosedCarried == ASSUME IInv, pc = "triage", NEW c \in Diagnosed PROVE Carried(c)
<1>1. PICK u \in Understood : \E k \in Classified(u) : c \in Subtyped(k)
      BY DEF Diagnosed
<1>2. PICK k \in Classified(u) : c \in Subtyped(k)
      BY <1>1
<1>3. PICK a \in Assessed : u = Answered(a)
      BY <1>1 DEF Understood
<1>4. Carried(u)
      BY <1>3, AssessedCarried, AnsweredCarried
<1>5. Carried(k)
      BY <1>2, <1>4, ClassifiedCarried
<1>6. QED BY <1>2, <1>5, SubtypedCarried
-----------------------------------------------------------------------------
(* The exits of triage                                                      *)

\* An answer by triage itself.
LEMMA AnswersKeeps ==
    ASSUME IInv, pc = "triage", NEW c \in State, FreshOK(c), LiveOK(c),
           c.fresh => TopicOK, Answers(c)
    PROVE  IInv'
<1>1. turn' \in Turn /\ ~turn'.confirmed /\ ~turn'.drafted
      BY DEF IInv, TypeOK, TriageOK, Answers, Turn, NoTurn
<1>2. s' = c /\ pc' = "reply" /\ UNCHANGED <<saved, ticket, msg, reply>>
      BY DEF Answers
<1>3. TypeOK'
      BY <1>1, <1>2 DEF IInv, TypeOK
<1>4. FreshOK(s)' /\ FreshOK(saved)' /\ LiveOK(s)' /\ LiveOK(saved)'
      BY <1>2 DEF IInv, FreshOK, LiveOK
<1>5. TriageOK' /\ AdviceOK' /\ OfferOK' /\ DraftOK'
      BY <1>1, <1>2 DEF TriageOK, AdviceOK, OfferOK, DraftOK
<1>6. (s.fresh => TopicOK)'
      BY <1>2 DEF TopicOK
<1>7. QED BY <1>2, <1>3, <1>4, <1>5, <1>6 DEF IInv

\* What triage answers with, when it stays with the issue.
LEMMA TopicCarried == ASSUME IInv, pc = "triage", NEW c, c.fresh => s.fresh
                      PROVE c.fresh => TopicOK
BY DEF IInv

\* A new topic is recognized by the flags of the saved state.
LEMMA SameContext == ASSUME IInv, pc = "triage"
                     PROVE TriageContext(s) = TriageContext(saved)
BY DEF IInv, TypeOK, TriageOK, TriageContext, State

LEMMA ChangeTopicKeeps == ASSUME IInv, pc = "triage", ChangeTopic PROVE IInv'
<1> DEFINE c == [ResetIssue(s) EXCEPT !.sorted = FALSE, !.known = FALSE,
                                      !.fresh = TRUE, !.phase = "intake"]
<1>1. s \in State /\ ResetIssue(s) \in State
      BY ResetState DEF IInv, TypeOK
<1>2. /\ c \in State /\ c.phase = "intake" /\ ~c.agreed /\ ~c.awaiting /\ ~c.missed
      /\ c.suggested = {}
      BY <1>1, ResetState DEF State, Phases
<1>3. Answers(c) /\ TopicOK
      BY SameContext DEF ChangeTopic, TopicOK
<1>. HIDE DEF c
<1>4. QED BY <1>2, <1>3, AnswersKeeps DEF FreshOK, LiveOK

LEMMA GatherProblemKeeps == ASSUME IInv, pc = "triage", GatherProblem PROVE IInv'
<1> DEFINE c == [s EXCEPT !.live = FALSE, !.fresh = FALSE, !.phase = "clarifying"]
<1>1. c \in State /\ c.phase = "clarifying" /\ ~c.fresh
      BY DEF IInv, TypeOK, State, Phases
<1>2. Answers(c)
      BY DEF GatherProblem
<1>. HIDE DEF c
<1>3. QED BY <1>1, <1>2, AnswersKeeps DEF FreshOK, LiveOK

LEMMA CloseKeeps == ASSUME IInv, pc = "triage", Close PROVE IInv'
<1> DEFINE c == [s EXCEPT !.resolved = TRUE, !.fresh = FALSE, !.phase = "resolved"]
<1>1. c \in State /\ c.phase = "resolved" /\ ~c.fresh
      BY DEF IInv, TypeOK, State, Phases
<1>2. Answers(c)
      BY DEF Close
<1>. HIDE DEF c
<1>3. QED BY <1>1, <1>2, AnswersKeeps DEF FreshOK, LiveOK

LEMMA CloseAgainKeeps == ASSUME IInv, pc = "triage", CloseAgain PROVE IInv'
<1> DEFINE c == [s EXCEPT !.phase = "resolved"]
<1>1. /\ c \in State /\ c.phase = "resolved" /\ c.fresh = s.fresh /\ c.agreed = s.agreed
      /\ c.awaiting = s.awaiting /\ c.missed = s.missed /\ c.suggested = s.suggested
      BY DEF IInv, TypeOK, State, Phases
<1>2. Answers(c)
      BY DEF CloseAgain
<1>. HIDE DEF c
<1>3. FreshOK(c) /\ LiveOK(c) /\ (c.fresh => TopicOK)
      BY <1>1, TopicCarried DEF IInv, FreshOK, LiveOK
<1>4. QED BY <1>1, <1>2, <1>3, AnswersKeeps

LEMMA GreetKeeps == ASSUME IInv, pc = "triage", Greet PROVE IInv'
<1> DEFINE c == [Reopened EXCEPT !.phase = "intake"]
<1>1. Carried(Reopened)
      BY ReopenedCarried
<1>2. /\ c \in State /\ c.phase = "intake" /\ c.fresh = Reopened.fresh
      /\ c.agreed = Reopened.agreed /\ c.awaiting = Reopened.awaiting
      /\ c.missed = Reopened.missed /\ c.suggested = Reopened.suggested
      BY <1>1 DEF Carried, State, Phases
<1>3. Answers(c)
      BY DEF Greet
<1>. HIDE DEF c
<1>4. FreshOK(c) /\ LiveOK(c) /\ (c.fresh => s.fresh)
      BY <1>1, <1>2 DEF Carried, FreshOK, LiveOK
<1>5. QED BY <1>2, <1>3, <1>4, TopicCarried, AnswersKeeps

LEMMA CloseByWordsKeeps == ASSUME IInv, pc = "triage", CloseByWords PROVE IInv'
<1>1. PICK h \in Heard : Answers([h EXCEPT !.resolved = TRUE, !.fresh = FALSE,
                                           !.phase = "resolved"])
      BY DEF CloseByWords
<1> DEFINE c == [h EXCEPT !.resolved = TRUE, !.fresh = FALSE, !.phase = "resolved"]
<1>2. Carried(h)
      BY HeardCarried
<1>3. c \in State /\ c.phase = "resolved" /\ ~c.fresh
      BY <1>2 DEF Carried, State, Phases
<1>4. Answers(c)
      BY <1>1
<1>. HIDE DEF c
<1>5. QED BY <1>3, <1>4, AnswersKeeps DEF FreshOK, LiveOK

LEMMA DenyKeeps == ASSUME IInv, pc = "triage", Deny PROVE IInv'
<1>1. PICK a \in Assessed, b \in BOOLEAN :
         /\ a.awaiting
         /\ Answers([a EXCEPT !.awaiting = FALSE, !.agreed = FALSE,
                              !.described = b /\ a.described,
                              !.asked = UpTo(@ + 1, MaxQuestions),
                              !.phase = "clarifying"])
      BY DEF Deny
<1> DEFINE c == [a EXCEPT !.awaiting = FALSE, !.agreed = FALSE,
                          !.described = b /\ a.described,
                          !.asked = UpTo(@ + 1, MaxQuestions), !.phase = "clarifying"]
<1>2. Carried(a)
      BY AssessedCarried
<1>3. UpTo(a.asked + 1, MaxQuestions) \in 0 .. MaxQuestions
  <2>1. a.asked + 1 \in Nat /\ MaxQuestions \in Nat
        BY <1>2, BoundsAssumption DEF Carried, State
  <2>2. QED BY <2>1, UpToRange
<1>4. (b /\ a.described) \in BOOLEAN
      OBVIOUS
<1>5. c \in State /\ c.phase = "clarifying" /\ c.fresh = a.fresh
      BY <1>2, <1>3, <1>4 DEF Carried, State, Phases
<1>6. Answers(c)
      BY <1>1
<1>7. ~a.fresh
      BY <1>1, <1>2 DEF Carried, FreshOK
<1>. HIDE DEF c
<1>8. QED BY <1>5, <1>6, <1>7, AnswersKeeps DEF FreshOK, LiveOK

LEMMA ClarifyKeeps == ASSUME IInv, pc = "triage", Clarify PROVE IInv'
<1>1. PICK d \in Diagnosed : Answers([d EXCEPT !.asked = UpTo(@ + 1, MaxQuestions),
                                               !.phase = "clarifying"])
      BY DEF Clarify
<1> DEFINE c == [d EXCEPT !.asked = UpTo(@ + 1, MaxQuestions), !.phase = "clarifying"]
<1>2. Carried(d)
      BY DiagnosedCarried
<1>3. UpTo(d.asked + 1, MaxQuestions) \in 0 .. MaxQuestions
  <2>1. d.asked + 1 \in Nat /\ MaxQuestions \in Nat
        BY <1>2, BoundsAssumption DEF Carried, State
  <2>2. QED BY <2>1, UpToRange
<1>4. /\ c \in State /\ c.phase = "clarifying" /\ c.fresh = d.fresh /\ c.agreed = d.agreed
      /\ c.awaiting = d.awaiting /\ c.missed = d.missed /\ c.suggested = d.suggested
      BY <1>2, <1>3 DEF Carried, State, Phases
<1>5. Answers(c)
      BY <1>1
<1>. HIDE DEF c
<1>6. FreshOK(c) /\ LiveOK(c) /\ (c.fresh => s.fresh)
      BY <1>2, <1>4 DEF Carried, FreshOK, LiveOK
<1>7. QED BY <1>4, <1>5, <1>6, TopicCarried, AnswersKeeps

LEMMA ConfirmKeeps == ASSUME IInv, pc = "triage", Confirm PROVE IInv'
<1>1. PICK d \in Diagnosed : Answers([d EXCEPT !.awaiting = TRUE, !.fresh = FALSE,
                                               !.phase = "clarifying"])
      BY DEF Confirm
<1> DEFINE c == [d EXCEPT !.awaiting = TRUE, !.fresh = FALSE, !.phase = "clarifying"]
<1>2. Carried(d)
      BY DiagnosedCarried
<1>3. c \in State /\ c.phase = "clarifying" /\ ~c.fresh
      BY <1>2 DEF Carried, State, Phases
<1>4. Answers(c)
      BY <1>1
<1>. HIDE DEF c
<1>5. QED BY <1>3, <1>4, AnswersKeeps DEF FreshOK, LiveOK

-----------------------------------------------------------------------------
(* What a message is read as                                                *)

LEMMA PriorityExists ==
    ASSUME NEW found, "continue" \in found
    PROVE  \E k \in 1 .. 11 : /\ Priority[k] \in found
                             /\ \A j \in 1 .. k - 1 : Priority[j] \notin found
<1> DEFINE In(k) == Priority[k] \in found
<1>1. In(11)
      BY DEF Priority
<1>. HIDE DEF In
<1>2. \E k \in 1 .. 11 : In(k) /\ \A j \in 1 .. k - 1 : ~In(j)
      BY <1>1, SMTT(60)
<1>3. QED BY <1>2 DEF In

\* A request for a human comes before every other reading.
LEMMA KeywordEscalate ==
    ASSUME NEW m, NEW c
    PROVE  Keyword(m, c) = "escalate" <=> "escalate" \in m.cues
<1> DEFINE found == Detected(m, c) \cup {"continue"}
           First(k) == /\ Priority[k] \in found
                       /\ \A j \in 1 .. k - 1 : Priority[j] \notin found
           first == CHOOSE k \in 1 .. 11 : First(k)
<1>1. "escalate" \in found <=> "escalate" \in m.cues
      BY DEF Detected
<1>2. first \in 1 .. 11 /\ First(first)
      BY PriorityExists
<1>3. Keyword(m, c) = Priority[first]
      BY DEF Keyword
<1>4. Priority[1] = "escalate" /\ \A k \in 2 .. 11 : Priority[k] # "escalate"
      BY DEF Priority
<1>5. first # 1 => 1 \in 1 .. first - 1
      BY <1>2
<1>. HIDE DEF found, first
<1>6. QED BY <1>1, <1>2, <1>3, <1>4, <1>5

LEMMA ReadsEscalate == ASSUME NEW m, NEW c, "escalate" \in Reads(m, c)
                       PROVE  "escalate" \in m.cues \/ "escalate" \in LlmReads
BY KeywordEscalate DEF Reads, Plausible

\* The second reading of a message that may ask for a human does not overlook it
\* when it takes the message for a confirmation.
LEMMA GuardEscalate == ASSUME NEW m, "confirm" \in Reads(m, GuardContext),
                              "escalate" \in m.cues \/ "escalate" \in LlmReads
                       PROVE  "escalate" \in Reads(m, GuardContext)
BY KeywordEscalate DEF Reads, Plausible

-----------------------------------------------------------------------------
(* The exits of triage into the graph                                       *)

LEMMA HandOverKeeps == ASSUME IInv, pc = "triage", HandOver PROVE IInv'
<1> DEFINE c == [s EXCEPT !.live = TRUE, !.fresh = FALSE, !.phase = "escalating"]
<1>1. c \in State /\ c.phase = "escalating" /\ ~c.fresh /\ c.offered = s.offered
      BY DEF IInv, TypeOK, State, Phases
<1>2. s' = c /\ pc' = "escalate" /\ UNCHANGED <<saved, ticket, msg, reply>> /\ Asks
  <2>1. "escalate" \in Reads(msg, TriageContext(s))
        BY DEF HandOver
  <2>2. Asks
        BY <2>1, ReadsEscalate DEF Asks
  <2>3. QED BY <2>2 DEF HandOver
<1>3. /\ turn' \in Turn /\ turn'.said = "user" /\ ~turn'.drafted
  <2>1. turn = NoTurn
        BY DEF IInv, TriageOK
  <2>2. turn' = [NoTurn EXCEPT !.confirmed = TRUE]
        BY <2>1 DEF HandOver
  <2>3. QED BY <2>2 DEF Turn, NoTurn
<1>4. s.offered = saved.offered
      BY DEF IInv, TypeOK, TriageOK, State
<1>. HIDE DEF c
<1>5. TypeOK'
      BY <1>1, <1>2, <1>3 DEF IInv, TypeOK
<1>6. FreshOK(s)' /\ FreshOK(saved)' /\ LiveOK(s)' /\ LiveOK(saved)'
      BY <1>1, <1>2 DEF IInv, FreshOK, LiveOK
<1>7. TriageOK' /\ AdviceOK' /\ DraftOK'
      BY <1>1, <1>2, <1>3 DEF TriageOK, AdviceOK, DraftOK
<1>8. OfferOK'
      BY <1>1, <1>2, <1>3, <1>4 DEF OfferOK, Asks, Offered
<1>9. QED BY <1>1, <1>2, <1>5, <1>6, <1>7, <1>8 DEF IInv

\* The one way to the knowledge base: the issue is agreed or a complaint is open,
\* and no human was asked for.
LEMMA DiagnoseKeeps == ASSUME IInv, pc = "triage", Diagnose PROVE IInv'
<1>1. PICK d \in Diagnosed :
         /\ Understands(d)
         /\ s' = [d EXCEPT !.phase = "diagnosing"]
         /\ pc' = IF d.live \/ d.turns >= MaxTurns THEN "escalate" ELSE "retrieve"
      BY DEF Diagnose
<1> DEFINE c == [d EXCEPT !.phase = "diagnosing"]
<1>2. Carried(d)
      BY DiagnosedCarried
<1>3. /\ c \in State /\ c.phase = "diagnosing" /\ c.fresh = d.fresh /\ c.live = d.live
      /\ c.agreed = d.agreed /\ c.missed = d.missed /\ c.offered = d.offered
      /\ c.suggested = d.suggested /\ c.failed = d.failed
      BY <1>2 DEF Carried, State, Phases
<1>4. s' = c /\ pc' \in {"escalate", "retrieve"} /\ UNCHANGED <<saved, ticket, msg, turn, reply>>
      BY <1>1 DEF Diagnose
<1>5. /\ turn = NoTurn /\ s.live = saved.live /\ s.offered = saved.offered
      BY DEF IInv, TypeOK, TriageOK, State
<1>6. (d.agreed \/ d.missed) /\ ~d.fresh
      BY <1>1, <1>2 DEF Understands, Carried, FreshOK
<1>7. MayAdvise(c) /\ Remembered(c) /\ (saved.live => c.live)
  <2>1. MayAdvise(c)
        BY <1>2, <1>3, <1>6 DEF Carried, MayAdvise
  <2>2. Remembered(c)
        BY <1>2, <1>3 DEF Carried, Remembered
  <2>3. QED BY <1>2, <1>3, <1>5, <1>6, <2>1, <2>2 DEF Carried
<1>8. pc' = "retrieve" => ~c.live
      BY <1>1, <1>3
<1>9. c.live => saved.live \/ "live" \in msg.words
      BY <1>2, <1>3, <1>5 DEF Carried
<1>10. c.offered => saved.offered
      BY <1>2, <1>3, <1>5 DEF Carried
<1>. HIDE DEF c
<1>11. TypeOK'
      BY <1>3, <1>4 DEF IInv, TypeOK
<1>12. FreshOK(s)' /\ FreshOK(saved)' /\ LiveOK(s)' /\ LiveOK(saved)'
      BY <1>3, <1>4, <1>6 DEF IInv, FreshOK, LiveOK
<1>13. TriageOK' /\ DraftOK'
      BY <1>3, <1>4, <1>5, <1>6 DEF TriageOK, DraftOK, NoTurn
<1>14. AdviceOK'
      BY <1>4, <1>5, <1>7, <1>8, <1>10 DEF AdviceOK, MayAdvise, Remembered, NoTurn
<1>15. OfferOK'
      BY <1>4, <1>5, <1>9, <1>10 DEF OfferOK, Offered, Asks, NoTurn
<1>16. QED BY <1>3, <1>4, <1>6, <1>11, <1>12, <1>13, <1>14, <1>15 DEF IInv

LEMMA TriageKeeps == ASSUME IInv, Triage PROVE IInv'
BY ChangeTopicKeeps, GatherProblemKeeps, HandOverKeeps, CloseKeeps, CloseAgainKeeps,
   GreetKeeps, CloseByWordsKeeps, DenyKeeps, ClarifyKeeps, ConfirmKeeps, DiagnoseKeeps
   DEF Triage

-----------------------------------------------------------------------------
(* The other nodes                                                          *)

LEMMA RetrieveKeeps == ASSUME IInv, Retrieve PROVE IInv'
<1>0. /\ pc = "retrieve" /\ UNCHANGED <<saved, ticket, msg, reply>>
      /\ s \in State /\ turn \in Turn
      BY DEF Retrieve, IInv, TypeOK
<1>1. ASSUME NEW plan \in SUBSET Steps, turn' = [turn EXCEPT !.plan = plan],
             pc' = "resolve", s' = s
      PROVE  IInv'
  <2>1. /\ turn' \in Turn /\ turn'.said = turn.said /\ turn'.shown = turn.shown
        /\ turn'.confirmed = turn.confirmed /\ turn'.drafted = turn.drafted
        BY <1>0, <1>1 DEF Turn
  <2>2. TypeOK'
        BY <1>0, <1>1, <2>1 DEF IInv, TypeOK
  <2>3. FreshOK(s)' /\ FreshOK(saved)' /\ LiveOK(s)' /\ LiveOK(saved)'
        BY <1>0, <1>1 DEF IInv, FreshOK, LiveOK
  <2>4. AdviceOK'
        BY <1>0, <1>1, <2>1 DEF IInv, AdviceOK, MayAdvise, Remembered
  <2>5. TriageOK' /\ OfferOK' /\ DraftOK'
        BY <1>0, <1>1, <2>1 DEF IInv, TriageOK, OfferOK, DraftOK
  <2>6. ~s'.fresh
        BY <1>0, <1>1 DEF IInv, DraftOK
  <2>7. QED BY <1>1, <2>2, <2>3, <2>4, <2>5, <2>6 DEF IInv
<1>2. ASSUME s' = [s EXCEPT !.phase = "escalating"], pc' = "escalate", turn' = turn
      PROVE  IInv'
  <2>1. /\ s' \in State /\ s'.phase = "escalating" /\ s'.fresh = s.fresh
        /\ s'.live = s.live /\ s'.offered = s.offered
        BY <1>0, <1>2 DEF State, Phases
  <2>2. ~s.fresh /\ ~s.live /\ (s.offered => saved.offered)
        /\ turn.said = "user" /\ ~turn.confirmed /\ ~turn.drafted
        BY <1>0 DEF IInv, AdviceOK, DraftOK
  <2>3. TypeOK'
        BY <1>0, <1>2, <2>1 DEF IInv, TypeOK
  <2>4. FreshOK(s)' /\ FreshOK(saved)' /\ LiveOK(s)' /\ LiveOK(saved)'
        BY <1>0, <2>1, <2>2 DEF IInv, FreshOK, LiveOK
  <2>5. TriageOK' /\ AdviceOK' /\ DraftOK'
        BY <1>2, <2>1, <2>2 DEF TriageOK, AdviceOK, DraftOK
  <2>6. OfferOK'
        BY <1>0, <1>2, <2>1, <2>2 DEF OfferOK, Offered
  <2>7. QED BY <1>2, <2>1, <2>2, <2>3, <2>4, <2>5, <2>6 DEF IInv
<1>3. QED BY <1>1, <1>2 DEF Retrieve

\* After resolution nothing but the offer and the saved state matters.
LEMMA ResolvedKeeps ==
    ASSUME IInv, pc = "resolve", UNCHANGED <<saved, ticket, msg, reply>>,
           s' \in State, ~s'.fresh, ~s'.live, s'.offered = s.offered,
           turn' \in Turn, ~turn'.confirmed, ~turn'.drafted,
           turn'.said # "user" => turn'.shown # {} \/ "simpler" \in msg.words,
           pc' \in {"escalate", "reply"}
    PROVE  IInv'
<1>1. s.offered => saved.offered
      BY DEF IInv, AdviceOK
<1>2. TypeOK'
      BY DEF IInv, TypeOK
<1>3. FreshOK(s)' /\ FreshOK(saved)' /\ LiveOK(s)' /\ LiveOK(saved)'
      BY DEF IInv, FreshOK, LiveOK
<1>4. TriageOK' /\ AdviceOK' /\ DraftOK'
      BY DEF TriageOK, AdviceOK, DraftOK
<1>5. OfferOK'
      BY <1>1 DEF OfferOK, Offered
<1>6. QED BY <1>2, <1>3, <1>4, <1>5 DEF IInv

LEMMA ShowsKeeps ==
    ASSUME IInv, pc = "resolve", NEW step \in Steps, NEW c \in State,
           c.live = s.live, c.offered = s.offered, NEW low \in BOOLEAN, Shows(step, c, low)
    PROVE  IInv'
<1>1. ~s.live /\ ~turn.confirmed /\ ~turn.drafted /\ turn \in Turn
      BY DEF IInv, TypeOK, AdviceOK
<1>2. UpTo(c.attempts + 1, 2) \in 0 .. 2
  <2>1. c.attempts + 1 \in Nat
        BY DEF State
  <2>2. QED BY <2>1, UpToRange
<1>3. c.suggested \cup {step} \in SUBSET Steps
      BY DEF State
<1>4. s' \in State /\ ~s'.fresh /\ s'.live = c.live /\ s'.offered = c.offered
      BY <1>2, <1>3 DEF Shows, State, Phases
<1>5. /\ turn' \in Turn /\ turn'.confirmed = turn.confirmed
      /\ turn'.drafted = turn.drafted /\ turn'.shown = {step}
      BY <1>1 DEF Shows, Turn
<1>6. pc' \in {"escalate", "reply"} /\ UNCHANGED <<saved, ticket, msg, reply>>
      BY DEF Shows
<1>7. QED BY <1>1, <1>4, <1>5, <1>6, ResolvedKeeps

LEMMA ResolveKeeps == ASSUME IInv, Resolve PROVE IInv'
<1>0. /\ pc = "resolve" /\ s \in State /\ turn \in Turn /\ turn.plan \subseteq Steps
      /\ ~s.live /\ ~s.fresh /\ ~turn.confirmed /\ ~turn.drafted /\ turn.said = "user"
      BY DEF Resolve, IInv, TypeOK, AdviceOK, DraftOK, Turn
<1>1. CASE Present
  <2>1. PICK step \in Remaining, low \in BOOLEAN : Shows(step, [s EXCEPT !.missed = FALSE], low)
        BY <1>1 DEF Present
  <2>2. step \in Steps
        BY <1>0 DEF Remaining
  <2>3. /\ [s EXCEPT !.missed = FALSE] \in State
        /\ [s EXCEPT !.missed = FALSE].live = s.live
        /\ [s EXCEPT !.missed = FALSE].offered = s.offered
        BY <1>0 DEF State
  <2>4. QED BY <1>0, <2>1, <2>2, <2>3, ShowsKeeps
<1>2. CASE Simplify
  <2>1. PICK step \in turn.plan : Shows(step, s, MissedEnough(s))
        BY <1>2 DEF Simplify, Remaining
  <2>2. MissedEnough(s) \in BOOLEAN /\ step \in Steps
        BY <1>0 DEF MissedEnough
  <2>3. QED BY <1>0, <2>1, <2>2, ShowsKeeps
<1>3. CASE CannotSimplify
  <2>1. /\ turn' \in Turn /\ ~turn'.confirmed /\ ~turn'.drafted
        BY <1>0, <1>3 DEF CannotSimplify, Turn
  <2>2. "simpler" \in msg.words
        BY <1>3 DEF CannotSimplify, AsksForSimpler
  <2>3. s' = s /\ pc' = "escalate" /\ UNCHANGED <<saved, ticket, msg, reply>>
        BY <1>3 DEF CannotSimplify
  <2>4. QED BY <1>0, <2>1, <2>2, <2>3, ResolvedKeeps
<1>4. CASE Exhaust
  <2>1. UpTo(s.attempts + 1, 2) \in 0 .. 2
    <3>1. s.attempts + 1 \in Nat
          BY <1>0 DEF State
    <3>2. QED BY <3>1, UpToRange
  <2>2. s' \in State /\ ~s'.fresh /\ s'.live = s.live /\ s'.offered = s.offered
        BY <1>0, <1>4, <2>1 DEF Exhaust, State, Phases
  <2>3. pc' = "escalate" /\ UNCHANGED <<saved, ticket, msg, reply, turn>>
        BY <1>4 DEF Exhaust
  <2>4. QED BY <1>0, <2>2, <2>3, ResolvedKeeps
<1>5. QED BY <1>1, <1>2, <1>3, <1>4 DEF Resolve

\* An acceptance is a request, or answers an offer.
LEMMA AcceptsOffer ==
    ASSUME IInv, pc = "escalate", NEW accepts \in Accepts
    PROVE  accepts \in BOOLEAN /\ (accepts => Asks \/ Offered)
<1>1. CASE turn.said # "user"
      BY <1>1 DEF Accepts, IInv, OfferOK
<1>2. CASE turn.said = "user"
  <2>1. PICK i \in Reads(msg, OfferContext) :
           accepts = (i = "escalate" \/ (i = "confirm" /\ s.offered))
        BY <1>2 DEF Accepts
  <2>2. s.offered \in BOOLEAN /\ (s.offered => Offered)
        BY DEF IInv, TypeOK, OfferOK, State
  <2>3. i = "escalate" => Asks
        BY ReadsEscalate DEF Asks
  <2>4. QED BY <2>1, <2>2, <2>3
<1>3. QED BY <1>1, <1>2

LEMMA EscalateKeeps == ASSUME IInv, Escalate PROVE IInv'
<1>1. /\ pc = "escalate" /\ pc' = "draft" /\ UNCHANGED <<saved, ticket, msg, s, reply>>
      /\ s.live \in BOOLEAN /\ turn \in Turn
      BY DEF Escalate, IInv, TypeOK, State
<1>2. PICK accepts \in Accepts : turn' = [turn EXCEPT !.confirmed = accepts \/ s.live,
                                                      !.said = "other"]
      BY DEF Escalate
<1>3. accepts \in BOOLEAN /\ (accepts \/ s.live => Asks \/ Offered)
      BY <1>1, AcceptsOffer DEF IInv, OfferOK
<1>4. /\ turn' \in Turn /\ turn'.shown = turn.shown /\ turn'.drafted = turn.drafted
      /\ turn'.confirmed => Asks \/ Offered
      BY <1>1, <1>2, <1>3 DEF Turn
<1>5. TypeOK'
      BY <1>1, <1>4 DEF IInv, TypeOK
<1>6. FreshOK(s)' /\ FreshOK(saved)' /\ LiveOK(s)' /\ LiveOK(saved)'
      BY <1>1 DEF IInv, FreshOK, LiveOK
<1>7. TriageOK' /\ AdviceOK' /\ OfferOK'
      BY <1>1 DEF TriageOK, AdviceOK, OfferOK
<1>8. ~s.fresh
      BY <1>1 DEF IInv, DraftOK
<1>9. DraftOK'
      BY <1>1, <1>4, <1>8 DEF DraftOK, Asks, Offered
<1>10. QED BY <1>1, <1>5, <1>6, <1>7, <1>8, <1>9 DEF IInv

LEMMA DraftKeeps == ASSUME IInv, Draft PROVE IInv'
<1>1. /\ pc = "draft" /\ pc' = "reply" /\ UNCHANGED <<saved, ticket, msg, reply>>
      /\ s \in State /\ turn \in Turn /\ ~s.fresh
      BY DEF Draft, IInv, TypeOK, DraftOK
<1>2. /\ s' \in State /\ s'.fresh = s.fresh /\ s'.phase = s.phase /\ s'.live = s.live
      BY <1>1 DEF Draft, State
<1>3. /\ turn' \in Turn /\ turn'.shown = turn.shown /\ turn'.confirmed = turn.confirmed
      BY <1>1 DEF Draft, Turn
<1>4. TypeOK'
      BY <1>1, <1>2, <1>3 DEF IInv, TypeOK
<1>5. FreshOK(s)' /\ FreshOK(saved)' /\ LiveOK(s)' /\ LiveOK(saved)'
      BY <1>1, <1>2 DEF IInv, FreshOK, LiveOK
<1>6. TriageOK' /\ AdviceOK' /\ OfferOK'
      BY <1>1 DEF TriageOK, AdviceOK, OfferOK
<1>7. DraftOK'
      BY <1>1, <1>2, <1>3 DEF IInv, DraftOK, Asks, Offered
<1>8. QED BY <1>1, <1>2, <1>4, <1>5, <1>6, <1>7 DEF IInv

-----------------------------------------------------------------------------
(* The service                                                              *)

LEMMA SayKeeps == ASSUME IInv, NEW m \in Messages, Say(m) PROVE IInv'
<1>1. /\ pc = "idle" /\ pc' = "triage" /\ msg' = m /\ turn' = NoTurn
      /\ UNCHANGED <<saved, ticket, reply>>
      BY DEF Say
<1>2. saved \in State /\ m \in Message
      BY MessagesAssumption DEF IInv, TypeOK
<1>3. UpTo(saved.turns + 1, MaxTurns) \in 0 .. MaxTurns
  <2>1. saved.turns + 1 \in Nat /\ MaxTurns \in Nat
        BY <1>2, BoundsAssumption DEF State
  <2>2. QED BY <2>1, UpToRange
<1> DEFINE n == UpTo(saved.turns + 1, MaxTurns)
<1>4. s' = [saved EXCEPT !.turns = n]
      BY DEF Say
<1>. HIDE DEF n
<1>5. /\ s' \in State /\ s'.turns = n /\ s'.fresh = saved.fresh /\ s'.agreed = saved.agreed
      /\ s'.awaiting = saved.awaiting /\ s'.missed = saved.missed
      /\ s'.suggested = saved.suggested /\ s'.phase = saved.phase /\ s'.live = saved.live
  <2>1. n \in 0 .. MaxTurns
        BY <1>3 DEF n
  <2>2. QED BY <1>2, <1>4, <2>1 DEF State
<1>6. TypeOK'
      BY <1>1, <1>2, <1>5, NoStateOK DEF IInv, TypeOK
<1>7. FreshOK(s)' /\ FreshOK(saved)' /\ LiveOK(s)' /\ LiveOK(saved)'
      BY <1>1, <1>5 DEF IInv, FreshOK, LiveOK
<1>8. TriageOK'
      BY <1>1, <1>4, <1>5 DEF TriageOK
<1>9. AdviceOK' /\ OfferOK' /\ DraftOK'
      BY <1>1 DEF AdviceOK, OfferOK, DraftOK, NoTurn
<1>10. (s.fresh => TopicOK)'
      BY <1>1, <1>5 DEF TopicOK
<1>11. QED BY <1>1, <1>6, <1>7, <1>8, <1>9, <1>10 DEF IInv

\* A turn that ends leaves nothing of itself.
LEMMA EndKeeps ==
    ASSUME IInv, pc' = "idle", s' = saved', turn' = NoTurn, msg' \in Message,
           saved' \in State, FreshOK(saved)', LiveOK(saved)',
           ticket' \in BOOLEAN, reply' \in Replies
    PROVE  IInv'
<1>1. TypeOK'
      BY NoStateOK DEF TypeOK
<1>2. FreshOK(s)' /\ LiveOK(s)'
      BY DEF FreshOK, LiveOK
<1>3. TriageOK' /\ AdviceOK' /\ OfferOK' /\ DraftOK'
      BY DEF TriageOK, AdviceOK, OfferOK, DraftOK, NoTurn
<1>4. QED BY <1>1, <1>2, <1>3 DEF IInv

LEMMA ButtonKeeps == ASSUME IInv, RequestLiveAgent PROVE IInv'
<1>1. /\ pc = "idle" /\ pc' = "idle" /\ s' = saved' /\ turn' = NoTurn /\ msg' \in Message
      /\ saved' \in State /\ ticket' \in BOOLEAN /\ reply' \in Replies
      BY DEF RequestLiveAgent, IInv, TypeOK, Replies
<1>2. FreshOK(saved)' /\ LiveOK(saved)'
      BY DEF RequestLiveAgent, IInv, FreshOK, LiveOK
<1>3. QED BY <1>1, <1>2, EndKeeps

LEMMA FailKeeps == ASSUME IInv, Fail PROVE IInv'
<1>1. /\ pc' = "idle" /\ s' = saved' /\ turn' = NoTurn /\ msg' \in Message
      /\ saved' \in State /\ ticket' \in BOOLEAN /\ reply' \in Replies
      BY NoStateOK DEF Fail, IInv, TypeOK, Replies
<1>2. FreshOK(saved)' /\ LiveOK(saved)'
      BY DEF Fail, IInv, FreshOK, LiveOK
<1>3. QED BY <1>1, <1>2, EndKeeps

LEMMA AnswerKeeps == ASSUME IInv, Answer PROVE IInv'
<1>1. /\ pc' = "idle" /\ s' = saved' /\ turn' = NoTurn /\ msg' \in Message /\ saved' = s
      /\ saved' \in State
      BY NoStateOK DEF Answer, IInv, TypeOK
<1>2. ticket' \in BOOLEAN /\ reply' \in Replies
      BY DEF Answer, Replies, Kept, IInv, TypeOK
<1>3. FreshOK(saved)' /\ LiveOK(saved)'
      BY <1>1 DEF IInv, FreshOK, LiveOK
<1>4. QED BY <1>1, <1>2, <1>3, EndKeeps

-----------------------------------------------------------------------------
(* The invariant                                                            *)

LEMMA InitOK == Init => IInv
<1> SUFFICES ASSUME Init PROVE IInv
    OBVIOUS
<1>2. TypeOK
      BY NoStateOK DEF Init, TypeOK, Replies
<1>3. FreshOK(s) /\ FreshOK(saved) /\ LiveOK(s) /\ LiveOK(saved)
      BY DEF Init, FreshOK, LiveOK, NoState
<1>4. TriageOK /\ AdviceOK /\ OfferOK /\ DraftOK
      BY DEF Init, TriageOK, AdviceOK, OfferOK, DraftOK, NoTurn
<1>5. QED BY <1>2, <1>3, <1>4 DEF Init, IInv

LEMMA StutterKeeps == IInv /\ UNCHANGED vars => IInv'
BY DEF vars, IInv, TypeOK, FreshOK, LiveOK, TriageOK, AdviceOK, OfferOK, DraftOK,
       TopicOK, Asks, Offered, MayAdvise, Remembered

LEMMA NextKeeps == IInv /\ [Next]_vars => IInv'
BY SayKeeps, ButtonKeeps, TriageKeeps, RetrieveKeeps, ResolveKeeps, EscalateKeeps,
   DraftKeeps, AnswerKeeps, FailKeeps, StutterKeeps DEF Next

THEOREM Invariance == Spec => []IInv
BY InitOK, NextKeeps, PTL DEF Spec

\* Every variable stays within its type, and between turns the working copy is the
\* saved state, whatever a node raises (process_message).
THEOREM TypeCorrect == Spec => []TypeOK
<1>1. IInv => TypeOK
      BY DEF IInv
<1>2. QED BY <1>1, Invariance, PTL

-----------------------------------------------------------------------------
(* What a step may do                                                       *)

\* Steps are presented by resolution alone.
LEMMA OnlyResolveShows ==
    ASSUME IInv, Next, turn'.shown # turn.shown, turn'.shown # {}
    PROVE  Resolve
<1>1. turn \in Turn
      BY DEF IInv, TypeOK
<1>2. ASSUME turn' = NoTurn PROVE FALSE
      BY <1>2 DEF NoTurn
<1>3. ASSUME turn' = turn PROVE FALSE
      BY <1>3
<1>4. ~ \E m \in Messages : Say(m)
      BY <1>2 DEF Say
<1>5. ~RequestLiveAgent /\ ~Answer /\ ~Fail
      BY <1>2, <1>3 DEF RequestLiveAgent, Answer, Fail
<1>6. ~Retrieve /\ ~Escalate /\ ~Draft
  <2>1. ASSUME NEW plan, turn' = [turn EXCEPT !.plan = plan] PROVE FALSE
        BY <1>1, <2>1 DEF Turn
  <2>2. ASSUME NEW b, turn' = [turn EXCEPT !.confirmed = b, !.said = "other"] PROVE FALSE
        BY <1>1, <2>2 DEF Turn
  <2>3. ASSUME turn' = [turn EXCEPT !.drafted = TRUE] PROVE FALSE
        BY <1>1, <2>3 DEF Turn
  <2>4. QED BY <1>3, <2>1, <2>2, <2>3 DEF Retrieve, Escalate, Draft
<1>7. ~Triage
  <2>1. ASSUME NEW c, Answers(c) PROVE FALSE
        BY <1>1, <2>1 DEF Answers, Turn
  <2>2. ASSUME turn' = [turn EXCEPT !.confirmed = TRUE] PROVE FALSE
        BY <1>1, <2>2 DEF Turn
  <2>3. QED BY <1>3, <2>1, <2>2
        DEF Triage, ChangeTopic, GatherProblem, HandOver, Close, CloseAgain, Greet,
            CloseByWords, Deny, Clarify, Confirm, Diagnose
<1>8. QED BY <1>4, <1>5, <1>6, <1>7 DEF Next

\* The exceptions of StepsDoNotRepeat.
MayRepeat == saved.resolved \/ "simpler" \in msg.words \/ msg.tells # {}

LEMMA ResolveAdvice ==
    ASSUME IInv, Resolve
    PROVE  ~s.live /\ ~saved.live /\ MayAdvise(s) /\ Remembered(s) /\ turn.shown = {}
BY DEF IInv, AdviceOK, Resolve

LEMMA ResolveIsNew ==
    ASSUME IInv, Resolve, turn'.shown # turn.shown, "simpler" \notin msg.words
    PROVE  turn'.shown \cap (s.suggested \cup s.failed) = {}
<1>1. turn \in Turn /\ ~AsksForSimpler
      BY DEF IInv, TypeOK, AsksForSimpler
<1>2. CASE Present
  <2>1. PICK step \in Remaining : turn' = [turn EXCEPT !.shown = {step}, !.said = "guide"]
        BY <1>2 DEF Present, Shows
  <2>2. turn'.shown = {step}
        BY <1>1, <2>1 DEF Turn
  <2>3. QED BY <2>1, <2>2 DEF Remaining
<1>3. CASE Exhaust
      BY <1>3 DEF Exhaust
<1>4. QED BY <1>1, <1>2, <1>3 DEF Resolve, Simplify, CannotSimplify

\* Advice follows an agreement or a complaint about advice, for any conversation
\* (triage_node, resolution_node).
THEOREM AdviceIsAgreed == Spec => StepsAreAgreed
<1> DEFINE Ok == turn'.shown # turn.shown /\ turn'.shown # {} => MayAdvise(s)
<1>1. IInv /\ [Next]_vars => [Ok]_vars
      BY OnlyResolveShows, ResolveAdvice DEF vars
<1>2. IInv /\ [Next]_vars =>
         [turn'.shown # turn.shown /\ turn'.shown # {} =>
             \/ s.agreed
             \/ saved.missed
             \/ "fails" \in msg.words
                  /\ (saved.suggested # {} \/ saved.phase = "confirming")]_vars
      BY <1>1 DEF MayAdvise
<1>3. QED BY <1>2, Invariance, PTL DEF Spec, StepsAreAgreed

\* No step after a request for a human, however the request reached the state
\* (evaluate_escalation, reset_issue_context).
THEOREM NoAdviceAfterAsking == Spec => NoStepsAfterAsking
<1>1. IInv /\ [Next]_vars =>
         [turn'.shown # turn.shown /\ turn'.shown # {} => ~s.live /\ ~saved.live]_vars
      BY OnlyResolveShows, ResolveAdvice DEF vars
<1>2. QED BY <1>1, Invariance, PTL DEF Spec, NoStepsAfterAsking

\* What was presented or failed in this issue is not presented again, unless in
\* simpler words (_build_progression).
THEOREM AdviceIsNew == Spec => StepsDoNotRepeat
<1>1. ASSUME IInv, Next, turn'.shown # turn.shown,
             turn'.shown \cap (saved.suggested \cup saved.failed) # {}
      PROVE  MayRepeat
  <2>1. Resolve
        BY <1>1, OnlyResolveShows
  <2>2. Remembered(s)
        BY <1>1, <2>1, ResolveAdvice
  <2>3. QED BY <1>1, <2>1, <2>2, ResolveIsNew DEF MayRepeat, Remembered
<1>2. IInv /\ [Next]_vars =>
         [turn'.shown # turn.shown /\ turn'.shown \cap (saved.suggested \cup saved.failed) # {} =>
             saved.resolved \/ "simpler" \in msg.words \/ msg.tells # {}]_vars
      BY <1>1 DEF MayRepeat
<1>3. QED BY <1>2, Invariance, PTL DEF Spec, StepsDoNotRepeat

\* Tickets come from Answer and from the button.
LEMMA TicketSteps ==
    ASSUME IInv, Next, ticket' # ticket
    PROVE  Answer \/ RequestLiveAgent
BY DEF Next, Say, Triage, Answers, ChangeTopic, GatherProblem, HandOver, Close, CloseAgain,
       Greet, CloseByWords, Deny, Clarify, Confirm, Diagnose, Retrieve, Resolve, Present,
       Simplify, CannotSimplify, Exhaust, Shows, Escalate, Draft, Fail

LEMMA AnswerCreates ==
    ASSUME IInv, Answer, ticket', ~ticket
    PROVE  /\ pc = "reply" /\ turn.confirmed /\ turn.drafted
           /\ \/ "escalate" \in Reads(msg, GuardContext)
              \/ "confirm" \in Reads(msg, GuardContext)
<1>1. PICK authorized \in Authorized :
         ticket' = (Kept \/ (~Kept /\ turn.confirmed /\ turn.drafted /\ authorized))
      BY DEF Answer
<1>2. ~Kept
      BY DEF Kept
<1>3. authorized /\ turn.confirmed /\ turn.drafted
      BY <1>1, <1>2
<1>4. PICK i \in Reads(msg, GuardContext) :
         authorized = (i = "escalate" \/ (i = "confirm" /\ (s.offered \/ s.live)))
      BY DEF Authorized
<1>5. QED BY <1>3, <1>4 DEF Answer

\* For any messages and any reading of them by the LLM, a ticket is asked for or an
\* offer of it accepted (_handle_ticketing, escalation_node).
THEOREM TicketsAreAskedFor == Spec => TicketIsAskedFor
<1>1. ASSUME IInv, Next, ticket', ~ticket
      PROVE  \/ pc = "idle"
             \/ "escalate" \in Reads(msg, GuardContext)
             \/ "confirm" \in Reads(msg, GuardContext) /\ Offered
  <2>1. CASE RequestLiveAgent
        BY <2>1 DEF RequestLiveAgent
  <2>2. CASE Answer
    <3>1. Asks \/ Offered
          BY <1>1, <2>2, AnswerCreates DEF IInv, DraftOK
    <3>2. QED BY <1>1, <2>2, <3>1, AnswerCreates, GuardEscalate DEF Asks
  <2>3. QED BY <1>1, <2>1, <2>2, TicketSteps
<1>2. IInv /\ [Next]_vars =>
         [ticket' /\ ~ticket =>
             \/ pc = "idle"
             \/ "escalate" \in Reads(msg, GuardContext)
             \/ /\ "confirm" \in Reads(msg, GuardContext)
                /\ \/ saved.offered \/ saved.live \/ "live" \in msg.words
                   \/ turn.shown # {} \/ "simpler" \in msg.words]_vars
      BY <1>1 DEF Offered
<1>3. QED BY <1>2, Invariance, PTL DEF Spec, TicketIsAskedFor

\* A ticket of a typed request outlives the next question, and a ticket is
\* forgotten only in a turn of a new topic or of questions about it
\* (_invoke_workflow).
THEOREM TicketsFollowTopics == Spec => TicketFollowsTopic
<1>1. ASSUME IInv, Next, ticket', ~ticket, pc = "reply"
      PROVE  ~s.fresh
  <2>1. Answer
        BY <1>1, TicketSteps DEF RequestLiveAgent
  <2>2. QED BY <1>1, <2>1, AnswerCreates DEF IInv, DraftOK
<1>2. ASSUME IInv, Next, ticket, ~ticket'
      PROVE  TopicOK
  <2>1. Answer
        BY <1>2, TicketSteps DEF RequestLiveAgent
  <2>2. s.fresh /\ pc # "idle"
        BY <1>2, <2>1 DEF Answer, Kept
  <2>3. QED BY <1>2, <2>2 DEF IInv
<1>3. IInv /\ [Next]_vars =>
         [/\ (ticket' /\ ~ticket /\ pc = "reply") => ~s.fresh
          /\ (ticket /\ ~ticket') =>
                saved.fresh \/ "new_topic" \in Reads(msg, TriageContext(saved))]_vars
      BY <1>1, <1>2 DEF TopicOK
<1>4. QED BY <1>3, Invariance, PTL DEF Spec, TicketFollowsTopic
=============================================================================
