------------------------- MODULE DiagnosticWorkflow -------------------------
(***************************************************************************)
(* One support conversation: the dialogue graph that workflows/graph.py    *)
(* runs for every message of an employee (triage, retrieval, resolution,   *)
(* escalation, ticket draft), the classifier of conversational intents,    *)
(* and the turn of ChatService around it, which saves the state of the     *)
(* session and creates the ticket.  A step is a node; a turn that raises   *)
(* leaves the saved session as it was.                                     *)
(*                                                                         *)
(* A message is what the lists of phrases find in it.  The feature flags   *)
(* have their defaults: no fluid chat and a supervisor in shadow mode,     *)
(* which with the policy node only logs on this path.                      *)
(***************************************************************************)
EXTENDS Naturals, FiniteSets

CONSTANTS
    Steps,        \* instructions of the knowledge base
    Messages,     \* what an employee may type
    LlmReads,     \* intents the LLM may answer with; {} when it is unavailable
    MaxTurns,     \* _MAX_TURNS
    MaxQuestions, \* max_clarifications
    MissLimit     \* RESOLUTION_MISS_ESCALATE_THRESHOLD, at least 1

Intents == {"new_topic", "confirm", "deny", "negative", "positive", "escalate",
            "greeting", "gratitude", "simplify", "small_talk", "continue"}

Message == [cues : SUBSET Intents,  \* the detectors of classify_intent that hit
            words : SUBSET {"works", "fails", "thanks", "hello", "yes", "no",
                            "simpler", "live"},  \* the nodes' own lists that hit
            tells : SUBSET {"system", "problem"},
            long : BOOLEAN]         \* four words or more

Phases == {"none", "intake", "clarifying", "diagnosing", "confirming",
           "escalating", "resolved"}

ASSUME MessagesAssumption == Messages \subseteq Message
ASSUME LlmAssumption == LlmReads \subseteq Intents
ASSUME BoundsAssumption ==
    MaxTurns \in Nat \ {0} /\ MaxQuestions \in Nat \ {0} /\ MissLimit \in Nat \ {0}

VARIABLES
    saved,   \* the state in the session store
    ticket,  \* the session holds a ticket
    pc,      \* the node that runs next; "idle" between turns
    msg,     \* the employee's message
    s,       \* the copy of the state this turn works on
    turn,    \* the keys of the state that every turn starts without
    reply    \* what the last answer said

vars == <<saved, ticket, pc, msg, s, turn, reply>>

\* DiagnosticContext, and the phase and turn count of the workflow's state.
State == [sorted : BOOLEAN,      \* issue_category is set
          known : BOOLEAN,       \* normalized_system is set
          described : BOOLEAN,   \* symptom, statement, subtype or flags are set
          suggested : SUBSET Steps, failed : SUBSET Steps,
          asked : 0 .. MaxQuestions,   \* clarification_count, up to its limit
          attempts : 0 .. 2,           \* resolution_attempts, up to 2
          awaiting : BOOLEAN, agreed : BOOLEAN, resolved : BOOLEAN,
          missed : BOOLEAN,      \* last_resolution_failed
          offered : BOOLEAN,     \* escalation_offered_in_session
          live : BOOLEAN,        \* live_agent_requested
          fresh : BOOLEAN,       \* last_response_type is "new_topic"
          phase : Phases,        \* conversation_phase
          turns : 0 .. MaxTurns] \* turn_count, up to its limit

Turn == [said : {"user", "guide", "other"},  \* who wrote the last message
         plan : SUBSET Steps,                \* steps of the retrieved articles
         shown : SUBSET Steps,               \* steps presented in this turn
         confirmed : BOOLEAN,                \* escalation_confirmed
         drafted : BOOLEAN]                  \* ticket_draft

Replies == {"none", "error", "text", "promise", "ticket"}

NoMessage == [cues |-> {}, words |-> {}, tells |-> {}, long |-> FALSE]
NoTurn == [said |-> "user", plan |-> {}, shown |-> {},
           confirmed |-> FALSE, drafted |-> FALSE]
NoState == [sorted |-> FALSE, known |-> FALSE, described |-> FALSE,
            suggested |-> {}, failed |-> {}, asked |-> 0, attempts |-> 0,
            awaiting |-> FALSE, agreed |-> FALSE, resolved |-> FALSE,
            missed |-> FALSE, offered |-> FALSE, live |-> FALSE,
            fresh |-> FALSE, phase |-> "none", turns |-> 0]

Init == /\ saved = NoState /\ s = NoState /\ ticket = FALSE /\ pc = "idle"
        /\ msg = NoMessage /\ turn = NoTurn /\ reply = "none"

UpTo(n, limit) == IF n < limit THEN n ELSE limit

-----------------------------------------------------------------------------
(* Reading a message: classify_intent and the LLM above it.                *)

\* The flags the classifiers take.
Context(issue, question, steps, closed) ==
    [issue |-> issue, question |-> question, steps |-> steps, closed |-> closed]

\* The intents found in a message m under flags c.
Detected(m, c) ==
    LET found == {i \in m.cues :
                    /\ i \in {"negative", "positive"} => c.steps
                    /\ i \in {"confirm", "deny"} => c.question
                    /\ i = "greeting" =>
                         ~c.issue \/ {"new_topic", "escalate"} \cap m.cues # {}}
    IN  found \cup IF /\ c.closed /\ m.long
                      /\ {"gratitude", "new_topic", "escalate"} \cap m.cues = {}
                   THEN {"new_topic"} ELSE {}

\* The order in which classify_intent prefers one detection to another.
Priority == <<"escalate", "new_topic", "negative", "positive", "simplify", "deny",
              "confirm", "gratitude", "greeting", "small_talk", "continue">>

Keyword(m, c) ==
    LET found == Detected(m, c) \cup {"continue"}
        first == CHOOSE k \in 1 .. 11 :
                    Priority[k] \in found /\ \A j \in 1 .. k - 1 : Priority[j] \notin found
    IN  Priority[first]

\* The answers of the LLM that the state of the conversation admits.
Plausible(c) == {i \in LlmReads :
    /\ i = "new_topic" => c.issue
    /\ i \in {"confirm", "deny"} => c.question
    /\ i \in {"positive", "negative"} => c.steps
    /\ i = "greeting" => ~c.issue}

\* A keyword reading of the two safety intents is final; otherwise the LLM may
\* overrule it, and its failure or doubt leaves it.
Reads(m, c) ==
    {Keyword(m, c)} \cup
        IF Keyword(m, c) \in {"new_topic", "escalate"} THEN {} ELSE Plausible(c)

TriageContext(c) == Context(c.sorted \/ c.known \/ c.suggested # {}, c.awaiting,
                            c.suggested # {}, c.resolved)
OfferContext == Context(TRUE, TRUE, FALSE, FALSE)
GuardContext == Context(TRUE, TRUE, TRUE, FALSE)

-----------------------------------------------------------------------------
(* The service: a turn starts, or the employee presses the button.         *)

\* A turn works on a copy of the saved state.
Say(m) ==
    /\ pc = "idle"
    /\ msg' = m
    /\ s' = [saved EXCEPT !.turns = UpTo(@ + 1, MaxTurns)]
    /\ turn' = NoTurn
    /\ pc' = "triage"
    /\ UNCHANGED <<saved, ticket, reply>>

\* Enough is known of the issue to search for it, and to hand it over.
EnoughContext(c) == c.described /\ (c.sorted \/ c.known)
HandoffSufficient(c) == c.suggested # {} \/ c.failed # {} \/ EnoughContext(c)

\* "Connect with a specialist": one ticket, once there is something to tell; a
\* session without a state gets a minimal one.
RequestLiveAgent ==
    /\ pc = "idle" /\ ~ticket
    /\ saved.turns = 0 \/ saved.offered \/ HandoffSufficient(saved)
    /\ ticket' = TRUE
    /\ reply' = "ticket"
    /\ UNCHANGED <<saved, pc, msg, s, turn>>

\* A node raised: the employee is told so, and nothing is saved.
Fail ==
    /\ pc # "idle"
    /\ pc' = "idle" /\ reply' = "error"
    /\ s' = saved /\ turn' = NoTurn /\ msg' = NoMessage
    /\ UNCHANGED <<saved, ticket>>

-----------------------------------------------------------------------------
(* triage                                                                  *)

\* Nothing is known any more of the issue but its system and category.
ResetIssue(c) == [NoState EXCEPT !.sorted = c.sorted, !.known = c.known,
                                 !.phase = c.phase, !.turns = c.turns]

\* Triage answers the employee itself, and the turn ends.
Answers(c) == /\ s' = c
              /\ turn' = [turn EXCEPT !.said = "other"]
              /\ pc' = "reply"
              /\ UNCHANGED <<saved, ticket, msg, reply>>

ChangeTopic ==
    /\ "new_topic" \in Reads(msg, TriageContext(s))
    /\ Answers([ResetIssue(s) EXCEPT !.sorted = FALSE, !.known = FALSE,
                                     !.fresh = TRUE, !.phase = "intake"])

\* Nobody is handed over who has not said what the problem is.
GatherProblem ==
    /\ "escalate" \in Reads(msg, TriageContext(s))
    /\ ~HandoffSufficient(s)
    /\ Answers([s EXCEPT !.live = FALSE, !.fresh = FALSE, !.phase = "clarifying"])

HandOver ==
    /\ "escalate" \in Reads(msg, TriageContext(s))
    /\ HandoffSufficient(s)
    /\ s' = [s EXCEPT !.live = TRUE, !.fresh = FALSE, !.phase = "escalating"]
    /\ turn' = [turn EXCEPT !.confirmed = TRUE]
    /\ pc' = "escalate"
    /\ UNCHANGED <<saved, ticket, msg, reply>>

\* The steps worked, or the employee says thanks for them.
Close ==
    /\ {"positive", "gratitude"} \cap Reads(msg, TriageContext(s)) # {}
    /\ s.suggested # {}
    /\ Answers([s EXCEPT !.resolved = TRUE, !.fresh = FALSE, !.phase = "resolved"])

\* The rest of triage is for the other intents, or for a praise that the LLM is
\* not sure of.
Continues ==
    \E i \in Reads(msg, TriageContext(s)) :
        /\ i \notin {"new_topic", "escalate"}
        /\ s.suggested # {} =>
             /\ i # "gratitude"
             /\ i = "positive" => "positive" \in Plausible(TriageContext(s))

CloseAgain ==
    /\ Continues
    /\ s.resolved /\ "thanks" \in msg.words
    /\ Answers([s EXCEPT !.phase = "resolved"])

\* After a closed issue the conversation starts on another one.
Reopened == IF s.resolved THEN ResetIssue(s) ELSE s
Resumes == Continues /\ ~(s.resolved /\ "thanks" \in msg.words)

Greet ==
    /\ Resumes
    /\ ~Reopened.sorted /\ ~Reopened.awaiting /\ Reopened.suggested = {}
    /\ "hello" \in msg.words
    /\ Answers([Reopened EXCEPT !.phase = "intake"])

\* A system that the message names: the one known so far, the first one, or
\* another one, which starts a new issue; its playbook may set the category.
Named(c) ==
    IF "system" \notin msg.tells THEN {c}
    ELSE {[c EXCEPT !.known = TRUE, !.sorted = b] : b \in {c.sorted, TRUE}}
         \cup IF ~c.known THEN {}
              ELSE {[ResetIssue(c) EXCEPT !.sorted = b] : b \in BOOLEAN}

\* What the message says of the symptom.
Told(c) == {[c EXCEPT !.described = b] :
                b \in {c.described, c.described \/ "problem" \in msg.tells}}

\* What triage knows when it looks for feedback on its steps.
Heard == {c \in UNION {Told(n) : n \in Named(Reopened)} :
            Resumes /\ ~(/\ ~Reopened.sorted /\ ~Reopened.awaiting
                         /\ Reopened.suggested = {} /\ "hello" \in msg.words)}

\* The phase is still the one that the previous turn left.
StepsGiven(c) == c.suggested # {} \/ s.phase = "confirming"

CloseByWords ==
    \E c \in Heard :
        /\ StepsGiven(c) /\ {"works", "thanks"} \cap msg.words # {}
        /\ Answers([c EXCEPT !.resolved = TRUE, !.fresh = FALSE, !.phase = "resolved"])

\* A complaint marks every step so far as failed.
Judged(c) ==
    IF StepsGiven(c) /\ "fails" \in msg.words
    THEN [c EXCEPT !.missed = TRUE, !.failed = @ \cup c.suggested] ELSE c

Assessed == {Judged(c) : c \in {h \in Heard :
                ~(StepsGiven(h) /\ {"works", "thanks"} \cap msg.words # {})}}

\* "No": the understanding was wrong, its details are dropped.
Deny ==
    \E c \in Assessed, b \in BOOLEAN :
        /\ c.awaiting /\ "yes" \notin msg.words /\ "no" \in msg.words
        /\ Answers([c EXCEPT !.awaiting = FALSE, !.agreed = FALSE,
                             !.described = b /\ c.described,
                             !.asked = UpTo(@ + 1, MaxQuestions),
                             !.phase = "clarifying"])

\* "Yes", or something else, to the question whether this is the problem.
Answered(c) ==
    [c EXCEPT !.awaiting = FALSE, !.agreed = @ \/ (c.awaiting /\ "yes" \in msg.words)]

Understood == {Answered(c) : c \in {a \in Assessed :
                ~(a.awaiting /\ "yes" \notin msg.words /\ "no" \in msg.words)}}

\* A first classification, or slots taken from the answer.
Classified(c) ==
    IF ~c.sorted
    THEN {[c EXCEPT !.sorted = TRUE, !.described = b] :
              b \in {c.described, c.described \/ "problem" \in msg.tells}}
    ELSE {[c EXCEPT !.described = TRUE, !.live = b] :
              b \in {c.live, c.live \/ "live" \in msg.words}}

\* A subtype that changes under steps already given starts them afresh.
Subtyped(c) ==
    {c} \cup IF "problem" \notin msg.tells THEN {}
             ELSE {[c EXCEPT !.described = TRUE],
                   [c EXCEPT !.described = TRUE, !.suggested = {}, !.failed = {}]}

Diagnosed == UNION {UNION {Subtyped(k) : k \in Classified(c)} : c \in Understood}

\* The playbook may ask for a slot, a limited number of times.
MayClarify(c) == ~c.live /\ c.asked < MaxQuestions /\ ~c.missed

Clarify ==
    \E c \in Diagnosed :
        /\ MayClarify(c)
        /\ Answers([c EXCEPT !.asked = UpTo(@ + 1, MaxQuestions), !.phase = "clarifying"])

\* Mutant: a described problem in a known system is thought to be understood.
UnderstandsDescription(c) == c.agreed \/ c.missed \/ (c.described /\ c.known)

\* Nothing is solved before the employee agreed on what the problem is, unless
\* steps for it failed already.
Understands(c) == c.agreed \/ c.missed

Confirm ==
    \E c \in Diagnosed :
        /\ ~Understands(c)
        /\ Answers([c EXCEPT !.awaiting = TRUE, !.fresh = FALSE, !.phase = "clarifying"])

\* Mutant: the route looks at the turn count alone.
DiagnoseUnheard ==
    \E c \in Diagnosed :
        /\ Understands(c)
        /\ s' = [c EXCEPT !.phase = "diagnosing"]
        /\ pc' = IF c.turns >= MaxTurns THEN "escalate" ELSE "retrieve"
        /\ UNCHANGED <<saved, ticket, msg, turn, reply>>

Diagnose ==
    \E c \in Diagnosed :
        /\ Understands(c)
        /\ s' = [c EXCEPT !.phase = "diagnosing"]
        /\ pc' = IF c.live \/ c.turns >= MaxTurns THEN "escalate" ELSE "retrieve"
        /\ UNCHANGED <<saved, ticket, msg, turn, reply>>

Triage == /\ pc = "triage"
          /\ \/ ChangeTopic \/ GatherProblem \/ HandOver \/ Close
             \/ CloseAgain \/ Greet \/ CloseByWords \/ Deny
             \/ Clarify \/ Confirm \/ Diagnose

-----------------------------------------------------------------------------
(* retrieval, resolution, escalation and the ticket's draft                *)

\* Articles that ground an answer, or an offer of escalation: there are none,
\* or too little speaks for them.
Retrieve ==
    /\ pc = "retrieve"
    /\ \/ \E plan \in SUBSET Steps :
            /\ turn' = [turn EXCEPT !.plan = plan]
            /\ pc' = "resolve"
            /\ s' = s
       \/ /\ s' = [s EXCEPT !.phase = "escalating"]
          /\ pc' = "escalate"
          /\ turn' = turn
    /\ UNCHANGED <<saved, ticket, msg, reply>>

\* Mutant: only the steps that failed are not presented again.
RemainingUnlessFailed == turn.plan \ s.failed

\* The steps that were not tried.
Remaining == turn.plan \ (s.suggested \cup s.failed)
AsksForSimpler == "simpler" \in msg.words /\ s.attempts >= 2
MissedEnough(c) == Cardinality(c.failed) >= MissLimit

\* A step is put to the employee; the route looks at the result again.
Shows(step, c, escalates) ==
    /\ s' = [c EXCEPT !.suggested = @ \cup {step}, !.attempts = UpTo(@ + 1, 2),
                      !.fresh = FALSE, !.phase = "confirming"]
    /\ turn' = [turn EXCEPT !.shown = {step}, !.said = "guide"]
    /\ pc' = IF escalates THEN "escalate" ELSE "reply"
    /\ UNCHANGED <<saved, ticket, msg, reply>>

\* The next step that was not tried, whatever confidence it earns.
Present ==
    /\ ~AsksForSimpler
    /\ ~MissedEnough(s)
    /\ \E step \in Remaining, low \in BOOLEAN : Shows(step, [s EXCEPT !.missed = FALSE], low)

\* One simple step, an old one when no other is left.
Simplify ==
    /\ AsksForSimpler
    /\ \E step \in (IF Remaining # {} THEN Remaining ELSE turn.plan) :
          Shows(step, s, MissedEnough(s))

\* Nothing to make simpler: it says so, and the route escalates.
CannotSimplify ==
    /\ AsksForSimpler /\ turn.plan = {}
    /\ turn' = [turn EXCEPT !.said = "guide"]
    /\ pc' = "escalate"
    /\ UNCHANGED <<saved, ticket, msg, s, reply>>

\* No step is left, or enough of them failed.
Exhaust ==
    /\ ~AsksForSimpler
    /\ Remaining = {} \/ MissedEnough(s)
    /\ s' = [s EXCEPT !.attempts = UpTo(@ + 1, 2), !.fresh = FALSE, !.phase = "escalating"]
    /\ pc' = "escalate"
    /\ UNCHANGED <<saved, ticket, msg, turn, reply>>

Resolve == pc = "resolve" /\ (Present \/ Simplify \/ CannotSimplify \/ Exhaust)

\* Whether the last message accepts the offer.  After a step was presented that
\* message is the agent's own: it ends "I can escalate this to our IT team",
\* which reads as a request unless the LLM phrased it.
Accepts ==
    IF turn.said = "user"
    THEN {i = "escalate" \/ (i = "confirm" /\ s.offered) : i \in Reads(msg, OfferContext)}
    ELSE {TRUE} \cup {i = "escalate" : i \in LlmReads}

Escalate ==
    /\ pc = "escalate"
    /\ \E accepts \in Accepts : turn' = [turn EXCEPT !.confirmed = accepts \/ s.live,
                                                     !.said = "other"]
    /\ pc' = "draft"
    /\ UNCHANGED <<saved, ticket, msg, s, reply>>

\* The draft is the offer; with an acceptance its text says that the ticket is
\* being created.
Draft ==
    /\ pc = "draft"
    /\ s' = [s EXCEPT !.offered = TRUE]
    /\ turn' = [turn EXCEPT !.drafted = TRUE]
    /\ pc' = "reply"
    /\ UNCHANGED <<saved, ticket, msg, reply>>

-----------------------------------------------------------------------------
(* The service: the ticket, and the answer                                 *)

\* Mutant: escalation_confirmed is trusted.
AuthorizedByEscalation == {TRUE}

\* A second reading of the message, with the offer of this turn made.
Authorized == {i = "escalate" \/ (i = "confirm" /\ (s.offered \/ s.live)) :
                  i \in Reads(msg, GuardContext)}

\* Mutant: a closed issue takes its ticket along.
KeptWhileOpen == ticket /\ ~s.fresh /\ ~s.resolved

\* The ticket of another topic is forgotten.
Kept == ticket /\ ~s.fresh

Answer ==
    /\ pc = "reply"
    /\ \E authorized \in Authorized :
         LET creates == ~Kept /\ turn.confirmed /\ turn.drafted /\ authorized
         IN  /\ ticket' = (Kept \/ creates)
             /\ reply' = CASE creates \/ (Kept /\ (turn.confirmed \/ s.live)) -> "ticket"
                           [] turn.confirmed /\ turn.drafted /\ ~Kept /\ ~creates -> "promise"
                           [] OTHER -> "text"
    /\ saved' = s
    /\ pc' = "idle" /\ turn' = NoTurn /\ msg' = NoMessage
    /\ UNCHANGED s

Next == \/ \E m \in Messages : Say(m)
        \/ RequestLiveAgent \/ Triage \/ Retrieve \/ Resolve \/ Escalate \/ Draft
        \/ Answer \/ Fail

Spec == Init /\ [][Next]_vars

-----------------------------------------------------------------------------
(* Properties                                                              *)

\* Every variable stays within its type; between turns the working copy is the
\* saved state.
TypeOK ==
    /\ saved \in State /\ s \in State /\ ticket \in BOOLEAN
    /\ pc \in {"idle", "triage", "retrieve", "resolve", "escalate", "draft", "reply"}
    /\ msg \in Message /\ turn \in Turn /\ reply \in Replies
    /\ pc = "idle" => s = saved

\* A step is presented to an employee who agreed on what the issue is, or who
\* complains that steps presented before failed; after such steps even a complaint
\* about another system counts, and the question is skipped (triage_node, steps
\* 2b and 5).
StepsAreAgreed ==
    [][turn'.shown # turn.shown /\ turn'.shown # {} =>
          \/ s.agreed
          \/ saved.missed
          \/ "fails" \in msg.words /\ (saved.suggested # {} \/ saved.phase = "confirming")]_vars

\* The next step is one that was neither presented nor reported as failed, unless
\* the employee asks for simpler words, or turns to another issue: one is closed,
\* or the message names a system or a problem (_build_progression).
StepsDoNotRepeat ==
    [][turn'.shown # turn.shown /\ turn'.shown \cap (saved.suggested \cup saved.failed) # {} =>
          saved.resolved \/ "simpler" \in msg.words \/ msg.tells # {}]_vars

\* Once the employee has asked for a human, and has said enough to be handed
\* over, no step of the issue is presented again (evaluate_escalation).
NoStepsAfterAsking ==
    [][turn'.shown # turn.shown /\ turn'.shown # {} => ~s.live /\ ~saved.live]_vars

\* A ticket is created by the employee's asking for it, or saying yes to an offer:
\* one of an earlier turn of this issue, or one in the agent's text of this turn,
\* which presents a step with little confidence or has none that is simpler
\* (_handle_ticketing).
TicketIsAskedFor ==
    [][ticket' /\ ~ticket =>
          \/ pc = "idle"
          \/ "escalate" \in Reads(msg, GuardContext)
          \/ /\ "confirm" \in Reads(msg, GuardContext)
             /\ \/ saved.offered \/ saved.live \/ "live" \in msg.words
                \/ turn.shown # {} \/ "simpler" \in msg.words]_vars

\* The session's ticket follows its topic (_invoke_workflow).  A ticket that the
\* conversation creates is not one that its next turn takes for another topic's;
\* and a ticket is forgotten only in a turn that changes the topic, or while
\* "new_topic" is still the last type of response: a clarifying question leaves
\* it, and a ticket that the button made meanwhile is forgotten by the next one.
TicketFollowsTopic ==
    [][/\ (ticket' /\ ~ticket /\ pc = "reply") => ~s.fresh
       /\ (ticket /\ ~ticket') =>
             saved.fresh \/ "new_topic" \in Reads(msg, TriageContext(saved))]_vars

\* A draft that says "I'm creating your support ticket" is followed by a ticket:
\* ticket_node says that it "avoids promising a ticket that was never created".
PromisedTicketExists == reply # "promise"
=============================================================================
