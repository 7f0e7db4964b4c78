---------------------- MODULE AgentConversation_proofs ----------------------
(***************************************************************************)
(* What holds of the shared conversation for any number of messages,       *)
(* answers, updates and requests: an answer and a proposal lead to one     *)
(* action at most, none while a person has the conversation, one word      *)
(* after a call for a person, and every message of the guest counts once.  *)
(***************************************************************************)
EXTENDS AgentConversation, FiniteSetTheorems, TLAPS

Jobs ==
  {Idle} \cup [op : {"handoff"}] \cup [op : {"inbound"}, of : Answers, update : Updates]
         \cup [op : {"retry", "sending"}, of : Messages]

Rows == [status : {"none", "pending", "sent", "failed"},
         proposes : BOOLEAN, live : BOOLEAN, since : BOOLEAN]

\* The tables keep the shape of the schema, and a request in the middle remembers
\* the message it is about.
Shape ==
  /\ mode \in {"ai", "needs_human", "human"}
  /\ message \in [Messages -> Rows]
  /\ answer \in [Answers -> [arrived : BOOLEAN, after : SUBSET Messages]]
  /\ handler \in [Handlers -> Jobs]
  /\ unread \in Nat /\ words \in Nat

\* A person who has taken over can be called again, but the assistant gets the
\* conversation back only from a person.
TakenIsNotAssisted == taken => mode # "ai"

\* The word after a call for a person is still to be seen when the next one is tried.
WordIsRemembered == mode = "needs_human" /\ words > 0 => SaidAWord

ConversationInv ==
  /\ Shape
  /\ TakenIsNotAssisted
  /\ WordIsRemembered
  /\ OneActionPerConsent
  /\ OneWordAfterHandoff
  /\ InboundCountedOnce

-----------------------------------------------------------------------------

LEMMA InitiallyHolds == Init => ConversationInv
<1> SUFFICES ASSUME Init PROVE ConversationInv
  OBVIOUS
<1>1. Shape
  BY DEF Init, Shape, Jobs, Rows, Unsent, Idle
<1>2. InboundCountedOnce
  <2>1. {a \in Answers : answer[a].arrived} = {}
    BY DEF Init
  <2> QED BY <2>1, FS_EmptySet DEF Init, InboundCountedOnce
<1> QED
  BY <1>1, <1>2 DEF Init, ConversationInv, TakenIsNotAssisted, WordIsRemembered,
                    OneActionPerConsent, OneWordAfterHandoff

LEMMA CallKeepsRows ==
  ASSUME message \in [Messages -> Rows], CallPerson
  PROVE  message' \in [Messages -> Rows]
<1>1. ASSUME NEW m \in Messages PROVE [message[m] EXCEPT !.since = FALSE] \in Rows
  BY DEF Rows
<1> QED
  BY <1>1 DEF CallPerson

LEMMA ShapeKept == Shape /\ [Next]_vars => Shape'
<1> SUFFICES ASSUME Shape, [Next]_vars PROVE Shape'
  OBVIOUS
<1> USE DEF Shape
<1>1. ASSUME NEW h \in Handlers, StartHandoff(h) \/ StartDefinite(h) PROVE Shape'
  BY <1>1 DEF StartHandoff, StartDefinite, Begin, owner, inbox, Jobs
<1>2. ASSUME NEW h \in Handlers, FinishHandoff(h) PROVE Shape'
  BY <1>2, CallKeepsRows DEF FinishHandoff, CallPerson, End, inbox, Jobs
<1>3. CASE DeskCallsForPayment \/ TakeOver \/ ResumeAI
  BY <1>3, CallKeepsRows DEF DeskCallsForPayment, TakeOver, ResumeAI, CallPerson, inbox
<1>4. ASSUME NEW h \in Handlers, NEW a \in Answers, NEW u \in Updates, StartInbound(h, a, u)
      PROVE Shape'
  BY <1>4 DEF StartInbound, Begin, owner, inbox, Jobs
<1>5. ASSUME NEW h \in Handlers, FinishInbound(h) PROVE Shape'
  <2>1. handler' \in [Handlers -> Jobs] /\ unread' \in Nat
    BY <1>5 DEF FinishInbound, End, Jobs
  <2>2. answer' \in [Answers -> [arrived : BOOLEAN, after : SUBSET Messages]]
    <3>1. CASE UNCHANGED answer
      BY <3>1
    <3>2. CASE ~UNCHANGED answer
      <4>1. answer' = [answer EXCEPT ![handler[h].of] =
                         [arrived |-> TRUE, after |-> {m \in Messages : message[m].proposes}]]
        BY <1>5, <3>2 DEF FinishInbound
      <4>2. {m \in Messages : message[m].proposes} \in SUBSET Messages
        OBVIOUS
      <4> QED BY <4>1, <4>2
    <3> QED BY <3>1, <3>2
  <2> QED BY <1>5, <2>1, <2>2 DEF FinishInbound, owner
<1>6. ASSUME NEW m \in Messages, NEW b \in BOOLEAN, Prepare(m, b) PROVE Shape'
  BY <1>6 DEF Prepare, inbox, Rows
<1>7. ASSUME NEW m \in Messages, NEW b \in BOOLEAN, ReportDelivery(m, b) PROVE Shape'
  <2>1. answer' \in [Answers -> [arrived : BOOLEAN, after : SUBSET Messages]]
    BY <1>7 DEF ReportDelivery
  <2>2. message' \in [Messages -> Rows]
    BY <1>7 DEF ReportDelivery, Rows
  <2> QED BY <1>7, <2>1, <2>2 DEF ReportDelivery, owner
<1>8. ASSUME NEW m \in Messages, Expire(m) PROVE Shape'
  BY <1>8 DEF Expire, owner, inbox, Rows
<1>9. ASSUME NEW h \in Handlers, NEW m \in Messages, StartRetry(h, m) PROVE Shape'
  BY <1>9 DEF StartRetry, Begin, owner, inbox, Jobs
<1>10. ASSUME NEW h \in Handlers, SendAgain(h) PROVE Shape'
  BY <1>10 DEF SendAgain, owner, inbox, Jobs, Rows, Idle
<1>11. ASSUME NEW h \in Handlers, NEW outcome \in {"sent", "failed"}, FinishRetry(h, outcome)
       PROVE Shape'
  BY <1>11 DEF FinishRetry, End, owner, inbox, Jobs, Rows, Idle
<1>12. ASSUME NEW m \in Messages, NEW a \in Answers, NEW waits \in BOOLEAN, Act(m, a, waits)
       PROVE Shape'
  BY <1>12, CallKeepsRows DEF Act, CallPerson, inbox
<1>13. CASE UNCHANGED vars
  BY <1>13 DEF vars
<1> QED
  BY <1>1, <1>2, <1>3, <1>4, <1>5, <1>6, <1>7, <1>8, <1>9, <1>10, <1>11, <1>12, <1>13
  DEF Next, OwnerStep, GuestStep, MessageStep, ActionStep
LEMMA TakenKept == TakenIsNotAssisted /\ [Next]_vars => TakenIsNotAssisted'
<1> SUFFICES ASSUME TakenIsNotAssisted, [Next]_vars PROVE TakenIsNotAssisted'
  OBVIOUS
<1> USE DEF TakenIsNotAssisted
<1>1. CASE OwnerStep
  BY <1>1 DEF OwnerStep, StartHandoff, StartDefinite, FinishHandoff, DeskCallsForPayment,
              TakeOver, ResumeAI, CallPerson, owner
<1>2. CASE GuestStep
  BY <1>2 DEF GuestStep, StartInbound, FinishInbound, owner
<1>3. CASE MessageStep
  BY <1>3 DEF MessageStep, Expire, Prepare, ReportDelivery, StartRetry, SendAgain,
              FinishRetry, owner
<1>4. CASE ActionStep
  BY <1>4 DEF ActionStep, Act, CallPerson
<1>5. CASE UNCHANGED vars
  BY <1>5 DEF vars
<1> QED
  BY <1>1, <1>2, <1>3, <1>4, <1>5 DEF Next

\* A word that was said stays said, unless a person is called anew.
LEMMA WordStays ==
  ASSUME Shape, Next, ~CallPerson, SaidAWord
  PROVE  SaidAWord'
<1>1. PICK m \in Messages : message[m].since /\ message[m].status # "none"
  BY DEF SaidAWord
<1>2. SUFFICES message'[m].since /\ message'[m].status # "none"
  BY DEF SaidAWord
<1> USE <1>1 DEF Shape, Rows
<1>3. CASE OwnerStep
  BY <1>3 DEF OwnerStep, StartHandoff, StartDefinite, FinishHandoff, DeskCallsForPayment,
              TakeOver, ResumeAI
<1>4. CASE GuestStep
  BY <1>4 DEF GuestStep, StartInbound, FinishInbound
<1>5. ASSUME NEW n \in Messages, NEW b \in BOOLEAN, Prepare(n, b) PROVE <1>2!1
  BY <1>5 DEF Prepare
<1>6. ASSUME NEW n \in Messages, NEW b \in BOOLEAN, ReportDelivery(n, b) PROVE <1>2!1
  BY <1>6 DEF ReportDelivery
<1>7. ASSUME NEW n \in Messages, Expire(n) PROVE <1>2!1
  BY <1>7 DEF Expire
<1>8. ASSUME NEW h \in Handlers, NEW n \in Messages, StartRetry(h, n) PROVE <1>2!1
  BY <1>8 DEF StartRetry
<1>9. ASSUME NEW h \in Handlers, SendAgain(h) PROVE <1>2!1
  BY <1>9 DEF SendAgain, Jobs, Idle
<1>10. ASSUME NEW h \in Handlers, NEW outcome \in {"sent", "failed"}, FinishRetry(h, outcome)
       PROVE <1>2!1
  BY <1>10 DEF FinishRetry, Jobs, Idle
<1>11. CASE ActionStep
  BY <1>11 DEF ActionStep, Act
<1> QED
  BY <1>3, <1>4, <1>5, <1>6, <1>7, <1>8, <1>9, <1>10, <1>11 DEF Next, MessageStep

\* Besides a call for a person, only a message of the assistant adds a word.
LEMMA WordsStep ==
  ASSUME Next
  PROVE  \/ CallPerson
         \/ words' = words /\ (mode' = mode \/ mode' \in {"human", "ai"})
         \/ /\ mode' = mode
            /\ words' = IF mode = "needs_human" THEN words + 1 ELSE words
            /\ mode = "needs_human" => ~SaidAWord
            /\ \E m \in Messages, p \in BOOLEAN : Prepare(m, p)
<1>1. CASE OwnerStep
  BY <1>1 DEF OwnerStep, StartHandoff, StartDefinite, FinishHandoff, DeskCallsForPayment,
              TakeOver, ResumeAI, owner
<1>2. CASE GuestStep
  BY <1>2 DEF GuestStep, StartInbound, FinishInbound, owner
<1>3. CASE MessageStep
  BY <1>3 DEF MessageStep, Expire, Prepare, ReportDelivery, StartRetry, SendAgain,
              FinishRetry, owner
<1>4. CASE ActionStep
  BY <1>4 DEF ActionStep, Act
<1> QED
  BY <1>1, <1>2, <1>3, <1>4 DEF Next

LEMMA WordsKept ==
  Shape /\ WordIsRemembered /\ OneWordAfterHandoff /\ [Next]_vars
    => WordIsRemembered' /\ OneWordAfterHandoff'
<1> SUFFICES ASSUME Shape, WordIsRemembered, OneWordAfterHandoff, [Next]_vars
             PROVE  WordIsRemembered' /\ OneWordAfterHandoff'
  OBVIOUS
<1> USE DEF WordIsRemembered, OneWordAfterHandoff
<1>1. CASE CallPerson
  BY <1>1 DEF CallPerson
<1>2. CASE Next /\ ~CallPerson /\ words' = words /\ (mode' = mode \/ mode' \in {"human", "ai"})
  BY <1>2, WordStays
<1>3. ASSUME NEW m \in Messages, NEW p \in BOOLEAN, Prepare(m, p),
             words' = IF mode = "needs_human" THEN words + 1 ELSE words,
             mode = "needs_human" => ~SaidAWord
      PROVE  WordIsRemembered' /\ OneWordAfterHandoff'
  <2>1. message'[m].since /\ message'[m].status # "none"
    BY <1>3 DEF Prepare, Shape, Rows
  <2>2. SaidAWord'
    BY <2>1 DEF SaidAWord
  <2>3. OneWordAfterHandoff'
    BY <1>3 DEF Shape
  <2> QED BY <2>2, <2>3
<1>4. CASE UNCHANGED vars
  BY <1>4 DEF vars, SaidAWord
<1> QED
  BY <1>1, <1>2, <1>3, <1>4, WordsStep

LEMMA ActionsStep ==
  ASSUME [Next]_vars
  PROVE  \/ executed' = executed
         \/ \E m \in Messages, a \in Answers : /\ Claims(m, a) = {} /\ mode = "ai"
                /\ executed' = executed \cup {[proposal |-> m, confirmation |-> a]}
<1>1. CASE OwnerStep
  BY <1>1 DEF OwnerStep, StartHandoff, StartDefinite, FinishHandoff, DeskCallsForPayment,
              TakeOver, ResumeAI
<1>2. CASE GuestStep
  BY <1>2 DEF GuestStep, StartInbound, FinishInbound
<1>3. CASE MessageStep
  BY <1>3 DEF MessageStep, Expire, Prepare, ReportDelivery, StartRetry, SendAgain, FinishRetry
<1>4. CASE ActionStep
  BY <1>4 DEF ActionStep, Act, AssistantOwns
<1>5. CASE UNCHANGED vars
  BY <1>5 DEF vars
<1> QED
  BY <1>1, <1>2, <1>3, <1>4, <1>5 DEF Next

LEMMA ConsentKept == OneActionPerConsent /\ [Next]_vars => OneActionPerConsent'
<1> SUFFICES ASSUME OneActionPerConsent, [Next]_vars PROVE OneActionPerConsent'
  OBVIOUS
<1>1. CASE executed' = executed
  BY <1>1 DEF OneActionPerConsent
<1>2. ASSUME NEW m \in Messages, NEW a \in Answers, Claims(m, a) = {},
             executed' = executed \cup {[proposal |-> m, confirmation |-> a]}
      PROVE  OneActionPerConsent'
  BY <1>2 DEF OneActionPerConsent, Claims
<1> QED
  BY <1>1, <1>2, ActionsStep

\* Only the end of a request of the provider changes what has arrived.
LEMMA InboundStep ==
  ASSUME Shape, [Next]_vars
  PROVE  \/ unread' = unread /\ \A a \in Answers : answer'[a].arrived = answer[a].arrived
         \/ \E a \in Answers :
              /\ ~answer[a].arrived /\ answer'[a].arrived /\ unread' = unread + 1
              /\ \A b \in Answers \ {a} : answer'[b] = answer[b]
<1>1. CASE OwnerStep
  BY <1>1 DEF OwnerStep, StartHandoff, StartDefinite, FinishHandoff, DeskCallsForPayment,
              TakeOver, ResumeAI, inbox
<1>2. ASSUME NEW h \in Handlers, FinishInbound(h)
      PROVE  \/ unread' = unread /\ answer' = answer
             \/ \E a \in Answers :
                  /\ ~answer[a].arrived /\ answer'[a].arrived /\ unread' = unread + 1
                  /\ \A b \in Answers \ {a} : answer'[b] = answer[b]
  <2>1. handler[h].of \in Answers
    BY <1>2 DEF FinishInbound, Shape, Jobs, Idle
  <2>2. CASE ~MessageIsNew(handler[h].of, handler[h].update)
    BY <1>2, <2>2 DEF FinishInbound
  <2>3. CASE MessageIsNew(handler[h].of, handler[h].update)
    <3>1. /\ answer' = [answer EXCEPT ![handler[h].of] =
                          [arrived |-> TRUE, after |-> {m \in Messages : message[m].proposes}]]
          /\ unread' = unread + 1
      BY <1>2, <2>3 DEF FinishInbound
    <3>2. ~answer[handler[h].of].arrived
      BY <2>3 DEF MessageIsNew
    <3> QED BY <2>1, <3>1, <3>2 DEF Shape
  <2> QED BY <2>2, <2>3
<1>3. ASSUME NEW h \in Handlers, NEW a \in Answers, NEW u \in Updates, StartInbound(h, a, u)
      PROVE  unread' = unread /\ answer' = answer
  BY <1>3 DEF StartInbound, inbox
<1>4. ASSUME NEW m \in Messages, NEW b \in BOOLEAN, ReportDelivery(m, b)
      PROVE  unread' = unread /\ \A a \in Answers : answer'[a].arrived = answer[a].arrived
  BY <1>4 DEF ReportDelivery, Shape
<1>5. CASE MessageStep /\ ~\E m \in Messages, b \in BOOLEAN : ReportDelivery(m, b)
  BY <1>5 DEF MessageStep, Expire, Prepare, StartRetry, SendAgain, FinishRetry, inbox
<1>6. CASE ActionStep
  BY <1>6 DEF ActionStep, Act, inbox
<1>7. CASE UNCHANGED vars
  BY <1>7 DEF vars
<1> QED
  BY <1>1, <1>2, <1>3, <1>4, <1>5, <1>6, <1>7 DEF Next, GuestStep

LEMMA InboundKept == Shape /\ InboundCountedOnce /\ [Next]_vars => InboundCountedOnce'
<1> SUFFICES ASSUME Shape, InboundCountedOnce, [Next]_vars PROVE InboundCountedOnce'
  OBVIOUS
<1> DEFINE arrived == {a \in Answers : answer[a].arrived}
<1>1. IsFiniteSet(arrived)
  BY AnswersAssumption, FS_Subset, arrived \subseteq Answers
<1>2. CASE unread' = unread /\ \A a \in Answers : answer'[a].arrived = answer[a].arrived
  <2>1. arrived' = arrived
    BY <1>2
  <2> QED BY <1>2, <2>1 DEF InboundCountedOnce
<1>3. ASSUME NEW a \in Answers, ~answer[a].arrived, answer'[a].arrived, unread' = unread + 1,
             \A b \in Answers \ {a} : answer'[b] = answer[b]
      PROVE  InboundCountedOnce'
  <2>1. arrived' = arrived \cup {a} /\ a \notin arrived
    BY <1>3
  <2>2. Cardinality(arrived \cup {a}) = Cardinality(arrived) + 1
    BY <1>1, <2>1, FS_AddElement
  <2> QED BY <1>3, <2>1, <2>2 DEF InboundCountedOnce
<1> QED
  BY <1>2, <1>3, InboundStep

-----------------------------------------------------------------------------
(* Theorems *)

\* The inductive invariant of the conversation.
THEOREM ConversationInvariant == Spec => []ConversationInv
<1>1. ConversationInv /\ [Next]_vars => ConversationInv'
  BY ShapeKept, TakenKept, WordsKept, ConsentKept, InboundKept DEF ConversationInv
<1> QED
  BY InitiallyHolds, <1>1, PTL DEF Spec

\* Under any retries and any number of callers, one action at most for each answer of
\* the guest and for each proposal.
THEOREM OneActionForOneConsent == Spec => []OneActionPerConsent
<1>1. ConversationInv => OneActionPerConsent
  BY DEF ConversationInv
<1> QED
  BY ConversationInvariant, <1>1, PTL

\* Nothing is booked or changed in the guest's name while a person has the conversation.
THEOREM StaffIsNotOverruled == Spec => NoActionWhileStaffOwns
<1>1. ConversationInv /\ [Next]_vars => [(executed' # executed) => ~taken]_vars
  BY ActionsStep DEF ConversationInv, TakenIsNotAssisted
<1> QED
  BY ConversationInvariant, <1>1, PTL DEF Spec, NoActionWhileStaffOwns

\* The assistant says one thing at most after a call for a person.
THEOREM SaysOneWord == Spec => []OneWordAfterHandoff
<1>1. ConversationInv => OneWordAfterHandoff
  BY DEF ConversationInv
<1> QED
  BY ConversationInvariant, <1>1, PTL

\* Every message of the guest is counted once, however often it is delivered.
THEOREM CountsEachMessageOnce == Spec => []InboundCountedOnce
<1>1. ConversationInv => InboundCountedOnce
  BY DEF ConversationInv
<1> QED
  BY ConversationInvariant, <1>1, PTL

=============================================================================
