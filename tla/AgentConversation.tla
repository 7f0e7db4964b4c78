-------------------------- MODULE AgentConversation --------------------------
(***************************************************************************)
(* One conversation with a guest, which the assistant and the staff share: *)
(* who owns it, the assistant's messages and the actions they propose, the *)
(* guest's answers, and the actions that were carried out on an answer.    *)
(*                                                                         *)
(* Times are kept as what the code asks of them: whether a message of the  *)
(* assistant is stamped since the last call for a person, and which        *)
(* proposals are stamped before an answer.  Every answer is an explicit    *)
(* confirmation.  An action that fails or is not allowed for the guest     *)
(* leaves no trace (its transaction is rolled back), so it is no step; nor *)
(* is a retry that is answered with the stored result.  That the staff     *)
(* sets unread_count to what it has read is left out.                      *)
(***************************************************************************)
EXTENDS Naturals, FiniteSets

CONSTANTS
  Messages,   \* bound: messages of the assistant
  Answers,    \* bound: messages of the guest
  Updates,    \* bound: updates of the provider that carry one message
  Handlers    \* bound: requests at the same time

ASSUME AnswersAssumption == IsFiniteSet(Answers)

VARIABLES
  mode,       \* conversations.automation_mode
  message,    \* messages of the assistant, with the action they propose
  answer,     \* messages of the guest
  events,     \* integration_events: the updates that were seen
  unread,     \* conversations.unread_count
  executed,   \* agent_action_executions
  handler,    \* the handlers that have read and not yet written
  taken,      \* history: a person has taken over and not handed back
  words       \* history: the assistant's messages in this call for a person

vars == <<mode, message, answer, events, unread, executed, handler, taken, words>>
owner == <<mode, taken, words>>
inbox == <<answer, events, unread>>

Unsent == [status |-> "none", proposes |-> FALSE, live |-> FALSE, since |-> FALSE]
Idle == [op |-> "idle"]

Init ==
  /\ mode = "ai"
  /\ message = [m \in Messages |-> Unsent]
  /\ answer = [a \in Answers |-> [arrived |-> FALSE, after |-> {}]]
  /\ events = {} /\ unread = 0
  /\ executed = {}
  /\ handler = [h \in Handlers |-> Idle]
  /\ taken = FALSE /\ words = 0

Begin(h, job) ==
  /\ handler[h] = Idle
  /\ handler' = [handler EXCEPT ![h] = job]

End(h) == handler' = [handler EXCEPT ![h] = Idle]

-----------------------------------------------------------------------------
(* Who owns the conversation *)

\* Every call for a person stamps handoff_requested_at, so no message is since it.
CallPerson ==
  /\ mode' = "needs_human"
  /\ message' = [m \in Messages |-> [message[m] EXCEPT !.since = FALSE]]
  /\ words' = 0

\* POST /handoff reads the conversation without a lock.  A second call for the same
\* reason is no step; one for another reason is always possible.
StartHandoff(h) ==
  /\ mode # "human"
  /\ Begin(h, [op |-> "handoff"])
  /\ UNCHANGED <<owner, message, inbox, executed>>

\* POST /requests/lifecycle with "definite" reads it under the lock of the lead only.
StartDefinite(h) ==
  /\ mode = "ai"
  /\ Begin(h, [op |-> "handoff"])
  /\ UNCHANGED <<owner, message, inbox, executed>>

FinishHandoff(h) ==
  /\ handler[h].op = "handoff"
  /\ CallPerson
  /\ End(h)
  /\ UNCHANGED <<taken, inbox, executed>>

\* The desk books with a deposit, or marks the request definite.
DeskCallsForPayment ==
  /\ CallPerson
  /\ UNCHANGED <<taken, inbox, executed, handler>>

\* POST /conversations/:id/takeover, and the PMS inbox's.
TakeOver ==
  /\ mode' = "human"
  /\ taken' = TRUE
  /\ UNCHANGED <<words, message, inbox, executed, handler>>

ResumeAI ==
  /\ mode' = "ai"
  /\ taken' = FALSE
  /\ UNCHANGED <<words, message, inbox, executed, handler>>

-----------------------------------------------------------------------------
(* Messages of the guest *)

\* A message is new when neither its update nor its own key is stored.
StartInbound(h, a, u) ==
  /\ <<a, u>> \notin events
  /\ ~answer[a].arrived
  /\ Begin(h, [op |-> "inbound", of |-> a, update |-> u])
  /\ UNCHANGED <<owner, message, inbox, executed>>

\* Mutant: only the update has a key.
UpdateIsNew(a, u) == <<a, u>> \notin events

\* The keys decide again at the insert, when another handler was faster.
MessageIsNew(a, u) == <<a, u>> \notin events /\ ~answer[a].arrived

FinishInbound(h) ==
  LET a == handler[h].of
      u == handler[h].update
  IN
  /\ handler[h].op = "inbound"
  /\ events' = events \cup {<<a, u>>}
  /\ IF MessageIsNew(a, u)
       THEN /\ answer' = [answer EXCEPT ![a] =
                 [arrived |-> TRUE, after |-> {m \in Messages : message[m].proposes}]]
            /\ unread' = unread + 1
       ELSE UNCHANGED <<answer, unread>>
  /\ End(h)
  /\ UNCHANGED <<owner, message, executed>>

-----------------------------------------------------------------------------
(* Messages of the assistant *)

\* Mutant: a message that is not delivered is not looked for.
DeliveredWord == \E m \in Messages : message[m].since /\ message[m].status = "sent"

SaidAWord == \E m \in Messages : message[m].since /\ message[m].status # "none"

\* POST /messages/outbound/prepare holds the conversation's row: the assistant owns
\* it, or has just called for a person and says one word more, without a proposal.
Prepare(m, proposes) ==
  /\ message[m].status = "none"
  /\ \/ mode = "ai"
     \/ mode = "needs_human" /\ ~proposes /\ ~SaidAWord
  /\ message' = [message EXCEPT ![m] =
       [status |-> "pending", proposes |-> proposes, live |-> proposes, since |-> TRUE]]
  /\ words' = IF mode = "needs_human" THEN words + 1 ELSE words
  /\ UNCHANGED <<mode, taken, inbox, executed, handler>>

\* POST /messages/outbound/result, whoever owns the conversation now; what is sent
\* stays sent, and is stamped anew.
ReportDelivery(m, success) ==
  /\ message[m].status \in {"pending", "failed"}
  /\ message' = [message EXCEPT ![m] =
       IF success THEN [@ EXCEPT !.status = "sent", !.since = TRUE] ELSE [@ EXCEPT !.status = "failed"]]
  /\ answer' = IF success THEN [a \in Answers |-> [answer[a] EXCEPT !.after = @ \ {m}]] ELSE answer
  /\ UNCHANGED <<owner, events, unread, executed, handler>>

\* A proposal is good for thirty minutes.
Expire(m) ==
  /\ message[m].live
  /\ message' = [message EXCEPT ![m].live = FALSE]
  /\ UNCHANGED <<owner, inbox, executed, handler>>

\* POST /conversations/:id/messages/:messageId/retry takes any failed message.
StartRetry(h, m) ==
  /\ mode = "human"
  /\ message[m].status = "failed"
  /\ Begin(h, [op |-> "retry", of |-> m])
  /\ UNCHANGED <<owner, message, inbox, executed>>

SendAgain(h) ==
  /\ handler[h].op = "retry"
  /\ message' = [message EXCEPT ![handler[h].of].status = "pending"]
  /\ handler' = [handler EXCEPT ![h].op = "sending"]
  /\ UNCHANGED <<owner, inbox, executed>>

\* The time stamp stays that of the first attempt.
FinishRetry(h, outcome) ==
  /\ handler[h].op = "sending"
  /\ message' = [message EXCEPT ![handler[h].of].status = outcome]
  /\ End(h)
  /\ UNCHANGED <<owner, inbox, executed>>

-----------------------------------------------------------------------------
(* Actions on a confirmed proposal: services/agent-action-service.ts *)

\* Mutant: a proposal is used once, the guest's word as often as wanted.
ProposalUsed(m, a) == {e \in executed : e.proposal = m /\ a \in Answers}

\* What was carried out on this answer or this proposal, in the lookup and in the
\* unique indexes alike.
Claims(m, a) == {e \in executed : e.proposal = m \/ e.confirmation = a}

\* Mutant: only a person who has taken over stops the assistant.
NobodyTookOver == mode # "human"

AssistantOwns == mode = "ai"

\* The guest answered a delivered proposal, later than its time stamp.
Confirmed(m, a) == message[m].status = "sent" /\ m \in answer[a].after

\* executeConfirmedAgentAction holds the conversation's row and reads all it needs
\* under it.  A booking that waits for money calls for a person as well.
Act(m, a, waits) ==
  /\ message[m].proposes
  /\ Confirmed(m, a)
  /\ Claims(m, a) = {}
  /\ AssistantOwns
  /\ message[m].live
  /\ executed' = executed \cup {[proposal |-> m, confirmation |-> a]}
  /\ IF waits THEN CallPerson ELSE UNCHANGED <<mode, message, words>>
  /\ UNCHANGED <<taken, inbox, handler>>

-----------------------------------------------------------------------------
(* Specification *)

OwnerStep ==
  \/ \E h \in Handlers : StartHandoff(h) \/ StartDefinite(h) \/ FinishHandoff(h)
  \/ DeskCallsForPayment \/ TakeOver \/ ResumeAI

GuestStep == \E h \in Handlers :
  FinishInbound(h) \/ \E a \in Answers, u \in Updates : StartInbound(h, a, u)

MessageStep ==
  \/ \E m \in Messages : Expire(m) \/ \E b \in BOOLEAN : Prepare(m, b) \/ ReportDelivery(m, b)
  \/ \E h \in Handlers :
       \/ SendAgain(h)
       \/ \E m \in Messages : StartRetry(h, m)
       \/ \E outcome \in {"sent", "failed"} : FinishRetry(h, outcome)

ActionStep == \E m \in Messages, a \in Answers, waits \in BOOLEAN : Act(m, a, waits)

Next == OwnerStep \/ GuestStep \/ MessageStep \/ ActionStep

Spec == Init /\ [][Next]_vars

-----------------------------------------------------------------------------
(* Properties *)

\* services/agent-action-service.ts:18: a proposal leads to at most one action, and
\* so does an answer, under retries and with two callers at once.
OneActionPerConsent ==
  \A e, f \in executed : (e.proposal = f.proposal \/ e.confirmation = f.confirmation) => e = f

\* While a person has the conversation, from the takeover until they hand it back,
\* nothing new is booked or changed in the guest's name.
NoActionWhileStaffOwns == [][(executed' # executed) => ~taken]_vars

\* After a call for a person the assistant says at most one thing more, also when
\* what it said before is delivered late or not at all.
OneWordAfterHandoff == words <= 1

\* However often and under however many updates the provider sends a message, it
\* counts once.
InboundCountedOnce == unread = Cardinality({a \in Answers : answer[a].arrived})

=============================================================================
