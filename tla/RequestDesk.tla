----------------------------- MODULE RequestDesk -----------------------------
(***************************************************************************)
(* One request (a lead): its stage in the sales journey, its place in the  *)
(* funnel, its follow-up, its offer and the reservations made for it.      *)
(*                                                                         *)
(* The journey reads the request before its transaction and writes what it *)
(* read earlier calls for; the funnel locks the request first; a booking   *)
(* reads the request and locks it by writing it; the assistant's booking   *)
(* locks only the offer.  So each of these is two steps here, a start and  *)
(* a finish, and the lock decides who may finish.                          *)
(*                                                                         *)
(* Abstractions: /advance may be forced, so no checklist is a guard; what  *)
(* the folio says is whether a deposit is still owed; dates and prices are *)
(* always there, and a cabin always is (RoomDesk has the cabins); the      *)
(* assistant may always act (AgentConversation has whose turn it is).      *)
(* Tasks that mirror migrated follow-ups are left out.                     *)
(***************************************************************************)
EXTENDS Naturals, Sequences, FiniteSets, SequencesExt

CONSTANTS
  Handlers,     \* bound: requests at the same time
  MaxRequests   \* bound: requests in all

ASSUME RequestBound == MaxRequests \in Nat

VARIABLES
  stage,      \* leads.stage
  funnel,     \* leads.request_lifecycle
  visited,    \* lead_stage_history: the stages in the order they were first entered
  accommodation, \* leads.room_type, or an accommodation item
  owed,       \* folios: deposit_required > paid_amount
  offer,      \* offers: the last one
  followUp,   \* follow_ups: the last one
  booking,    \* reservations of the request: the one the desk and the journey
              \* share (its id is made from the request's) and the assistant's
  folioOf,    \* folios.reservation_id
  billed,     \* payment_requests: the key request:<lead>:deposit is used
  handler,    \* the handlers that have read and not yet written
  served      \* bound: the requests that were begun

vars == <<stage, funnel, visited, accommodation, owed, offer, followUp, booking, folioOf, billed, handler, served>>
lead == <<stage, funnel, visited, accommodation>>
sale == <<owed, offer, followUp>>
rows == <<booking, folioOf, billed>>

Sources == {"desk", "assistant"}
ClosedFunnel == {"won", "lost", "closed"}
OverStages == {"completed", "lost", "cancelled"}
Live == {"pending_payment", "confirmed"}
Idle == [op |-> "idle"]

Init ==
  /\ stage = "new"
  /\ funnel = "enquire"
  /\ visited = <<"new">>
  /\ accommodation \in BOOLEAN
  /\ owed = FALSE
  /\ offer = "none"
  /\ followUp = "none"
  /\ booking = [s \in Sources |-> "none"]
  /\ folioOf = "none"
  /\ billed = FALSE
  /\ handler = [h \in Handlers |-> Idle]
  /\ served = 0

Booked == \E s \in Sources : booking[s] # "none"

-----------------------------------------------------------------------------
(* What the handlers share *)

Serve ==
  /\ served < MaxRequests
  /\ served' = served + 1

Begin(h, job) ==
  /\ Serve
  /\ handler[h] = Idle
  /\ handler' = [handler EXCEPT ![h] = job]
  /\ UNCHANGED <<lead, sale, rows>>

End(h) ==
  /\ handler' = [handler EXCEPT ![h] = Idle]
  /\ served' = served

\* Mutant: the row is read without its lock.
LeadNotAsked(h) == h \in Handlers

\* Whoever writes the lead waits for the handler that holds its row.
LeadIsFree(h) == \A g \in Handlers \ {h} : handler[g].op # "funnel"

Enter(s) ==
  /\ stage' = s
  /\ visited' = IF Contains(visited, s) THEN visited ELSE Append(visited, s)

\* Only an open follow-up is closed.
Closed(status) == IF status = "open" THEN "done" ELSE status

-----------------------------------------------------------------------------
(* The sales journey: services/lead-journey.ts *)

\* nextStageFor; a stage that is over has none.
NextStage ==
  CASE stage = "new" -> "qualified"
    [] stage = "qualified" -> "planning"
    [] stage = "planning" -> "offer"
    [] stage = "offer" -> IF owed THEN "payment_pending" ELSE "confirmed"
    [] stage = "payment_pending" -> "confirmed"
    [] stage = "confirmed" -> "completed"
    [] OTHER -> "none"

StartAdvance(h) ==
  /\ NextStage # "none"
  /\ Begin(h, [op |-> "journey", to |-> NextStage, room |-> accommodation, quoted |-> offer = "open"])

StartLose(h) ==
  /\ stage \notin {"completed", "lost"}
  /\ Begin(h, [op |-> "journey", to |-> "lost"])

StartCancel(h) ==
  /\ stage = "confirmed"
  /\ Begin(h, [op |-> "journey", to |-> "cancelled", seen |-> booking])

\* ensureReservationForRequest, which asks for no deposit here.
Reserve(h) ==
  IF handler[h].room /\ ~Booked
    THEN /\ booking' = [booking EXCEPT !["desk"] = "confirmed"]
         /\ folioOf' = "desk"
    ELSE UNCHANGED <<booking, folioOf>>

\* Mutant: the reservations that the context has read are cancelled.
CancelSeen(h) == booking' = [s \in Sources |->
  IF handler[h].seen[s] = "none" THEN booking[s] ELSE "cancelled"]

\* Every reservation of the request, as the transaction finds them.
CancelReservations(h) == booking' = [s \in Sources |->
  IF booking[s] = "none" THEN "none" ELSE "cancelled"]

\* applyStageTransition, with the context of the start.
FinishJourney(h) ==
  LET to == handler[h].to IN
  /\ handler[h].op = "journey"
  /\ LeadIsFree(h)
  /\ Enter(to)
  /\ offer' = IF to = "offer" /\ ~handler[h].quoted THEN "open" ELSE offer
  /\ CASE to = "confirmed" -> Reserve(h)
       [] to = "cancelled" -> CancelReservations(h) /\ UNCHANGED folioOf
       [] OTHER -> UNCHANGED <<booking, folioOf>>
  /\ End(h)
  /\ UNCHANGED <<funnel, accommodation, owed, followUp, billed>>

\* The stage that was first entered last, of those that are not the stage now.
Previous == LET others == SelectSeq(visited, LAMBDA s : s # stage) IN Last(others)

StartRollback(h) ==
  /\ stage \in {"qualified", "planning", "offer", "payment_pending", "confirmed"}
  /\ \E s \in ToSet(visited) : s # stage
  /\ ~Booked
  /\ Begin(h, [op |-> "rollback", to |-> Previous])

FinishRollback(h) ==
  /\ handler[h].op = "rollback"
  /\ LeadIsFree(h)
  /\ Enter(handler[h].to)
  /\ End(h)
  /\ UNCHANGED <<funnel, accommodation, sale, rows>>

-----------------------------------------------------------------------------
(* The funnel: PATCH /requests/:id/status and the assistant's /requests/lifecycle *)

InWork == funnel \notin ClosedFunnel

\* Mutant: the operator's word is enough.
WonOnWord(h, to) ==
  /\ LeadIsFree(h)
  /\ stage \notin {"confirmed", "completed", "lost", "cancelled"}
  /\ InWork
  /\ Begin(h, [op |-> "funnel", to |-> to])

\* The row is locked before it is read; "won" needs a confirmed reservation.
StartFunnelByStaff(h, to) ==
  /\ LeadIsFree(h)
  /\ stage \notin {"confirmed", "completed", "lost", "cancelled"}
  /\ InWork
  /\ to = "won" => \E s \in Sources : booking[s] = "confirmed"
  /\ Begin(h, [op |-> "funnel", to |-> to])

\* The assistant's version has no "won" and does not look at the stage.
StartFunnelByAssistant(h, to) ==
  /\ LeadIsFree(h)
  /\ InWork
  /\ to # "won"
  /\ Begin(h, [op |-> "funnel", to |-> to])

\* "won" leaves the follow-up as it is.
FinishFunnel(h) ==
  LET to == handler[h].to IN
  /\ handler[h].op = "funnel"
  /\ funnel' = to
  /\ followUp' = CASE to = "tentative" -> "open"
                   [] to \in {"definite", "lost", "closed"} -> Closed(followUp)
                   [] OTHER -> followUp
  /\ End(h)
  /\ UNCHANGED <<stage, visited, accommodation, owed, offer, rows>>

\* PATCH /follow-ups/:id (complete, skip), and a follow-up that was delivered.
EndFollowUp ==
  /\ Serve
  /\ followUp = "open"
  /\ followUp' = "done"
  /\ UNCHANGED <<lead, owed, offer, rows, handler>>

-----------------------------------------------------------------------------
(* Bookings *)

BookedStage(due) == IF due THEN "payment_pending" ELSE "confirmed"
BookedStatus(due) == IF due THEN "pending_payment" ELSE "confirmed"
BookedFunnel(due) == IF due THEN "definite" ELSE "won"

\* POST /requests/:id/reservation: an existing reservation is the answer.
StartBook(h) ==
  /\ ~Booked
  /\ stage \notin OverStages
  /\ Begin(h, [op |-> "book"])

\* The request's row is written first, so a reservation made meanwhile is seen,
\* and used, whatever its status; a second payment request has the key of the first.
FinishBook(h, due) ==
  /\ handler[h].op = "book"
  /\ LeadIsFree(h)
  /\ due => ~billed
  /\ IF Booked
       THEN UNCHANGED <<booking, folioOf>>
       ELSE /\ booking' = [booking EXCEPT !["desk"] = BookedStatus(due)]
            /\ folioOf' = "desk"
  /\ Enter(BookedStage(due))
  /\ funnel' = BookedFunnel(due)
  /\ accommodation' = TRUE
  /\ owed' = due
  /\ billed' = (billed \/ due)
  /\ followUp' = Closed(followUp)
  /\ End(h)
  /\ UNCHANGED offer

\* The transaction is rolled back, and the answer is the reservation that is there.
LoseBook(h) ==
  /\ handler[h].op = "book"
  /\ billed
  /\ End(h)
  /\ UNCHANGED <<lead, sale, rows>>

\* bookAcceptedOfferByCategory under the lock of the offer: the offer is open, its
\* folio belongs to no other reservation, and the guest has none.
StartAssistantBook(h) ==
  /\ \A g \in Handlers : handler[g].op # "assistant"
  /\ offer = "open"
  /\ folioOf = "none"
  /\ booking["assistant"] = "none"
  /\ \A s \in Sources : booking[s] \notin Live
  /\ Begin(h, [op |-> "assistant"])

\* The follow-up is not closed.
FinishAssistantBook(h, due) ==
  /\ handler[h].op = "assistant"
  /\ LeadIsFree(h)
  /\ owed => due
  /\ booking' = [booking EXCEPT !["assistant"] = BookedStatus(due)]
  /\ folioOf' = "assistant"
  /\ offer' = "accepted"
  /\ Enter(BookedStage(due))
  /\ funnel' = BookedFunnel(due)
  /\ accommodation' = TRUE
  /\ End(h)
  /\ UNCHANGED <<owed, followUp, billed>>

\* receivePaymentRequest, with the payment that covers the deposit.
ReceiveDeposit(s) ==
  /\ Serve
  /\ booking[s] = "pending_payment"
  /\ \A h \in Handlers : handler[h].op # "funnel"
  /\ booking' = [booking EXCEPT ![s] = "confirmed"]
  /\ stage' = "confirmed" /\ visited' = visited
  /\ funnel' = "won"
  /\ owed' = FALSE
  /\ UNCHANGED <<accommodation, offer, followUp, folioOf, billed, handler>>

\* PATCH /reservations/:id and an expired hold: the request is left as it is.
\* A deposit is looked for in the folio that names the reservation.
PatchReservation(s, to) ==
  /\ Serve
  /\ booking[s] \in Live
  /\ booking[s] = "pending_payment" /\ to = "confirmed" /\ folioOf = s => ~owed
  /\ booking' = [booking EXCEPT ![s] = to]
  /\ UNCHANGED <<lead, sale, folioOf, billed, handler>>

-----------------------------------------------------------------------------
(* Offers, and what is asked for *)

StartOffer(h) ==
  Begin(h, [op |-> "offer", moves |-> stage \in {"new", "qualified", "planning"}])

\* POST /leads/:id/offers, with the stage the request had before the transaction.
FinishOffer(h, due) ==
  /\ handler[h].op = "offer"
  /\ offer' = "open"
  /\ owed' = due
  /\ IF handler[h].moves
       THEN LeadIsFree(h) /\ Enter("offer")
       ELSE UNCHANGED <<stage, visited>>
  /\ End(h)
  /\ UNCHANGED <<funnel, accommodation, followUp, rows>>

\* PATCH /offers/:id/status; an accepted offer fixes the deposit.
AnswerOffer(to, due) ==
  /\ Serve
  /\ offer # "none"
  /\ offer' = to
  /\ owed' = IF to = "accepted" THEN due ELSE owed
  /\ UNCHANGED <<lead, followUp, rows, handler>>

\* PATCH /folios/:id and /leads/:id (deposit), POST /leads/:id/payments.
ChangeDeposit ==
  /\ Serve
  /\ owed' = ~owed
  /\ UNCHANGED <<lead, offer, followUp, rows, handler>>

\* PATCH /leads/:id (roomType), POST /leads/:id/items.
AskForRoom ==
  /\ Serve
  /\ ~accommodation
  /\ accommodation' = TRUE
  /\ UNCHANGED <<stage, funnel, visited, sale, rows, handler>>

-----------------------------------------------------------------------------
(* Specification *)

JourneyStep(h) ==
  \/ StartAdvance(h) \/ StartLose(h) \/ StartCancel(h) \/ FinishJourney(h)
  \/ StartRollback(h) \/ FinishRollback(h)

FunnelStep(h) ==
  \/ \E to \in {"enquire", "tentative", "definite", "won", "lost", "closed"} :
       StartFunnelByStaff(h, to) \/ StartFunnelByAssistant(h, to)
  \/ FinishFunnel(h)

BookingStep(h) ==
  \/ StartBook(h) \/ StartAssistantBook(h) \/ LoseBook(h)
  \/ \E due \in BOOLEAN : FinishBook(h, due) \/ FinishAssistantBook(h, due)

OfferStep(h) == StartOffer(h) \/ \E due \in BOOLEAN : FinishOffer(h, due)

Next ==
  \/ \E h \in Handlers : JourneyStep(h) \/ FunnelStep(h) \/ BookingStep(h) \/ OfferStep(h)
  \/ \E s \in Sources : ReceiveDeposit(s) \/ \E to \in Live \cup {"cancelled"} : PatchReservation(s, to)
  \/ \E to \in {"none", "open", "accepted"}, due \in BOOLEAN : AnswerOffer(to, due)
  \/ EndFollowUp \/ ChangeDeposit \/ AskForRoom

Spec == Init /\ [][Next]_vars

-----------------------------------------------------------------------------
(* Properties *)

\* A request in the funnel's "won" has a reservation, whoever wrote "won" and
\* whatever ran beside it.
WonHasReservation == funnel = "won" => Booked

\* The journey's cancellation leaves no reservation that could still be sold to or
\* moved in, not even one that was made after it had read the request.
CancellationLeavesNothing ==
  [][(\E h \in Handlers : handler[h].op = "journey" /\ handler[h].to = "cancelled" /\ handler'[h] = Idle)
       => \A s \in Sources : booking'[s] \notin Live]_vars

\* routes/crm.ts:656: a closed request is not brought back to work through the
\* funnel, by two operators who both saw it open either.
ClosedIsNotWorkedAgain ==
  [][(funnel \in {"lost", "closed"}) => (funnel' \notin {"enquire", "tentative"})]_vars

=============================================================================
