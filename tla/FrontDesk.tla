------------------------------ MODULE FrontDesk ------------------------------
(***************************************************************************)
(* The front desk at work: the locked handlers of RoomDesk, the handlers   *)
(* that decide from unlocked reads, and the sales stage of the request     *)
(* (lead) behind each reservation, all at once.                            *)
(*                                                                         *)
(* At READ COMMITTED any other request may commit between two statements   *)
(* of an unlocked handler.  handler[h] holds what an unfinished one has    *)
(* seen.  Each of its statements is a step up to the last read; the writes *)
(* that follow it commit together.  A handler can also end without them,   *)
(* by a refusal, a rollback, a deadlock abort or a crash.                  *)
(*                                                                         *)
(* Stages before the first booking are "none", "over" is completed or lost *)
(* (no guard tells them apart).  The operators may force an advance, so no *)
(* checklist is a guard.                                                   *)
(*                                                                         *)
(* fate and raced are history: no guard reads them.  They say which        *)
(* reservations and cards the unlocked handlers have harmed, so that the   *)
(* properties can say that nobody else is.                                 *)
(***************************************************************************)
EXTENDS RoomDesk

CONSTANTS
  Handlers,  \* bound: unlocked handlers in flight at the same time
  Jobs       \* bound: the kinds of unlocked handlers that run

AllJobs == {"pay", "further", "inspect", "mark", "block", "close",
            "advance", "lose", "cancel"}

ASSUME KindsOfJobs == Jobs \subseteq AllJobs

VARIABLES
  handler,  \* the unlocked handlers in flight
  stage,    \* leads.stage of the request that reservation r belongs to
  fate,     \* history: what became of reservation r outside the desk's locks
  raced     \* history: cabins entered while a handler that had looked at them ran

deskVars == <<vars, handler, stage, fate, raced>>

Idle == [job |-> "idle"]
Stages == {"none", "payment_pending", "confirmed", "cancelled", "over"}
\* "expired": by the hold job.  "dropped": cancelled with its request, cabin and
\* guest left as they were.  "overtaken": written from a read that was stale by then.
Fates == {"regular", "expired", "dropped", "overtaken"}

Sound(r) == fate[r] # "overtaken"
Regular(r) == fate[r] \in {"regular", "expired"}
Live(r) == Open(r) \/ InHouse(r)

DeskInit ==
  /\ Init
  /\ handler = [h \in Handlers |-> Idle]
  /\ stage = [r \in Reservations |-> "none"]
  /\ fate = [r \in Reservations |-> "regular"]
  /\ raced = {}

Begin(h, seen) ==
  /\ handler[h] = Idle
  /\ seen.job \in Jobs
  /\ handler' = [handler EXCEPT ![h] = seen]

Finish(h) == handler' = [handler EXCEPT ![h] = Idle]

\* Row locks the unfinished transactions hold until they end.
Paying(r) == \E h \in Handlers : handler[h].job = "pay" /\ handler[h].res = r
LeadLocked(r) == \E h \in Handlers :
  handler[h].job = "further" /\ handler[h].res = r /\ handler[h].found
TaskLocked(t) == \E h \in Handlers : handler[h].job = "inspect" /\ handler[h].task = t
TicketLocked(k) == \E h \in Handlers : handler[h].job = "close" /\ handler[h].ticket = k

CardJobs == {"inspect", "mark", "block", "close"}
CardUnderWay(rm) == \E h \in Handlers : handler[h].job \in CardJobs /\ handler[h].room = rm

\* A cabin is raced from the entry of a guest whom a card handler in flight may
\* have missed until he leaves.
RememberRaces == raced' = {rm \in Rooms :
  /\ OccupiedBySomeone(rm)'
  /\ rm \in raced \/ (~OccupiedBySomeone(rm) /\ CardUnderWay(rm))}

-----------------------------------------------------------------------------
(* receivePaymentRequest: the payment request's row is locked, not the      *)
(* reservation's, so one receipt of a reservation runs at a time.           *)

StartPayment(h, r) ==
  /\ ~Paying(r)
  /\ Payable(r)
  /\ Begin(h, [job |-> "pay", res |-> r, status |-> res[r].status])
  /\ UNCHANGED <<vars, stage, fate>>

\* A confirmation wins the request, whatever either of them is by then.
CommitPayment(h) ==
  LET r == handler[h].res
      Confirms == folio'[r] >= Deposited /\ handler[h].status = "pending_payment" IN
  /\ handler[h].job = "pay"
  /\ ~LeadLocked(r)
  /\ \E level \in Credited(r) : RecordPayment(r, handler[h].status, level)
  /\ stage' = IF Confirms THEN [stage EXCEPT ![r] = "confirmed"] ELSE stage
  /\ fate' = IF Confirms /\ res[r].status # "pending_payment"
               THEN [fate EXCEPT ![r] = "overtaken"] ELSE fate
  /\ Finish(h)

\* Mutant: the expiry job runs inside a receipt.
ExpireAnyHold(r) ==
  /\ ExpireHold(r)
  /\ fate' = IF Sound(r) THEN [fate EXCEPT ![r] = "expired"] ELSE fate
  /\ UNCHANGED <<handler, stage>>

\* The expiry transaction must update the payment request that a payment holds
\* locked, while the payment must reference the reservation that the expiry holds:
\* one of the two is aborted, so the expiry never commits inside a payment.
ExpireUnpaid(r) ==
  /\ ~Paying(r)
  /\ ExpireHold(r)
  /\ fate' = IF Sound(r) THEN [fate EXCEPT ![r] = "expired"] ELSE fate
  /\ UNCHANGED <<handler, stage>>

-----------------------------------------------------------------------------
(* POST /requests/:id/reservation, overtaken by another booking of the      *)
(* request: it has looked in vain for a reservation before it waited for    *)
(* the lead's row, finds one afterwards and gives that one a cabin.         *)

StartFurtherBooking(h, r) ==
  /\ res[r].status = "absent"
  /\ Begin(h, [job |-> "further", res |-> r, found |-> FALSE, arr |-> 0, dep |-> 0])
  /\ UNCHANGED <<vars, stage, fate>>

FindReservation(h) ==
  LET r == handler[h].res IN
  /\ handler[h].job = "further" /\ ~handler[h].found
  /\ ~LeadLocked(r)
  /\ res[r].status # "absent"
  /\ handler' = [handler EXCEPT ![h] = [job |-> "further", res |-> r, found |-> TRUE,
       arr |-> res[r].arr, dep |-> res[r].dep]]
  /\ UNCHANGED <<vars, stage, fate>>

\* The deposit's unique key admits a second payment request only if there is none.
AssignFurther(h, rm) ==
  LET r == handler[h].res IN
  /\ handler[h].job = "further" /\ handler[h].found
  /\ Sellable(rm, handler[h].arr, handler[h].dep, r)
  /\ unit' = [unit EXCEPT ![r][rm] =
       [status |-> "assigned", arr |-> handler[h].arr, dep |-> handler[h].dep]]
  /\ stay' = [stay EXCEPT ![r].room = rm]
  /\ \E level \in IF r \in Billed THEN FolioLevels(r) ELSE {folio[r]},
        to \in IF r \in Billed THEN {"payment_pending", "confirmed"} ELSE {"confirmed"} :
       folio' = [folio EXCEPT ![r] = level] /\ stage' = [stage EXCEPT ![r] = to]
  /\ fate' = [fate EXCEPT ![r] = "overtaken"]
  /\ UNCHANGED <<now, res, room, upkeep, service>>
  /\ Finish(h)

-----------------------------------------------------------------------------
(* Housekeeping, repair and the cards.  A handler looks for a ticket and    *)
(* for a guest in two statements and writes the card afterwards.            *)

StartInspection(h, t) ==
  /\ ~TaskLocked(t)
  /\ task[t].status = "completed"
  /\ Begin(h, [job |-> "inspect", task |-> t, room |-> task[t].room,
       looked |-> FALSE, free |-> ~Blocked(task[t].room)])
  /\ UNCHANGED <<vars, stage, fate>>

\* Mutant: a cabin without a blocking ticket is taken to be empty.
InspectionTrustsTickets(h) ==
  /\ handler[h].job = "inspect" /\ ~handler[h].looked
  /\ handler' = [handler EXCEPT ![h].looked = TRUE]
  /\ UNCHANGED <<vars, stage, fate>>

InspectionLooksForGuest(h) ==
  /\ handler[h].job = "inspect" /\ ~handler[h].looked
  /\ handler' = [handler EXCEPT ![h].looked = TRUE,
       ![h].free = handler[h].free /\ ~OccupiedBySomeone(handler[h].room)]
  /\ UNCHANGED <<vars, stage, fate>>

CommitInspection(h) ==
  /\ handler[h].job = "inspect" /\ handler[h].looked
  /\ RecordInspection(handler[h].task, handler[h].room, handler[h].free)
  /\ Finish(h)
  /\ UNCHANGED <<stage, fate>>

\* PATCH /rooms/:id/status: the guest first, then the ticket.
StartRoomStatus(h, rm, status) ==
  /\ ~OccupiedBySomeone(rm)
  /\ Begin(h, [job |-> "mark", room |-> rm, status |-> status, looked |-> FALSE])
  /\ UNCHANGED <<vars, stage, fate>>

RoomStatusLooksForTicket(h) ==
  /\ handler[h].job = "mark" /\ ~handler[h].looked
  /\ ~Blocked(handler[h].room)
  /\ handler' = [handler EXCEPT ![h].looked = TRUE]
  /\ UNCHANGED <<vars, stage, fate>>

CommitRoomStatus(h) ==
  /\ handler[h].job = "mark" /\ handler[h].looked
  /\ RecordRoomStatus(handler[h].room, handler[h].status)
  /\ Finish(h)
  /\ UNCHANGED <<stage, fate>>

\* POST /maintenance runs no transaction: the ticket is visible before the card
\* is written, and stays without it if the process stops there.
OpenTicket(k, rm) ==
  /\ RecordTicket(k, rm, FALSE)
  /\ UNCHANGED <<handler, stage, fate>>

OpenBlockingTicket(h, k, rm) ==
  /\ RecordTicket(k, rm, TRUE)
  /\ Begin(h, [job |-> "block", room |-> rm])
  /\ UNCHANGED <<stage, fate>>

BlockRoom(h) ==
  /\ handler[h].job = "block"
  /\ RecordRoomStatus(handler[h].room, "out")
  /\ Finish(h)
  /\ UNCHANGED <<stage, fate>>

\* PATCH /maintenance/:id to verified or cancelled: its ticket is updated first.
StartClosure(h, k) ==
  /\ ~TicketLocked(k)
  /\ ticket[k] # NoTicket
  /\ Begin(h, [job |-> "close", ticket |-> k, room |-> ticket[k].room,
       looked |-> FALSE, blocker |-> OtherBlocker(k), guest |-> FALSE])
  /\ UNCHANGED <<vars, stage, fate>>

ClosureLooksForGuest(h) ==
  /\ handler[h].job = "close" /\ ~handler[h].looked
  /\ handler' = [handler EXCEPT ![h].looked = TRUE,
       ![h].guest = OccupiedBySomeone(handler[h].room)]
  /\ UNCHANGED <<vars, stage, fate>>

CommitClosure(h) ==
  /\ handler[h].job = "close" /\ handler[h].looked
  /\ RecordClosure(handler[h].ticket, handler[h].room, handler[h].blocker, handler[h].guest)
  /\ Finish(h)
  /\ UNCHANGED <<stage, fate>>

-----------------------------------------------------------------------------
(* The journey: advanceLead and transitionLead load their whole context     *)
(* before the transaction of applyStageTransition.                          *)

JourneyTarget(job, from) ==
  CASE job = "advance" -> IF from = "payment_pending" THEN "confirmed" ELSE "over"
    [] job = "lose" -> "over"
    [] job = "cancel" -> "cancelled"

StartJourney(h, r, job) ==
  /\ \/ job = "advance" /\ stage[r] \in {"payment_pending", "confirmed"}
     \/ job = "lose" /\ stage[r] \in {"payment_pending", "confirmed", "cancelled"}
     \/ job = "cancel" /\ stage[r] = "confirmed"
  /\ Begin(h, [job |-> job, res |-> r, to |-> JourneyTarget(job, stage[r])])
  /\ UNCHANGED <<vars, stage, fate>>

\* The reservation exists, so that a confirmation finds it and leaves it alone.
CommitJourney(h) ==
  LET r == handler[h].res IN
  /\ handler[h].job \in {"advance", "lose"}
  /\ ~LeadLocked(r)
  /\ stage' = [stage EXCEPT ![r] = handler[h].to]
  /\ Finish(h)
  /\ UNCHANGED <<vars, fate>>

\* Mutant: only a confirmed reservation is cancelled with its request.
CancelConfirmed(h) ==
  LET r == handler[h].res IN
  /\ handler[h].job = "cancel"
  /\ ~LeadLocked(r)
  /\ stage' = [stage EXCEPT ![r] = "cancelled"]
  /\ res' = [res EXCEPT ![r].status = IF res[r].status = "confirmed" THEN "cancelled" ELSE res[r].status]
  /\ stay' = [stay EXCEPT ![r].op = IF stay[r].op = "upcoming" THEN "cancelled" ELSE stay[r].op]
  /\ fate' = [fate EXCEPT ![r] = IF fate[r] = "regular" THEN "dropped" ELSE fate[r]]
  /\ UNCHANGED <<now, unit, room, upkeep, money>>
  /\ Finish(h)

\* The reservation whatever its status, the stay if it is upcoming, the cabin never.
CommitCancellation(h) ==
  LET r == handler[h].res IN
  /\ handler[h].job = "cancel"
  /\ ~LeadLocked(r)
  /\ stage' = [stage EXCEPT ![r] = "cancelled"]
  /\ res' = [res EXCEPT ![r].status = "cancelled"]
  /\ stay' = [stay EXCEPT ![r].op = IF stay[r].op = "upcoming" THEN "cancelled" ELSE stay[r].op]
  /\ fate' = [fate EXCEPT ![r] = IF fate[r] = "regular" /\ Open(r) THEN "dropped" ELSE fate[r]]
  /\ UNCHANGED <<now, unit, room, upkeep, money>>
  /\ Finish(h)

-----------------------------------------------------------------------------
(* The specification *)

Abort(h) ==
  /\ handler[h] # Idle
  /\ Finish(h)
  /\ UNCHANGED <<vars, stage, fate>>

HandlerStart(h) ==
  \/ \E r \in Reservations :
       \/ StartPayment(h, r)
       \/ StartFurtherBooking(h, r)
       \/ \E job \in {"advance", "lose", "cancel"} : StartJourney(h, r, job)
  \/ \E t \in Tasks : StartInspection(h, t)
  \/ \E rm \in Rooms, status \in {"ready", "dirty", "out"} : StartRoomStatus(h, rm, status)
  \/ \E k \in Tickets, rm \in Rooms : OpenBlockingTicket(h, k, rm)
  \/ \E k \in Tickets : StartClosure(h, k)

HandlerLook(h) ==
  \/ FindReservation(h)
  \/ InspectionLooksForGuest(h)
  \/ RoomStatusLooksForTicket(h)
  \/ ClosureLooksForGuest(h)

HandlerEnd(h) ==
  \/ CommitPayment(h)
  \/ \E rm \in Rooms : AssignFurther(h, rm)
  \/ CommitInspection(h)
  \/ CommitRoomStatus(h)
  \/ BlockRoom(h)
  \/ CommitClosure(h)
  \/ CommitJourney(h)
  \/ CommitCancellation(h)
  \/ Abort(h)

\* A new reservation moves its request to the stage it asks for.
BookingMovesStage(r) ==
  /\ BookingStep(r)
  /\ stage' = [stage EXCEPT ![r] =
       IF res[r].status # "absent" THEN stage[r]
       ELSE IF res'[r].status = "pending_payment" THEN "payment_pending" ELSE "confirmed"]

\* The requests that hold their locks throughout, and the clock.
LockedStep ==
  /\ \/ \E r \in Reservations : BookingMovesStage(r)
     \/ /\ \/ \E r \in Reservations : ResidenceStep(r) \/ AccountStep(r)
           \/ \E rm \in Rooms : CreateCleaning(rm)
           \/ \E t \in Tasks : ~TaskLocked(t) /\ CleaningStep(t)
           \/ \E k \in Tickets : ~TicketLocked(k) /\ ReopenTicket(k)
           \/ Tick
        /\ UNCHANGED stage
  /\ UNCHANGED <<handler, fate>>

DeskStep ==
  \/ LockedStep
  \/ \E r \in Reservations : ExpireUnpaid(r)
  \/ \E k \in Tickets, rm \in Rooms : OpenTicket(k, rm)
  \/ \E h \in Handlers : HandlerStart(h) \/ HandlerLook(h) \/ HandlerEnd(h)

Next == DeskStep /\ RememberRaces

Spec == DeskInit /\ [][Next]_deskVars

\* The expiry job is called by a schedule, time does not stop, and a transaction
\* ends: the connection's fate decides it when nothing else does.
FairSpec ==
  /\ Spec
  /\ WF_deskVars(Tick /\ UNCHANGED <<handler, stage, fate>> /\ RememberRaces)
  /\ \A r \in Reservations : WF_deskVars(ExpireUnpaid(r) /\ RememberRaces)
  /\ \A h \in Handlers : WF_deskVars(HandlerEnd(h) /\ RememberRaces)

-----------------------------------------------------------------------------
(* Properties *)

\* What a handler in flight may have in hand.
HandlerRow ==
  {Idle}
  \cup [job : {"pay"}, res : Reservations, status : OpenStatuses \cup ClosedStatuses]
  \cup [job : {"further"}, res : Reservations, found : BOOLEAN, arr : Times, dep : Times]
  \cup [job : {"inspect"}, task : Tasks, room : Rooms \cup {NoRoom}, looked : BOOLEAN, free : BOOLEAN]
  \cup [job : {"mark"}, room : Rooms, status : {"ready", "dirty", "out"}, looked : BOOLEAN]
  \cup [job : {"block"}, room : Rooms]
  \cup [job : {"close"}, ticket : Tickets, room : Rooms \cup {NoRoom}, looked : BOOLEAN,
        blocker : BOOLEAN, guest : BOOLEAN]
  \cup [job : {"advance", "lose"}, res : Reservations, to : {"confirmed", "over"}]
  \cup [job : {"cancel"}, res : Reservations, to : {"cancelled"}]

\* Every variable keeps the shape of its table: the columns the desk reads and
\* the values their enums allow.
TypeOK ==
  /\ TablesOK
  /\ handler \in [Handlers -> HandlerRow]
  /\ stage \in [Reservations -> Stages]
  /\ fate \in [Reservations -> Fates]
  /\ raced \subseteq Rooms

\* No cabin is promised to two parties for the same night, whatever mix of
\* bookings, date changes, moves, extensions, departures and cancellations of whole
\* requests got there, and a guest whose request was cancelled while he is in house
\* counts: what assertRoomAvailable under the room lock is for.  Only a reservation
\* that was written from a stale read is outside its reach (see SoldOnce).
NoDoubleBooking == \A q, r \in Reservations, rm \in Rooms :
  q # r /\ Sound(q) /\ Sound(r) /\ Live(q) /\ Live(r) /\ rm \in Holding(q) \cap Holding(r)
    => ~Overlap(unit[q][rm].arr, unit[q][rm].dep, unit[r][rm].arr, unit[r][rm].dep)


\* Two guests never live in one cabin, whatever late receipts, further bookings and
\* cancelled requests have done to the rows, although check-in may be a day early
\* and departures late, when the assignments' dates say nothing about who is inside.
OneOccupant == \A q, r \in Reservations :
  q # r /\ InHouse(q) /\ InHouse(r) => stay[q].room # stay[r].room

\* A guest in house whom no stale read has met has one assignment, the active one of
\* the cabin he lives in, and a confirmed reservation unless his request was
\* cancelled under him: then extend, move and check-out refuse him, and the row
\* still keeps others out.
OccupantHoldsUnit == \A r \in Reservations : InHouse(r) /\ Sound(r) =>
  /\ Holding(r) = {stay[r].room}
  /\ unit[r][stay[r].room].status = "active"
  /\ res[r].status = IF fate[r] = "dropped" THEN "cancelled" ELSE "confirmed"

\* A reservation closed by the desk or by the expiry job has given back its cabins
\* and nobody lives on it: the overlap query skips closed reservations, so a row
\* left behind would be sold twice if it came back.  The two enders that leave rows
\* behind are named by fate.
ClosedHoldsNothing == \A r \in Reservations :
  Regular(r) /\ ~Open(r) => Holding(r) = {} /\ ~InHouse(r)

\* occupied_by_guest_id, which check-in, move and check-out maintain, names exactly
\* the guest whose stay is in house in the cabin, also beside guests whom a late
\* receipt or a further booking has put elsewhere on paper.
RoomCardNamesOccupant == \A rm \in Rooms, r \in Reservations : Sound(r) =>
  (room[rm].guest = r <=> InHouse(r) /\ stay[r].room = rm)

\* A cabin somebody lives in is shown as ready or dirty only by a handler that was
\* under way when he moved in: inspection, repair desk and manual status look for a
\* guest, and what they write is wrong only if he came after they looked.
OccupiedIsNotVacant == \A r \in Reservations :
  InHouse(r) /\ Sound(r) /\ stay[r].room \notin raced
    => room[stay[r].room].status \in {"occupied", "out"}

\* The dates copied into an assignment follow the reservation's through every
\* PATCH, extension, time change, move and cancelled request: availability is
\* computed from the copy, check-in and extension from the original.
UnitFollowsReservation == \A r \in Reservations : Sound(r) => \A rm \in Holding(r) :
  /\ unit[r][rm].arr < unit[r][rm].dep
  /\ unit[r][rm].dep = res[r].dep
  /\ unit[r][rm].status = "assigned" => unit[r][rm].arr = res[r].arr /\ ~InHouse(r)

\* Dates stay in order while a reservation can still be changed, a cabin is
\* "active" only for a guest in house, and he has it since the booked arrival or
\* since a move in the past: what an early check-in, a move before the booked
\* arrival and an earlier departure together could turn round.
DatesInOrder == \A r \in Reservations : Sound(r) =>
  /\ Open(r) => res[r].arr < res[r].dep
  /\ \A rm \in Rooms : unit[r][rm].status = "active" =>
       InHouse(r) /\ (unit[r][rm].arr <= now \/ unit[r][rm].arr = res[r].arr)

\* Nobody is checked out with a service still to be delivered: bookService and
\* checkOutStay meet at the reservation row.
CheckedOutOwesNoService == \A r \in Reservations :
  stay[r].op = "checked_out" => ~service[r]

\* A request and its reservation agree about the cancellation: a cancelled request
\* never has a reservation that can be sold to, moved in or paid.  A receipt that
\* read before the cancellation does open the reservation again, but then it wins
\* the request again with it, and so does a further booking.
CancelledRequestIsOver == \A r \in Reservations :
  stage[r] = "cancelled" => ~Open(r)

\* A closed reservation is opened again by nothing but a receipt that saw it unpaid
\* before, and its ending is rewritten only by the cancellation of its request.
ClosedForever == [][\A r \in Reservations :
  res[r].status \in ClosedStatuses /\ res'[r].status # res[r].status =>
    \/ \E h \in Handlers : handler[h].job = "pay" /\ handler[h].res = r
         /\ handler[h].status = "pending_payment" /\ fate'[r] = "overtaken"
    \/ res'[r].status = "cancelled" /\ stage'[r] = "cancelled"]_deskVars

\* A hold that the job has cancelled is not revived by a receipt that was on its
\* way: of the two transactions, which wait for each other's row, one is aborted.
ExpiredHoldIsFinal == [][\A r \in Reservations : fate[r] = "expired" => ~Open(r)']_deskVars

\* A guest leaves the house only through check-out and with the folio settled: not
\* by cancellation, no-show, expiry or the journey.  The exception is a receipt that
\* saw his booking unpaid: it sets him back to upcoming.
LeavesBySettledCheckOut == [][\A r \in Reservations : InHouse(r) /\ ~InHouse(r)' =>
  \/ stay'[r].op = "checked_out" /\ res'[r].status = "completed" /\ folio[r] = Settled
  \/ \E h \in Handlers : handler[h].job = "pay" /\ handler[h].res = r
       /\ handler[h].status = "pending_payment" /\ fate'[r] = "overtaken"]_deskVars

\* The inductive invariant: none of these parts is preserved without the others.
CouldMiss(h) ==
  \/ handler[h].job = "inspect" /\ handler[h].looked /\ handler[h].free
  \/ handler[h].job = "mark"
  \/ handler[h].job = "close" /\ handler[h].looked /\ ~handler[h].guest

MissedAreRaced == \A h \in Handlers : \A r \in Reservations :
  CouldMiss(h) /\ InHouse(r) /\ Sound(r) /\ stay[r].room = handler[h].room
    => stay[r].room \in raced

NotBookedIsRegular == \A r \in Reservations : res[r].status = "absent" =>
  /\ stage[r] = "none" /\ fate[r] = "regular" /\ stay[r].op = "none"

ExpiredIsClosed == \A r \in Reservations : fate[r] = "expired" =>
  ~Open(r) /\ ~\E h \in Handlers :
     handler[h].job = "pay" /\ handler[h].res = r /\ handler[h].status = "pending_payment"

DroppedIsCancelled == \A r \in Reservations : fate[r] = "dropped" => res[r].status = "cancelled"

OccupantIsBooked == \A r \in Reservations :
  InHouse(r) => res[r].status \in {"confirmed", "cancelled"}

HandlersOnRecord == \A h \in Handlers :
  \/ handler[h].job \in {"pay", "advance", "lose", "cancel"}
  \/ handler[h].job = "further" /\ handler[h].found
  => res[handler[h].res].status # "absent"

DeskInv ==
  /\ TypeOK
  /\ NoDoubleBooking
  /\ OneOccupant
  /\ OccupantHoldsUnit
  /\ ClosedHoldsNothing
  /\ RoomCardNamesOccupant
  /\ UnitFollowsReservation
  /\ DatesInOrder
  /\ OccupiedIsNotVacant
  /\ MissedAreRaced
  /\ NotBookedIsRegular
  /\ ExpiredIsClosed
  /\ DroppedIsCancelled
  /\ OccupantIsBooked
  /\ HandlersOnRecord

\* What the calendar shows of the desk: the assignments of the parties that no stale
\* read has met, as long as their reservation is open or they are in house, and the
\* keys of those parties as the cards have them.
SlotBoard == [r \in Reservations |-> [rm \in Rooms |->
  IF Sound(r) /\ Live(r) /\ unit[r][rm].status # "free"
    THEN <<unit[r][rm].arr, unit[r][rm].dep>> ELSE <<>>]]

KeyBoard == [rm \in Rooms |->
  IF \E r \in Reservations : room[rm].guest = r /\ Sound(r) THEN room[rm].guest ELSE Nobody]

Calendar == INSTANCE RoomCalendar WITH
  Parties <- Reservations, slot <- SlotBoard, key <- KeyBoard

\* The desk implements the calendar it promises: an assignment of a party at the
\* desk is its slot, the guest named on a cabin's card has its key, and every request
\* moves one party's things only.  A stale write takes its own party off the
\* calendar, and nobody else's things change by it.
KeepsCalendar == Calendar!Spec

\* An unpaid hold ends when its day is over: the reservation leaves
\* pending_payment, paid, changed by the desk or cancelled by the expiry job,
\* although receipts may hold the payment request's row again and again.
HoldEnds == \A r \in Reservations :
  (res[r].status = "pending_payment" /\ res[r].hold # NoHold)
    ~> res[r].status # "pending_payment"

=============================================================================
