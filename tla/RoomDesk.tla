------------------------------ MODULE RoomDesk ------------------------------
(***************************************************************************)
(* The front desk of one property: the reservations, the cabins assigned   *)
(* to them, the stays, the cabin cards, and the housekeeping and repair    *)
(* work that decides whether a cabin can be sold or entered.               *)
(*                                                                         *)
(* This module has the tables and what the handlers do to them.  A handler *)
(* that takes the reservation row and then the room row FOR UPDATE before  *)
(* it reads is one action, with everything it writes before it commits.    *)
(* Of the handlers that decide from unlocked reads (payment receipt,       *)
(* inspection, manual room status, maintenance, the journey of a request)  *)
(* it has only what they look at and what they write: FrontDesk puts the   *)
(* two apart and everything together.                                      *)
(*                                                                         *)
(* Abstractions.  One sellable category; a reservation and its only stay   *)
(* share an identifier.  Times are ticks, TicksPerDay of them in a day.    *)
(* "pending" is also "tentative", "upcoming" also "pre_arrival"/"due_in",  *)
(* "in_house" also "due_out" (only the PMS mirror writes the latter).      *)
(* Cabin status: "ready" is vacant_clean or inspected, "dirty" is          *)
(* vacant_dirty, "out" is out_of_order or out_of_service.  A released or   *)
(* absent assignment row is "free".  A folio is a level: what is paid      *)
(* covers nothing, the deposit, or the whole total.                        *)
(***************************************************************************)
EXTENDS Integers, FiniteSets

CONSTANTS
  Reservations,  \* identifiers of the reservations that may be created
  Rooms,         \* the cabins, by number: first fit takes the lowest
  Tasks,         \* bound: housekeeping tasks unfinished at the same time
  Tickets,       \* bound: maintenance tickets
  Horizon,       \* bound: last tick of the clock and of any requested date
  TicksPerDay,   \* ticks in a day: holds and early check-in span one day
  Periods,       \* <<arrival, departure>> pairs that requests ask for
  Billed,        \* the reservations with something to pay
  Prepaid,       \* those of them that require a deposit
  NoRoom, Nobody

Times == 0 .. Horizon

ASSUME RoomNumbers == Rooms \subseteq Nat /\ NoRoom \notin Rooms
ASSUME Clock == Horizon \in Nat /\ TicksPerDay \in Nat \ {0}
ASSUME RequestedPeriods == Periods \subseteq Times \X Times
ASSUME Guests == Prepaid \subseteq Billed /\ Billed \subseteq Reservations /\ Nobody \notin Reservations

VARIABLES
  now,      \* the clock
  res,      \* reservations: status, arrival, departure, hold expiry
  unit,     \* reservation_units: unit[r][rm] is r's assignment of cabin rm
  stay,     \* guest_stays: operational status, cabin, nights
  room,     \* rooms: status and occupied_by_guest_id
  task,     \* housekeeping_tasks
  ticket,   \* maintenance_tickets
  folio,    \* folios: how much of the reservation is paid
  service   \* service[r]: a service of r's stay is still scheduled

vars == <<now, res, unit, stay, room, task, ticket, folio, service>>
upkeep == <<task, ticket>>
money == <<folio, service>>

-----------------------------------------------------------------------------
(* State *)

OpenStatuses == {"pending", "pending_payment", "confirmed"}
ClosedStatuses == {"cancelled", "no_show", "completed"}
Due == 0
Deposited == 1
Settled == 2
Levels == Due .. Settled

NoHold == -1

\* The tables' columns that the desk reads, and their enums.
ReservationRow == [status : {"absent"} \cup OpenStatuses \cup ClosedStatuses,
                   arr : Times, dep : Times, hold : Times \cup {NoHold}]
UnitRow == [status : {"free", "assigned", "active"}, arr : Times, dep : Times]
StayRow == [op : {"none", "upcoming", "in_house", "checked_out", "cancelled", "no_show"},
            room : Rooms \cup {NoRoom}, nights : Nat]
RoomRow == [status : {"ready", "dirty", "occupied", "out"}, guest : Reservations \cup {Nobody}]
TaskRow == [room : Rooms \cup {NoRoom}, status : {"none", "open", "completed"}]
TicketRow == [room : Rooms \cup {NoRoom}, blocks : BOOLEAN, status : {"none", "active", "closed"}]

TablesOK ==
  /\ now \in Times
  /\ res \in [Reservations -> ReservationRow]
  /\ unit \in [Reservations -> [Rooms -> UnitRow]]
  /\ stay \in [Reservations -> StayRow]
  /\ room \in [Rooms -> RoomRow]
  /\ task \in [Tasks -> TaskRow]
  /\ ticket \in [Tickets -> TicketRow]
  /\ folio \in [Reservations -> Levels]
  /\ service \in [Reservations -> BOOLEAN]

Freed == [status |-> "free", arr |-> 0, dep |-> 0]
NoTask == [room |-> NoRoom, status |-> "none"]
NoTicket == [room |-> NoRoom, blocks |-> FALSE, status |-> "none"]

Init ==
  /\ now = 0
  /\ res = [r \in Reservations |-> [status |-> "absent", arr |-> 0, dep |-> 0, hold |-> NoHold]]
  /\ unit = [r \in Reservations |-> [rm \in Rooms |-> Freed]]
  /\ stay = [r \in Reservations |-> [op |-> "none", room |-> NoRoom, nights |-> 0]]
  /\ room = [rm \in Rooms |-> [status |-> "ready", guest |-> Nobody]]
  /\ task = [t \in Tasks |-> NoTask]
  /\ ticket = [k \in Tickets |-> NoTicket]
  /\ folio = [r \in Reservations |-> Settled]
  /\ service = [r \in Reservations |-> FALSE]

-----------------------------------------------------------------------------
(* What the handlers read *)

Open(r) == res[r].status \in OpenStatuses
InHouse(r) == stay[r].op = "in_house"
Holding(r) == {rm \in Rooms : unit[r][rm].status # "free"}

\* Mutant: only a new arrival inside the other period counts.
ArrivesDuring(a1, d1, a2, d2) == a1 <= a2 /\ a2 < d1

\* Half-open intervals: a departure and an arrival may share an instant.
Overlap(a1, d1, a2, d2) == a1 < d2 /\ a2 < d1

OccupiedBySomeone(rm) == \E r \in Reservations : InHouse(r) /\ stay[r].room = rm

Blocked(rm) == \E k \in Tickets :
  ticket[k].room = rm /\ ticket[k].blocks /\ ticket[k].status = "active"

\* Mutant: a guest whose departure has passed counts as gone.
LivedInOnSchedule(rm, r) == \E q \in Reservations \ {r} :
  InHouse(q) /\ stay[q].room = rm /\ now < res[q].dep

\* A guest inside blocks the cabin until he checks out, whatever his dates say.
LivedInByOther(rm, r) == \E q \in Reservations \ {r} : InHouse(q) /\ stay[q].room = rm

\* assertRoomAvailable with allowUnreadyRoom, on behalf of reservation r.
RoomAvailable(rm, a, d, r) ==
  /\ a < d
  /\ room[rm].status # "out"
  /\ \A q \in Reservations \ {r} :
       Open(q) /\ unit[q][rm].status # "free"
         => ~Overlap(unit[q][rm].arr, unit[q][rm].dep, a, d)
  /\ ~LivedInByOther(rm, r)
  /\ ~Blocked(rm)

RoomReady(rm) ==
  /\ room[rm].status = "ready"
  /\ \A t \in Tasks : task[t].room # rm

\* assertRoomAvailable as the booking handlers call it.
Sellable(rm, a, d, r) == RoomAvailable(rm, a, d, r) /\ RoomReady(rm)

Day(t) == t \div TicksPerDay

\* Nights of a booking: started 24-hour periods.
CeilNights(a, d) ==
  IF d - a <= TicksPerDay THEN 1 ELSE (d - a + TicksPerDay - 1) \div TicksPerDay

\* Nights of an extension: midnights between the property dates.
NightCount(a, d) == IF Day(d) - Day(a) < 1 THEN 1 ELSE Day(d) - Day(a)

\* Mutant: every charge costs the folio a level.
ChargedAgain(r) == {folio[r] - 1, folio[r]}

\* A charge can leave a fully paid folio short; a credit only helps.
Charged(r) == IF r \in Billed /\ folio[r] = Settled THEN {Deposited, Settled} ELSE {folio[r]}
\* Levels a folio can have: nothing is below a deposit of zero.
FolioLevels(r) == IF r \in Prepaid THEN Levels ELSE {Deposited, Settled}

Credited(r) == {l \in Levels : l >= folio[r]}

\* Mutant: only the guest who has left is looked for.
GoneAlready(r) == stay[r].op = "checked_out"

\* From the arrival on, dates and status belong to check-in and check-out.
Arrived(r) == stay[r].op \in {"in_house", "checked_out"}

\* Mutant: only check-out is final.
PatchableUnlessCompleted(r, status) == res[r].status \notin {"absent", "completed"}

\* PATCH takes any status for an open booking, and the same for a closed one.
Patchable(r, status) == Open(r) \/ res[r].status = status

\* Mutant: the row of a guest in house is overlooked.
ReleaseAssigned(r) == [unit EXCEPT ![r] = [rm \in Rooms |->
  IF unit[r][rm].status = "active" THEN unit[r][rm] ELSE Freed]]

\* The assignments of r after it gives them all up.
Release(r) == [unit EXCEPT ![r] = [rm \in Rooms |-> Freed]]

\* The assignments of r after it has been given cabin rm, and only that.
AssignOnly(r, rm, a, d) == [unit EXCEPT ![r] = [q \in Rooms |->
  IF q = rm THEN [status |-> "assigned", arr |-> a, dep |-> d] ELSE Freed]]

-----------------------------------------------------------------------------
(* Booking *)

\* The rows one booking inserts; paymentDue makes it a one-day payment hold.
Book(r, a, d, paymentDue, rm) ==
  /\ res[r].status = "absent"
  /\ paymentDue => r \in Prepaid /\ now + TicksPerDay < Horizon
  /\ res' = [res EXCEPT ![r] =
       [status |-> IF paymentDue THEN "pending_payment" ELSE "confirmed",
        arr |-> a, dep |-> d,
        hold |-> IF paymentDue THEN now + TicksPerDay ELSE NoHold]]
  /\ unit' = AssignOnly(r, rm, a, d)
  /\ stay' = [stay EXCEPT ![r] =
       [op |-> "upcoming", room |-> rm, nights |-> CeilNights(a, d)]]
  /\ folio' = [folio EXCEPT ![r] =
       IF r \notin Billed THEN Settled ELSE IF paymentDue THEN Due ELSE Deposited]
  /\ UNCHANGED <<now, room, upkeep, service>>

\* POST /reservations, POST /requests/:id/reservation, confirmBooking with a cabin.
BookRoom(r, a, d, paymentDue, rm) ==
  /\ Sellable(rm, a, d, r)
  /\ Book(r, a, d, paymentDue, rm)

\* The same without a cabin, and the agent's accepted offer: first fit by number.
BookCategory(r, a, d, paymentDue) ==
  \E rm \in Rooms :
    /\ \A lower \in Rooms : lower < rm => ~Sellable(lower, a, d, r)
    /\ BookRoom(r, a, d, paymentDue, rm)

\* confirmBooking without a cabin, and the journey's confirmation.
BookUnassigned(r, a, d) ==
  /\ a < d
  /\ Book(r, a, d, FALSE, NoRoom)

\* POST /reservations/:id/units
AssignUnit(r, rm) ==
  /\ Open(r)
  /\ ~Arrived(r)
  /\ Sellable(rm, res[r].arr, res[r].dep, r)
  /\ unit' = AssignOnly(r, rm, res[r].arr, res[r].dep)
  /\ stay' = [stay EXCEPT ![r].room = rm]
  /\ UNCHANGED <<now, res, room, upkeep, money>>

\* PATCH /reservations/:id that keeps the reservation open.
UpdateReservation(r, a, d, status) ==
  /\ Patchable(r, status)
  /\ ~Arrived(r)
  /\ res[r].status = "pending_payment" /\ status = "confirmed" => folio[r] >= Deposited
  /\ a < d
  /\ \A rm \in Holding(r) : Sellable(rm, a, d, r)
  /\ res' = [res EXCEPT ![r] = [status |-> status, arr |-> a, dep |-> d,
       hold |-> IF status = "confirmed" THEN NoHold ELSE res[r].hold]]
  /\ unit' = [unit EXCEPT ![r] = [rm \in Rooms |->
       IF rm \in Holding(r) THEN [status |-> "assigned", arr |-> a, dep |-> d] ELSE Freed]]
  /\ stay' = [stay EXCEPT ![r].nights = CeilNights(a, d),
       ![r].op = IF stay[r].op = "cancelled" THEN "upcoming" ELSE stay[r].op]
  /\ UNCHANGED <<now, room, upkeep, money>>

\* PATCH /reservations/:id with a closing status.  Dates sent along are stored and never read again: left out.
CloseReservation(r, status) ==
  /\ Patchable(r, status)
  /\ ~Arrived(r)
  /\ res' = [res EXCEPT ![r].status = status,
       ![r].hold = IF status = "cancelled" THEN NoHold ELSE res[r].hold]
  /\ unit' = Release(r)
  /\ stay' = [stay EXCEPT ![r].op = IF stay[r].op = "upcoming" THEN status ELSE stay[r].op]
  /\ UNCHANGED <<now, room, upkeep, money>>

\* Mutant: the job looks for holds that end now.
HoldEndsNow(r) == res[r].hold = now

\* The hold's day is over.
HoldOver(r) == res[r].hold # NoHold /\ res[r].hold <= now

\* POST /communications/expire-holds, the transaction of one reservation.
ExpireHold(r) ==
  /\ res[r].status = "pending_payment"
  /\ HoldOver(r)
  /\ res' = [res EXCEPT ![r].status = "cancelled"]
  /\ unit' = Release(r)
  /\ stay' = [stay EXCEPT ![r].op = "cancelled"]
  /\ UNCHANGED <<now, room, upkeep, money>>

\* receivePaymentRequest: what it checks, and what it writes from what it saw.
Payable(r) ==
  /\ r \in Billed
  /\ res[r].status \notin {"absent", "cancelled"}
  /\ res[r].hold = NoHold \/ res[r].hold >= now

\* Mutant: any receipt that covers the deposit confirms the booking anew.
ConfirmOnDeposit(r, seenStatus, level) ==
  /\ folio' = [folio EXCEPT ![r] = level]
  /\ IF level >= Deposited
       THEN /\ res' = [res EXCEPT ![r].status = "confirmed", ![r].hold = NoHold]
            /\ stay' = [stay EXCEPT ![r].op = "upcoming"]
       ELSE UNCHANGED <<res, stay>>
  /\ UNCHANGED <<now, unit, room, upkeep, service>>

RecordPayment(r, seenStatus, level) ==
  /\ folio' = [folio EXCEPT ![r] = level]
  /\ IF seenStatus = "pending_payment" /\ level >= Deposited
       THEN /\ res' = [res EXCEPT ![r].status = "confirmed", ![r].hold = NoHold]
            /\ stay' = [stay EXCEPT ![r].op = "upcoming"]
       ELSE UNCHANGED <<res, stay>>
  /\ UNCHANGED <<now, unit, room, upkeep, service>>

-----------------------------------------------------------------------------
(* Residence *)

Resident(r) == InHouse(r) /\ res[r].status = "confirmed" /\ stay[r].room # NoRoom

NewTask(rm) == \E t \in Tasks :
  /\ task[t] = NoTask
  /\ task' = [task EXCEPT ![t] = [room |-> rm, status |-> "open"]]

CheckIn(r, readinessOverride) ==
  \E rm \in Rooms :
    /\ res[r].status = "confirmed" /\ stay[r].op = "upcoming"
    /\ res[r].arr - TicksPerDay <= now /\ now < res[r].dep
    /\ {q \in Rooms : unit[r][q].status = "assigned"} = {rm}
    /\ RoomAvailable(rm, res[r].arr, res[r].dep, r)
    /\ RoomReady(rm) \/ readinessOverride
    /\ stay' = [stay EXCEPT ![r].op = "in_house", ![r].room = rm]
    /\ unit' = [unit EXCEPT ![r][rm].status = "active"]
    /\ room' = [room EXCEPT ![rm] = [status |-> "occupied", guest |-> r]]
    /\ UNCHANGED <<now, res, upkeep, money>>

\* Mutant: the assignment keeps its old departure.
SetReservationDeparture(r, d) ==
  /\ RoomAvailable(stay[r].room, res[r].arr, d, r)
  /\ unit[r][stay[r].room].status # "free"
  /\ res' = [res EXCEPT ![r].dep = d]
  /\ unit' = unit

\* The new departure goes to the reservation and to the assignment of the cabin.
SetDeparture(r, d) ==
  /\ RoomAvailable(stay[r].room, res[r].arr, d, r)
  /\ unit[r][stay[r].room].status # "free"
  /\ res' = [res EXCEPT ![r].dep = d]
  /\ unit' = [unit EXCEPT ![r][stay[r].room].dep = d]

ExtendStay(r, d) ==
  /\ Resident(r)
  /\ d > res[r].dep
  /\ NightCount(res[r].arr, d) > stay[r].nights
  /\ SetDeparture(r, d)
  /\ stay' = [stay EXCEPT ![r].nights = NightCount(res[r].arr, d)]
  /\ \E level \in Charged(r) : folio' = [folio EXCEPT ![r] = level]
  /\ UNCHANGED <<now, room, upkeep, service>>

ChangeDepartureTime(r, d) ==
  /\ Resident(r)
  /\ Day(d) = Day(res[r].dep)
  /\ d > now
  /\ SetDeparture(r, d)
  /\ UNCHANGED <<now, stay, room, upkeep, money>>

\* Mutant: the guest's name stays on the card.
VacatedUnnamed(rm, status) == [room EXCEPT ![rm].status = status]

\* The cards after the guest has left cabin rm.
Vacated(rm, status) == [room EXCEPT ![rm] = [status |-> status, guest |-> Nobody]]

MoveRoom(r, to) ==
  LET from == stay[r].room IN
  /\ Resident(r)
  /\ to # from
  /\ Sellable(to, now, res[r].dep, r)
  /\ unit[r][from].status # "free"
  /\ unit' = [unit EXCEPT ![r][from] = Freed,
       ![r][to] = [status |-> "active", arr |-> now, dep |-> res[r].dep]]
  /\ stay' = [stay EXCEPT ![r].room = to]
  /\ room' = [Vacated(from, "dirty") EXCEPT ![to] = [status |-> "occupied", guest |-> r]]
  /\ NewTask(from)
  /\ UNCHANGED <<now, res, ticket, money>>

CheckOut(r) ==
  /\ Resident(r)
  /\ folio[r] = Settled
  /\ ~service[r]
  /\ stay' = [stay EXCEPT ![r].op = "checked_out"]
  /\ res' = [res EXCEPT ![r].status = "completed"]
  /\ unit' = Release(r)
  /\ room' = Vacated(stay[r].room, IF Blocked(stay[r].room) THEN "out" ELSE "dirty")
  /\ NewTask(stay[r].room)
  /\ UNCHANGED <<now, ticket, money>>

-----------------------------------------------------------------------------
(* Housekeeping, maintenance and the cabin cards *)

RequestCleaning(r) ==
  /\ Resident(r)
  /\ now <= res[r].dep
  /\ NewTask(stay[r].room)
  /\ UNCHANGED <<now, res, unit, stay, room, ticket, money>>

\* POST /housekeeping; a reopened inspected or skipped task is the same step.
CreateCleaning(rm) ==
  /\ NewTask(rm)
  /\ UNCHANGED <<now, res, unit, stay, room, ticket, money>>

\* PATCH /housekeeping/:id: complete, reopen (or assign, start) and skip.
ChangeCleaning(t, status) ==
  /\ task[t] # NoTask
  /\ task' = [task EXCEPT ![t] = IF status = "none" THEN NoTask
                                 ELSE [task[t] EXCEPT !.status = status]]
  /\ UNCHANGED <<now, res, unit, stay, room, ticket, money>>

\* PATCH /housekeeping/:id inspect: what it writes; the cabin becomes ready if
\* the handler saw neither a blocking ticket nor a guest.
RecordInspection(t, rm, sawFree) ==
  /\ task' = [task EXCEPT ![t] = NoTask]
  /\ room' = IF sawFree THEN [room EXCEPT ![rm].status = "ready"] ELSE room
  /\ UNCHANGED <<now, res, unit, stay, ticket, money>>

\* POST /maintenance: its first statement.
RecordTicket(k, rm, blocks) ==
  /\ ticket[k] = NoTicket
  /\ ticket' = [ticket EXCEPT ![k] = [room |-> rm, blocks |-> blocks, status |-> "active"]]
  /\ UNCHANGED <<now, res, unit, stay, room, task, money>>

\* PATCH /maintenance/:id to verified or cancelled, blocking ticket or not.
OtherBlocker(k) == \E j \in Tickets \ {k} :
  ticket[j].room = ticket[k].room /\ ticket[j].blocks /\ ticket[j].status = "active"

RecordClosure(k, rm, sawBlocker, sawGuest) ==
  /\ ticket' = [ticket EXCEPT ![k].status = "closed"]
  /\ room' = IF sawBlocker THEN room
             ELSE [room EXCEPT ![rm].status = IF sawGuest THEN "occupied" ELSE "dirty"]
  /\ UNCHANGED <<now, res, unit, stay, task, money>>

\* PATCH /maintenance/:id back to a working status leaves the card alone.
ReopenTicket(k) ==
  /\ ticket[k].status = "closed"
  /\ ticket' = [ticket EXCEPT ![k].status = "active"]
  /\ UNCHANGED <<now, res, unit, stay, room, task, money>>

\* PATCH /rooms/:id/status, and POST /maintenance for a cabin it blocks: the write.
RecordRoomStatus(rm, status) ==
  /\ room' = [room EXCEPT ![rm].status = status]
  /\ UNCHANGED <<now, res, unit, stay, upkeep, money>>

-----------------------------------------------------------------------------
(* Money and services, as far as the desk's guards depend on them *)

\* POST /reservations/:id/payments: part or all of the balance.
AddStayPayment(r, level) ==
  /\ res[r].status \notin {"absent", "pending_payment"}
  /\ folio[r] < Settled /\ level \in Credited(r)
  /\ folio' = [folio EXCEPT ![r] = level]
  /\ UNCHANGED <<now, res, unit, stay, room, upkeep, service>>

\* POST /leads/:id/payments and edits of the folio's lines: a payment, a refund or
\* a new total, in any state of the booking.
AddLeadPayment(r, level) ==
  /\ r \in Billed /\ res[r].status # "absent"
  /\ level \in FolioLevels(r)
  /\ folio' = [folio EXCEPT ![r] = level]
  /\ UNCHANGED <<now, res, unit, stay, room, upkeep, service>>

\* Mutant: a service may be booked for any reservation on record.
ServesAnyone(r) == res[r].status # "absent"

\* A service is booked for a stay that is booked or in house.
Serves(r) == Open(r) /\ stay[r].op \notin {"checked_out", "cancelled", "no_show"}

\* bookService for a stay: the reservation row is locked, so it meets CheckOut whole.
BookService(r) ==
  /\ r \in Billed
  /\ Serves(r)
  /\ service' = [service EXCEPT ![r] = TRUE]
  /\ \E level \in Charged(r) : folio' = [folio EXCEPT ![r] = level]
  /\ UNCHANGED <<now, res, unit, stay, room, upkeep>>

\* changeServiceStatus: completed keeps the charge, cancelled takes it off.
ChangeServiceStatus(r, status) ==
  /\ service[r]
  /\ service' = [service EXCEPT ![r] = FALSE]
  /\ IF status = "cancelled"
       THEN \E level \in Credited(r) : folio' = [folio EXCEPT ![r] = level]
       ELSE UNCHANGED folio
  /\ UNCHANGED <<now, res, unit, stay, room, upkeep>>

-----------------------------------------------------------------------------
(* The requests of one reservation, and of the cleaning *)

Tick ==
  /\ now < Horizon
  /\ now' = now + 1
  /\ UNCHANGED <<res, unit, stay, room, upkeep, money>>

\* The dates of a PATCH: requested ones, or the ones on record.
PatchPeriods(r) == Periods \cup {<<res[r].arr, res[r].dep>>}

BookingStep(r) ==
  \/ \E p \in Periods, paymentDue \in BOOLEAN :
       \/ \E rm \in Rooms : BookRoom(r, p[1], p[2], paymentDue, rm)
       \/ BookCategory(r, p[1], p[2], paymentDue)
  \/ \E p \in Periods : BookUnassigned(r, p[1], p[2])
  \/ \E rm \in Rooms : AssignUnit(r, rm)
  \/ \E p \in PatchPeriods(r), status \in OpenStatuses :
       UpdateReservation(r, p[1], p[2], status)
  \/ \E status \in {"cancelled", "no_show"} : CloseReservation(r, status)

ResidenceStep(r) ==
  \/ \E readinessOverride \in BOOLEAN : CheckIn(r, readinessOverride)
  \/ \E d \in Times : ExtendStay(r, d) \/ ChangeDepartureTime(r, d)
  \/ \E to \in Rooms : MoveRoom(r, to)
  \/ CheckOut(r)
  \/ RequestCleaning(r)

AccountStep(r) ==
  \/ \E level \in Levels : AddStayPayment(r, level) \/ AddLeadPayment(r, level)
  \/ BookService(r)
  \/ \E status \in {"completed", "cancelled"} : ChangeServiceStatus(r, status)

CleaningStep(t) == \E status \in {"open", "completed", "none"} : ChangeCleaning(t, status)

=============================================================================
