-------------------------- MODULE FrontDesk_proofs --------------------------
(***************************************************************************)
(* Theorems about the front desk at work, for any reservations, cabins,    *)
(* dates, bounds and unlocked handlers in flight.  First the types; then   *)
(* DeskInv, the inductive invariant behind NoDoubleBooking, OneOccupant    *)
(* and the other relations between the tables; then the action properties  *)
(* that follow from it, and the calendar the desk implements.              *)
(*                                                                         *)
(* A step touches one reservation at most, so its case has four parts:     *)
(* what the invariant says of that reservation alone (Own), that its slots *)
(* do not clash with another's (NoClash), that the cards still name the    *)
(* guests (RoomCardNamesOccupant) and that no two live in one cabin        *)
(* (OneOccupant).  OneReservation puts them together.  What the handlers   *)
(* in flight have in hand (InFlight) and what the cards show as vacant     *)
(* (CardsTrue) are separate.                                               *)
(***************************************************************************)
EXTENDS FrontDesk, TLAPS

-----------------------------------------------------------------------------
(* Arithmetic and dates *)

LEMMA DivIsNat == ASSUME NEW n \in Nat, NEW k \in Nat \ {0} PROVE n \div k \in Nat
  OBVIOUS

\* Both rules for counting nights give a number of nights.
LEMMA NightsAreNat ==
  ASSUME NEW a \in Times, NEW d \in Times
  PROVE  CeilNights(a, d) \in Nat /\ NightCount(a, d) \in Nat
  BY DivIsNat, Clock DEF CeilNights, NightCount, Day, Times

\* The dates a PATCH may carry are dates.
LEMMA PatchPeriodsAreTimes ==
  ASSUME TablesOK, NEW r \in Reservations, NEW p \in PatchPeriods(r)
  PROVE  p[1] \in Times /\ p[2] \in Times
  BY RequestedPeriods DEF PatchPeriods, TablesOK, ReservationRow

-----------------------------------------------------------------------------
(* Types *)

LEMMA FreedIsUnitRow == Freed \in UnitRow
  BY Clock DEF Freed, UnitRow, Times

LEMMA UnitRowUpdates ==
  ASSUME NEW u \in UnitRow, NEW d \in Times
  PROVE  [u EXCEPT !.dep = d] \in UnitRow /\ [u EXCEPT !.status = "active"] \in UnitRow
  BY DEF UnitRow

LEMMA AssignOnlyType ==
  ASSUME TablesOK, NEW r \in Reservations, NEW rm, NEW a \in Times, NEW d \in Times
  PROVE  AssignOnly(r, rm, a, d) \in [Reservations -> [Rooms -> UnitRow]]
  BY FreedIsUnitRow DEF AssignOnly, TablesOK, UnitRow

LEMMA ReleaseType ==
  ASSUME TablesOK, NEW r \in Reservations
  PROVE  Release(r) \in [Reservations -> [Rooms -> UnitRow]]
  BY FreedIsUnitRow DEF Release, TablesOK

LEMMA VacatedType ==
  ASSUME TablesOK, NEW rm \in Rooms, NEW status \in {"ready", "dirty", "occupied", "out"}
  PROVE  Vacated(rm, status) \in [Rooms -> RoomRow]
  BY DEF Vacated, TablesOK, RoomRow

LEMMA NewTaskType ==
  ASSUME TablesOK, NEW rm \in Rooms, NewTask(rm)
  PROVE  task' \in [Tasks -> TaskRow]
  BY DEF NewTask, TablesOK, TaskRow

LEMMA InitTables == Init => TablesOK
  BY Clock, RoomNumbers, Guests
  DEF Init, TablesOK, Times, Freed, NoHold, NoTask, NoTicket, Levels, Settled, Due,
      ReservationRow, UnitRow, StayRow, RoomRow, TaskRow, TicketRow

LEMMA BookType ==
  ASSUME TablesOK, NEW r \in Reservations, NEW a \in Times, NEW d \in Times,
         NEW paymentDue \in BOOLEAN, NEW rm \in Rooms \cup {NoRoom},
         Book(r, a, d, paymentDue, rm)
  PROVE  TablesOK'
<1>1. res' \in [Reservations -> ReservationRow]
  BY Clock DEF Book, TablesOK, ReservationRow, OpenStatuses, Times, NoHold
<1>2. unit' \in [Reservations -> [Rooms -> UnitRow]]
  BY AssignOnlyType DEF Book
<1>3. stay' \in [Reservations -> StayRow]
  BY NightsAreNat DEF Book, TablesOK, StayRow
<1>4. folio' \in [Reservations -> Levels]
  BY DEF Book, TablesOK, Levels, Due, Deposited, Settled
<1> QED BY <1>1, <1>2, <1>3, <1>4 DEF Book, TablesOK, upkeep

LEMMA BookingType ==
  ASSUME TablesOK, NEW r \in Reservations, BookingStep(r)
  PROVE  TablesOK'
<1>1. ASSUME NEW p \in Periods, NEW paymentDue \in BOOLEAN, NEW rm \in Rooms,
             BookRoom(r, p[1], p[2], paymentDue, rm)
      PROVE  TablesOK'
  BY <1>1, BookType, RequestedPeriods DEF BookRoom
<1>2. ASSUME NEW p \in Periods, NEW paymentDue \in BOOLEAN,
             BookCategory(r, p[1], p[2], paymentDue)
      PROVE  TablesOK'
  BY <1>1, <1>2 DEF BookCategory
<1>3. ASSUME NEW p \in Periods, BookUnassigned(r, p[1], p[2])
      PROVE  TablesOK'
  BY <1>3, BookType, RequestedPeriods DEF BookUnassigned
<1>4. ASSUME NEW rm \in Rooms, AssignUnit(r, rm)
      PROVE  TablesOK'
  <2>1. unit' \in [Reservations -> [Rooms -> UnitRow]]
    BY <1>4, AssignOnlyType DEF AssignUnit, TablesOK, ReservationRow
  <2>2. stay' \in [Reservations -> StayRow]
    BY <1>4 DEF AssignUnit, TablesOK, StayRow
  <2> QED BY <1>4, <2>1, <2>2 DEF AssignUnit, TablesOK, upkeep, money
<1>5. ASSUME NEW p \in PatchPeriods(r), NEW status \in OpenStatuses,
             UpdateReservation(r, p[1], p[2], status)
      PROVE  TablesOK'
  <2>0. p[1] \in Times /\ p[2] \in Times
    BY PatchPeriodsAreTimes
  <2>1. res' \in [Reservations -> ReservationRow]
    BY <1>5, <2>0 DEF UpdateReservation, TablesOK, ReservationRow
  <2>2. unit' \in [Reservations -> [Rooms -> UnitRow]]
    BY <1>5, <2>0, FreedIsUnitRow DEF UpdateReservation, TablesOK, UnitRow
  <2>3. stay' \in [Reservations -> StayRow]
    BY <1>5, <2>0, NightsAreNat DEF UpdateReservation, TablesOK, StayRow
  <2> QED BY <1>5, <2>1, <2>2, <2>3 DEF UpdateReservation, TablesOK, upkeep, money
<1>6. ASSUME NEW status \in {"cancelled", "no_show"}, CloseReservation(r, status)
      PROVE  TablesOK'
  <2>1. res' \in [Reservations -> ReservationRow]
    BY <1>6 DEF CloseReservation, TablesOK, ReservationRow, ClosedStatuses
  <2>2. unit' \in [Reservations -> [Rooms -> UnitRow]]
    BY <1>6, ReleaseType DEF CloseReservation
  <2>3. stay' \in [Reservations -> StayRow]
    BY <1>6 DEF CloseReservation, TablesOK, StayRow
  <2> QED BY <1>6, <2>1, <2>2, <2>3 DEF CloseReservation, TablesOK, upkeep, money
<1> QED BY <1>1, <1>2, <1>3, <1>4, <1>5, <1>6 DEF BookingStep

LEMMA ExpireType ==
  ASSUME TablesOK, NEW r \in Reservations, ExpireHold(r)
  PROVE  TablesOK'
<1>1. res' \in [Reservations -> ReservationRow]
  BY DEF ExpireHold, TablesOK, ReservationRow, ClosedStatuses
<1>2. unit' \in [Reservations -> [Rooms -> UnitRow]]
  BY ReleaseType DEF ExpireHold
<1>3. stay' \in [Reservations -> StayRow]
  BY DEF ExpireHold, TablesOK, StayRow
<1> QED BY <1>1, <1>2, <1>3 DEF ExpireHold, TablesOK, upkeep, money

LEMMA ChargedType ==
  ASSUME TablesOK, NEW r \in Reservations PROVE Charged(r) \subseteq Levels
  BY DEF Charged, TablesOK, Levels, Due, Deposited, Settled

LEMMA SetDepartureType ==
  ASSUME TablesOK, NEW r \in Reservations, NEW d \in Times, stay[r].room \in Rooms,
         SetDeparture(r, d)
  PROVE  /\ res' \in [Reservations -> ReservationRow]
         /\ unit' \in [Reservations -> [Rooms -> UnitRow]]
<1>1. res' \in [Reservations -> ReservationRow]
  BY DEF SetDeparture, TablesOK, ReservationRow
<1>2. [unit[r][stay[r].room] EXCEPT !.dep = d] \in UnitRow
  <2>1. unit[r][stay[r].room] \in UnitRow
    BY DEF TablesOK
  <2> QED BY <2>1, UnitRowUpdates
<1>3. unit' \in [Reservations -> [Rooms -> UnitRow]]
  BY <1>2 DEF SetDeparture, TablesOK
<1> QED BY <1>1, <1>3

LEMMA ResidentHasRoom ==
  ASSUME TablesOK, NEW r \in Reservations, Resident(r)
  PROVE  stay[r].room \in Rooms
  BY DEF Resident, TablesOK, StayRow

LEMMA ResidenceType ==
  ASSUME TablesOK, NEW r \in Reservations, ResidenceStep(r)
  PROVE  TablesOK'
<1>1. ASSUME NEW readinessOverride \in BOOLEAN, CheckIn(r, readinessOverride)
      PROVE  TablesOK'
  <2> PICK rm \in Rooms :
         /\ stay' = [stay EXCEPT ![r].op = "in_house", ![r].room = rm]
         /\ unit' = [unit EXCEPT ![r][rm].status = "active"]
         /\ room' = [room EXCEPT ![rm] = [status |-> "occupied", guest |-> r]]
    BY <1>1 DEF CheckIn
  <2>1. stay' \in [Reservations -> StayRow]
    BY DEF TablesOK, StayRow
  <2>2. unit' \in [Reservations -> [Rooms -> UnitRow]]
    <3>1. [unit[r][rm] EXCEPT !.status = "active"] \in UnitRow
      BY UnitRowUpdates, Clock DEF TablesOK, Times
    <3> QED BY <3>1 DEF TablesOK
  <2>3. room' \in [Rooms -> RoomRow]
    BY DEF TablesOK, RoomRow
  <2> QED BY <1>1, <2>1, <2>2, <2>3 DEF CheckIn, TablesOK, upkeep, money
<1>2. ASSUME NEW d \in Times, ExtendStay(r, d)
      PROVE  TablesOK'
  <2>1. /\ res' \in [Reservations -> ReservationRow]
        /\ unit' \in [Reservations -> [Rooms -> UnitRow]]
    BY <1>2, SetDepartureType, ResidentHasRoom DEF ExtendStay
  <2>2. stay' \in [Reservations -> StayRow]
    BY <1>2, NightsAreNat DEF ExtendStay, TablesOK, StayRow, ReservationRow
  <2>3. folio' \in [Reservations -> Levels]
    BY <1>2, ChargedType DEF ExtendStay, TablesOK
  <2> QED BY <1>2, <2>1, <2>2, <2>3 DEF ExtendStay, TablesOK, upkeep
<1>3. ASSUME NEW d \in Times, ChangeDepartureTime(r, d)
      PROVE  TablesOK'
  <2>1. /\ res' \in [Reservations -> ReservationRow]
        /\ unit' \in [Reservations -> [Rooms -> UnitRow]]
    BY <1>3, SetDepartureType, ResidentHasRoom DEF ChangeDepartureTime
  <2> QED BY <1>3, <2>1 DEF ChangeDepartureTime, TablesOK, upkeep, money
<1>4. ASSUME NEW to \in Rooms, MoveRoom(r, to)
      PROVE  TablesOK'
  <2>1. stay[r].room \in Rooms
    BY <1>4, ResidentHasRoom DEF MoveRoom
  <2>2. unit' \in [Reservations -> [Rooms -> UnitRow]]
    BY <1>4, <2>1, FreedIsUnitRow DEF MoveRoom, TablesOK, UnitRow, ReservationRow
  <2>3. stay' \in [Reservations -> StayRow]
    BY <1>4 DEF MoveRoom, TablesOK, StayRow
  <2>4. room' \in [Rooms -> RoomRow]
    BY <1>4, <2>1, VacatedType DEF MoveRoom, RoomRow
  <2>5. task' \in [Tasks -> TaskRow]
    BY <1>4, <2>1, NewTaskType DEF MoveRoom
  <2> QED BY <1>4, <2>2, <2>3, <2>4, <2>5 DEF MoveRoom, TablesOK, money
<1>5. CASE CheckOut(r)
  <2>1. stay[r].room \in Rooms
    BY <1>5, ResidentHasRoom DEF CheckOut
  <2>2. stay' \in [Reservations -> StayRow]
    BY <1>5 DEF CheckOut, TablesOK, StayRow
  <2>3. res' \in [Reservations -> ReservationRow]
    BY <1>5 DEF CheckOut, TablesOK, ReservationRow, ClosedStatuses
  <2>4. unit' \in [Reservations -> [Rooms -> UnitRow]]
    BY <1>5, ReleaseType DEF CheckOut
  <2>5. room' \in [Rooms -> RoomRow]
    BY <1>5, <2>1, VacatedType DEF CheckOut
  <2>6. task' \in [Tasks -> TaskRow]
    BY <1>5, <2>1, NewTaskType DEF CheckOut
  <2> QED BY <1>5, <2>2, <2>3, <2>4, <2>5, <2>6 DEF CheckOut, TablesOK, money
<1>6. CASE RequestCleaning(r)
  <2>1. task' \in [Tasks -> TaskRow]
    BY <1>6, ResidentHasRoom, NewTaskType DEF RequestCleaning
  <2> QED BY <1>6, <2>1 DEF RequestCleaning, TablesOK, money
<1> QED BY <1>1, <1>2, <1>3, <1>4, <1>5, <1>6 DEF ResidenceStep

LEMMA AccountType ==
  ASSUME TablesOK, NEW r \in Reservations, AccountStep(r)
  PROVE  TablesOK'
<1>1. ASSUME NEW level \in Levels, AddStayPayment(r, level) \/ AddLeadPayment(r, level)
      PROVE  TablesOK'
  <2>1. folio' \in [Reservations -> Levels]
    BY <1>1 DEF AddStayPayment, AddLeadPayment, TablesOK
  <2> QED BY <1>1, <2>1 DEF AddStayPayment, AddLeadPayment, TablesOK, upkeep
<1>2. CASE BookService(r)
  <2>1. folio' \in [Reservations -> Levels]
    BY <1>2, ChargedType DEF BookService, TablesOK
  <2>2. service' \in [Reservations -> BOOLEAN]
    BY <1>2 DEF BookService, TablesOK
  <2> QED BY <1>2, <2>1, <2>2 DEF BookService, TablesOK, upkeep
<1>3. ASSUME NEW status \in {"completed", "cancelled"}, ChangeServiceStatus(r, status)
      PROVE  TablesOK'
  <2>1. folio' \in [Reservations -> Levels]
    BY <1>3 DEF ChangeServiceStatus, Credited, TablesOK
  <2>2. service' \in [Reservations -> BOOLEAN]
    BY <1>3 DEF ChangeServiceStatus, TablesOK
  <2> QED BY <1>3, <2>1, <2>2 DEF ChangeServiceStatus, TablesOK, upkeep
<1> QED BY <1>1, <1>2, <1>3 DEF AccountStep

LEMMA PaymentType ==
  ASSUME TablesOK, NEW r \in Reservations, NEW seen, NEW level \in Levels,
         RecordPayment(r, seen, level)
  PROVE  TablesOK'
<1>1. CASE UNCHANGED <<res, stay>>
  BY <1>1 DEF RecordPayment, TablesOK, upkeep
<1>2. CASE /\ res' = [res EXCEPT ![r].status = "confirmed", ![r].hold = NoHold]
           /\ stay' = [stay EXCEPT ![r].op = "upcoming"]
  <2>1. res' \in [Reservations -> ReservationRow]
    BY <1>2 DEF TablesOK, ReservationRow, OpenStatuses
  <2>2. stay' \in [Reservations -> StayRow]
    BY <1>2 DEF TablesOK, StayRow
  <2> QED BY <2>1, <2>2 DEF RecordPayment, TablesOK, upkeep
<1> QED BY <1>1, <1>2 DEF RecordPayment

LEMMA UpkeepType ==
  ASSUME TablesOK,
         \/ \E rm \in Rooms : CreateCleaning(rm)
         \/ \E t \in Tasks : CleaningStep(t)
         \/ \E k \in Tickets : ReopenTicket(k)
  PROVE  TablesOK'
<1>1. ASSUME NEW rm \in Rooms, CreateCleaning(rm)
      PROVE  TablesOK'
  BY <1>1, NewTaskType DEF CreateCleaning, TablesOK, money
<1>2. ASSUME NEW t \in Tasks, CleaningStep(t)
      PROVE  TablesOK'
  <2>1. task' \in [Tasks -> TaskRow]
    BY <1>2 DEF CleaningStep, ChangeCleaning, NoTask, TablesOK, TaskRow
  <2> QED BY <1>2, <2>1 DEF CleaningStep, ChangeCleaning, TablesOK, money
<1>3. ASSUME NEW k \in Tickets, ReopenTicket(k)
      PROVE  TablesOK'
  <2>1. ticket' \in [Tickets -> TicketRow]
    BY <1>3 DEF ReopenTicket, TablesOK, TicketRow
  <2> QED BY <1>3, <2>1 DEF ReopenTicket, TablesOK, money
<1> QED BY <1>1, <1>2, <1>3

LEMMA CardStatusType ==
  ASSUME TablesOK, NEW rm, NEW status \in {"ready", "dirty", "occupied", "out"}
  PROVE  [room EXCEPT ![rm].status = status] \in [Rooms -> RoomRow]
  BY DEF TablesOK, RoomRow

LEMMA InspectionType ==
  ASSUME TablesOK, NEW t, NEW rm, NEW sawFree, RecordInspection(t, rm, sawFree)
  PROVE  TablesOK'
<1>1. task' \in [Tasks -> TaskRow]
  BY DEF RecordInspection, NoTask, TablesOK, TaskRow
<1>2. room' \in [Rooms -> RoomRow]
  BY CardStatusType DEF RecordInspection, TablesOK
<1> QED BY <1>1, <1>2 DEF RecordInspection, TablesOK, money

LEMMA TicketType ==
  ASSUME TablesOK, NEW k \in Tickets, NEW rm \in Rooms, NEW blocks \in BOOLEAN,
         RecordTicket(k, rm, blocks)
  PROVE  TablesOK'
<1>1. ticket' \in [Tickets -> TicketRow]
  BY DEF RecordTicket, TablesOK, TicketRow
<1> QED BY <1>1 DEF RecordTicket, TablesOK, money

LEMMA ClosureType ==
  ASSUME TablesOK, NEW k, NEW rm, NEW sawBlocker, NEW sawGuest,
         RecordClosure(k, rm, sawBlocker, sawGuest)
  PROVE  TablesOK'
<1>1. ticket' \in [Tickets -> TicketRow]
  BY DEF RecordClosure, TablesOK, TicketRow
<1>2. room' \in [Rooms -> RoomRow]
  BY CardStatusType DEF RecordClosure, TablesOK
<1> QED BY <1>1, <1>2 DEF RecordClosure, TablesOK, money

LEMMA RoomStatusType ==
  ASSUME TablesOK, NEW rm, NEW status \in {"ready", "dirty", "out"}, RecordRoomStatus(rm, status)
  PROVE  TablesOK'
  BY CardStatusType DEF RecordRoomStatus, TablesOK, upkeep, money

LEMMA TickType == TablesOK /\ Tick => TablesOK'
  BY Clock DEF TablesOK, Tick, Times, upkeep, money

LEMMA StutterType == TablesOK /\ UNCHANGED vars => TablesOK'
  BY DEF TablesOK, vars

-----------------------------------------------------------------------------
(* Types: the handlers in flight *)

LEMMA IdleIsHandlerRow == Idle \in HandlerRow
  BY DEF HandlerRow

LEMMA BeginType ==
  ASSUME TypeOK, NEW h \in Handlers, NEW seen \in HandlerRow, Begin(h, seen)
  PROVE  handler' \in [Handlers -> HandlerRow]
  BY DEF Begin, TypeOK

LEMMA FinishType ==
  ASSUME TypeOK, NEW h \in Handlers, Finish(h)
  PROVE  handler' \in [Handlers -> HandlerRow]
  BY IdleIsHandlerRow DEF Finish, TypeOK

\* The rows of each job, and the reservation, task, ticket or cabin in them.
LEMMA JobRows ==
  ASSUME NEW row \in HandlerRow
  PROVE  /\ row.job = "pay" => row.res \in Reservations /\ row.status \in OpenStatuses \cup ClosedStatuses
         /\ row.job = "further" => row \in [job : {"further"}, res : Reservations, found : BOOLEAN,
                                             arr : Times, dep : Times]
         /\ row.job = "inspect" => row \in [job : {"inspect"}, task : Tasks, room : Rooms \cup {NoRoom},
                                             looked : BOOLEAN, free : BOOLEAN]
         /\ row.job = "mark" => row \in [job : {"mark"}, room : Rooms,
                                          status : {"ready", "dirty", "out"}, looked : BOOLEAN]
         /\ row.job = "block" => row.room \in Rooms
         /\ row.job = "close" => row \in [job : {"close"}, ticket : Tickets, room : Rooms \cup {NoRoom},
                                           looked : BOOLEAN, blocker : BOOLEAN, guest : BOOLEAN]
         /\ row.job \in {"advance", "lose"} =>
              row.res \in Reservations /\ row.to \in {"confirmed", "over"}
         /\ row.job = "cancel" => row.res \in Reservations
  BY DEF HandlerRow, Idle

LEMMA StartType ==
  ASSUME TypeOK, NEW h \in Handlers, HandlerStart(h)
  PROVE  handler' \in [Handlers -> HandlerRow]
<1>1. ASSUME NEW r \in Reservations, StartPayment(h, r) PROVE handler' \in [Handlers -> HandlerRow]
  <2>1. res[r].status \in OpenStatuses \cup ClosedStatuses
    BY <1>1 DEF StartPayment, Payable, TypeOK, TablesOK, ReservationRow
  <2>2. [job |-> "pay", res |-> r, status |-> res[r].status] \in HandlerRow
    BY <2>1 DEF HandlerRow
  <2> QED BY <1>1, <2>2, BeginType DEF StartPayment
<1>2. ASSUME NEW r \in Reservations, StartFurtherBooking(h, r)
      PROVE  handler' \in [Handlers -> HandlerRow]
  <2>1. [job |-> "further", res |-> r, found |-> FALSE, arr |-> 0, dep |-> 0] \in HandlerRow
    BY Clock DEF HandlerRow, Times
  <2> QED BY <1>2, <2>1, BeginType DEF StartFurtherBooking
<1>3. ASSUME NEW r \in Reservations, NEW job \in {"advance", "lose", "cancel"}, StartJourney(h, r, job)
      PROVE  handler' \in [Handlers -> HandlerRow]
  <2>1. JourneyTarget(job, stage[r]) \in
          IF job = "cancel" THEN {"cancelled"} ELSE {"confirmed", "over"}
    BY DEF JourneyTarget
  <2>2. [job |-> job, res |-> r, to |-> JourneyTarget(job, stage[r])] \in HandlerRow
    BY <2>1 DEF HandlerRow
  <2> QED BY <1>3, <2>2, BeginType DEF StartJourney
<1>4. ASSUME NEW t \in Tasks, StartInspection(h, t) PROVE handler' \in [Handlers -> HandlerRow]
  <2>1. task[t].room \in Rooms \cup {NoRoom}
    BY DEF TypeOK, TablesOK, TaskRow
  <2>2. [job |-> "inspect", task |-> t, room |-> task[t].room, looked |-> FALSE,
         free |-> ~Blocked(task[t].room)] \in HandlerRow
    BY <2>1 DEF HandlerRow
  <2> QED BY <1>4, <2>2, BeginType DEF StartInspection
<1>5. ASSUME NEW rm \in Rooms, NEW status \in {"ready", "dirty", "out"}, StartRoomStatus(h, rm, status)
      PROVE  handler' \in [Handlers -> HandlerRow]
  <2>1. [job |-> "mark", room |-> rm, status |-> status, looked |-> FALSE] \in HandlerRow
    BY DEF HandlerRow
  <2> QED BY <1>5, <2>1, BeginType DEF StartRoomStatus
<1>6. ASSUME NEW k \in Tickets, NEW rm \in Rooms, OpenBlockingTicket(h, k, rm)
      PROVE  handler' \in [Handlers -> HandlerRow]
  <2>1. [job |-> "block", room |-> rm] \in HandlerRow
    BY DEF HandlerRow
  <2> QED BY <1>6, <2>1, BeginType DEF OpenBlockingTicket
<1>7. ASSUME NEW k \in Tickets, StartClosure(h, k) PROVE handler' \in [Handlers -> HandlerRow]
  <2>1. ticket[k].room \in Rooms \cup {NoRoom}
    BY DEF TypeOK, TablesOK, TicketRow
  <2>2. [job |-> "close", ticket |-> k, room |-> ticket[k].room, looked |-> FALSE,
         blocker |-> OtherBlocker(k), guest |-> FALSE] \in HandlerRow
    BY <2>1 DEF HandlerRow, OtherBlocker
  <2> QED BY <1>7, <2>2, BeginType DEF StartClosure
<1> QED BY <1>1, <1>2, <1>3, <1>4, <1>5, <1>6, <1>7 DEF HandlerStart

LEMMA LookType ==
  ASSUME TypeOK, NEW h \in Handlers, HandlerLook(h)
  PROVE  handler' \in [Handlers -> HandlerRow]
<1>0. handler[h] \in HandlerRow
  BY DEF TypeOK
<1>1. CASE FindReservation(h)
  <2>1. handler[h].res \in Reservations
    BY <1>0, <1>1, JobRows DEF FindReservation
  <2>2. [job |-> "further", res |-> handler[h].res, found |-> TRUE,
         arr |-> res[handler[h].res].arr, dep |-> res[handler[h].res].dep] \in HandlerRow
    BY <2>1 DEF HandlerRow, TypeOK, TablesOK, ReservationRow
  <2> QED BY <1>1, <2>2 DEF FindReservation, TypeOK
<1>2. CASE InspectionLooksForGuest(h)
  <2> DEFINE free == handler[h].free /\ ~OccupiedBySomeone(handler[h].room)
  <2>1. handler[h] \in [job : {"inspect"}, task : Tasks, room : Rooms \cup {NoRoom},
                        looked : BOOLEAN, free : BOOLEAN]
    BY <1>0, <1>2, JobRows DEF InspectionLooksForGuest
  <2>2. free \in BOOLEAN
    BY <2>1 DEF OccupiedBySomeone
  <2>3. handler'[h] = [[handler[h] EXCEPT !.looked = TRUE] EXCEPT !.free = free]
    BY <1>2 DEF InspectionLooksForGuest, TypeOK
  <2>4. handler'[h] \in [job : {"inspect"}, task : Tasks, room : Rooms \cup {NoRoom},
                         looked : BOOLEAN, free : BOOLEAN]
    <3> HIDE DEF free
    <3> QED BY <2>1, <2>2, <2>3
  <2>5. handler'[h] \in HandlerRow
    BY <2>4 DEF HandlerRow
  <2> QED BY <1>2, <2>5 DEF InspectionLooksForGuest, TypeOK
<1>3. CASE RoomStatusLooksForTicket(h)
  <2>1. handler[h] \in [job : {"mark"}, room : Rooms, status : {"ready", "dirty", "out"}, looked : BOOLEAN]
    BY <1>0, <1>3, JobRows DEF RoomStatusLooksForTicket
  <2>2. handler'[h] = [handler[h] EXCEPT !.looked = TRUE]
    BY <1>3 DEF RoomStatusLooksForTicket, TypeOK
  <2>3. handler'[h] \in HandlerRow
    BY <2>1, <2>2 DEF HandlerRow
  <2> QED BY <1>3, <2>3 DEF RoomStatusLooksForTicket, TypeOK
<1>4. CASE ClosureLooksForGuest(h)
  <2> DEFINE guest == OccupiedBySomeone(handler[h].room)
  <2>1. handler[h] \in [job : {"close"}, ticket : Tickets, room : Rooms \cup {NoRoom},
                        looked : BOOLEAN, blocker : BOOLEAN, guest : BOOLEAN]
    BY <1>0, <1>4, JobRows DEF ClosureLooksForGuest
  <2>2. guest \in BOOLEAN
    BY DEF OccupiedBySomeone
  <2>3. handler'[h] = [[handler[h] EXCEPT !.looked = TRUE] EXCEPT !.guest = guest]
    BY <1>4 DEF ClosureLooksForGuest, TypeOK
  <2>4. handler'[h] \in [job : {"close"}, ticket : Tickets, room : Rooms \cup {NoRoom},
                         looked : BOOLEAN, blocker : BOOLEAN, guest : BOOLEAN]
    <3> HIDE DEF guest
    <3> QED BY <2>1, <2>2, <2>3
  <2>5. handler'[h] \in HandlerRow
    BY <2>4 DEF HandlerRow
  <2> QED BY <1>4, <2>5 DEF ClosureLooksForGuest, TypeOK
<1> QED BY <1>1, <1>2, <1>3, <1>4 DEF HandlerLook

LEMMA EndType ==
  ASSUME TypeOK, NEW h \in Handlers, HandlerEnd(h)
  PROVE  handler' \in [Handlers -> HandlerRow]
<1>1. Finish(h)
  BY DEF HandlerEnd, CommitPayment, AssignFurther, CommitInspection, CommitRoomStatus, BlockRoom,
         CommitClosure, CommitJourney, CommitCancellation, Abort
<1> QED BY <1>1, FinishType

-----------------------------------------------------------------------------
(* Types: every step *)

LEMMA HistoryType ==
  ASSUME TypeOK, TablesOK', handler' \in [Handlers -> HandlerRow], RememberRaces,
         NEW r \in Reservations, NEW to \in Stages, NEW f \in Fates,
         stage' \in {stage, [stage EXCEPT ![r] = to]}, fate' \in {fate, [fate EXCEPT ![r] = f]}
  PROVE  TypeOK'
<1>1. stage' \in [Reservations -> Stages]
  BY DEF TypeOK
<1>2. fate' \in [Reservations -> Fates]
  BY DEF TypeOK
<1>3. raced' \subseteq Rooms
  BY DEF RememberRaces
<1> QED BY <1>1, <1>2, <1>3 DEF TypeOK

LEMMA SameHistoryType ==
  ASSUME TypeOK, TablesOK', handler' \in [Handlers -> HandlerRow], RememberRaces,
         UNCHANGED <<stage, fate>>
  PROVE  TypeOK'
<1>1. raced' \subseteq Rooms
  BY DEF RememberRaces
<1> QED BY <1>1 DEF TypeOK

LEMMA LockedType == ASSUME TypeOK, LockedStep, RememberRaces PROVE TypeOK'
<1>0. handler' \in [Handlers -> HandlerRow] /\ fate' = fate
  BY DEF LockedStep, TypeOK
<1>1. ASSUME NEW r \in Reservations, BookingMovesStage(r) PROVE TypeOK'
  <2>1. TablesOK'
    BY <1>1, BookingType DEF BookingMovesStage, TypeOK
  <2>2. PICK to \in Stages : stage' = [stage EXCEPT ![r] = to]
    BY <1>1 DEF BookingMovesStage, TypeOK, Stages
  <2>3. "regular" \in Fates
    BY DEF Fates
  <2> QED BY <1>0, <2>1, <2>2, <2>3, HistoryType
<1>2. ASSUME NEW r \in Reservations, ResidenceStep(r) \/ AccountStep(r), UNCHANGED stage PROVE TypeOK'
  BY <1>0, <1>2, ResidenceType, AccountType, SameHistoryType DEF TypeOK
<1>3. ASSUME \/ \E rm \in Rooms : CreateCleaning(rm)
             \/ \E t \in Tasks : CleaningStep(t)
             \/ \E k \in Tickets : ReopenTicket(k)
             \/ Tick,
             UNCHANGED stage
      PROVE  TypeOK'
  BY <1>0, <1>3, UpkeepType, TickType, SameHistoryType DEF TypeOK
<1> QED BY <1>1, <1>2, <1>3 DEF LockedStep

\* What the three handlers that write bookings from unlocked reads do to one of them.
Cancels(r) ==
  /\ stage' = [stage EXCEPT ![r] = "cancelled"]
  /\ res' = [res EXCEPT ![r].status = "cancelled"]
  /\ stay' = [stay EXCEPT ![r].op = IF stay[r].op = "upcoming" THEN "cancelled" ELSE stay[r].op]
  /\ fate' = [fate EXCEPT ![r] = IF fate[r] = "regular" /\ Open(r) THEN "dropped" ELSE fate[r]]
  /\ UNCHANGED <<now, unit, room, upkeep, money>>

Pays(r, seen) ==
  LET Confirmed == folio'[r] >= Deposited /\ seen = "pending_payment" IN
  /\ \E level \in Levels : RecordPayment(r, seen, level)
  /\ stage' = IF Confirmed THEN [stage EXCEPT ![r] = "confirmed"] ELSE stage
  /\ fate' = IF Confirmed /\ res[r].status # "pending_payment"
               THEN [fate EXCEPT ![r] = "overtaken"] ELSE fate

Furthers(r, rm, a, d) ==
  /\ Sellable(rm, a, d, r)
  /\ unit' = [unit EXCEPT ![r][rm] = [status |-> "assigned", arr |-> a, dep |-> d]]
  /\ stay' = [stay EXCEPT ![r].room = rm]
  /\ \E level \in Levels : folio' = [folio EXCEPT ![r] = level]
  /\ \E to \in Stages \ {"none", "cancelled"} : stage' = [stage EXCEPT ![r] = to]
  /\ fate' = [fate EXCEPT ![r] = "overtaken"]
  /\ UNCHANGED <<now, res, room, upkeep, service>>

LEMMA CancellationActs ==
  ASSUME TypeOK, NEW h \in Handlers, CommitCancellation(h)
  PROVE  \E r \in Reservations : r = handler[h].res /\ Cancels(r)
<1>1. handler[h].res \in Reservations
  BY JobRows DEF CommitCancellation, TypeOK
<1> QED BY <1>1 DEF CommitCancellation, Cancels

LEMMA PaymentActs ==
  ASSUME TypeOK, NEW h \in Handlers, CommitPayment(h)
  PROVE  \E r \in Reservations : r = handler[h].res /\ Pays(r, handler[h].status)
<1>1. handler[h].res \in Reservations
  BY JobRows DEF CommitPayment, TypeOK
<1> QED BY <1>1 DEF CommitPayment, Pays, Credited

LEMMA FurtherActs ==
  ASSUME TypeOK, NEW h \in Handlers, NEW rm \in Rooms, AssignFurther(h, rm)
  PROVE  \E r \in Reservations, a, d \in Times : r = handler[h].res /\ Furthers(r, rm, a, d)
<1>1. handler[h].res \in Reservations /\ handler[h].arr \in Times /\ handler[h].dep \in Times
  BY JobRows DEF AssignFurther, TypeOK
<1>2. \A r \in Reservations : FolioLevels(r) \subseteq Levels /\ folio[r] \in Levels
  BY DEF FolioLevels, Levels, Due, Deposited, Settled, TypeOK, TablesOK
<1> DEFINE r == handler[h].res
<1>3. PICK level \in IF r \in Billed THEN FolioLevels(r) ELSE {folio[r]},
           to \in IF r \in Billed THEN {"payment_pending", "confirmed"} ELSE {"confirmed"} :
        folio' = [folio EXCEPT ![r] = level] /\ stage' = [stage EXCEPT ![r] = to]
  BY Zenon DEF AssignFurther
<1>4. level \in Levels /\ to \in Stages \ {"none", "cancelled"}
  BY <1>1, <1>2 DEF Stages
<1>5. Furthers(r, rm, handler[h].arr, handler[h].dep)
  BY <1>3, <1>4, Zenon DEF AssignFurther, Furthers
<1> QED BY <1>1, <1>5

LEMMA ConfirmationType ==
  ASSUME TypeOK, NEW h \in Handlers, RememberRaces, handler' \in [Handlers -> HandlerRow],
         CommitPayment(h)
  PROVE  TypeOK'
<1> PICK r \in Reservations : Pays(r, handler[h].status)
  BY PaymentActs
<1>1. TablesOK'
  BY PaymentType DEF Pays, TypeOK
<1>2. /\ stage' \in {stage, [stage EXCEPT ![r] = "confirmed"]}
      /\ fate' \in {fate, [fate EXCEPT ![r] = "overtaken"]}
  BY DEF Pays
<1> QED BY <1>1, <1>2, HistoryType DEF Stages, Fates

LEMMA CancellationType ==
  ASSUME TypeOK, NEW h \in Handlers, RememberRaces, handler' \in [Handlers -> HandlerRow],
         CommitCancellation(h)
  PROVE  TypeOK'
<1> PICK r \in Reservations : Cancels(r)
  BY CancellationActs
<1>1. res' \in [Reservations -> ReservationRow]
  BY DEF Cancels, TypeOK, TablesOK, ReservationRow, ClosedStatuses
<1>2. stay' \in [Reservations -> StayRow]
  BY DEF Cancels, TypeOK, TablesOK, StayRow
<1>3. TablesOK'
  BY <1>1, <1>2 DEF Cancels, TypeOK, TablesOK, upkeep, money
<1>4. PICK f \in Fates : fate' = [fate EXCEPT ![r] = f]
  BY DEF Cancels, TypeOK, Fates
<1>5. stage' = [stage EXCEPT ![r] = "cancelled"]
  BY DEF Cancels
<1> QED BY <1>3, <1>4, <1>5, HistoryType DEF Stages

LEMMA FurtherType ==
  ASSUME TypeOK, NEW h \in Handlers, NEW rm \in Rooms, RememberRaces,
         handler' \in [Handlers -> HandlerRow], AssignFurther(h, rm)
  PROVE  TypeOK'
<1> PICK r \in Reservations, a \in Times, d \in Times : Furthers(r, rm, a, d)
  BY FurtherActs
<1>1. unit' \in [Reservations -> [Rooms -> UnitRow]]
  <2> DEFINE row == [status |-> "assigned", arr |-> a, dep |-> d]
  <2>1. row \in UnitRow
    BY DEF UnitRow
  <2>2. unit' = [unit EXCEPT ![r][rm] = row]
    BY DEF Furthers
  <2> HIDE DEF row
  <2> QED BY <2>1, <2>2 DEF TypeOK, TablesOK
<1>2. stay' \in [Reservations -> StayRow]
  <2>1. stay' = [stay EXCEPT ![r].room = rm]
    BY DEF Furthers
  <2> QED BY <2>1 DEF TypeOK, TablesOK, StayRow
<1>3. folio' \in [Reservations -> Levels]
  BY DEF Furthers, TypeOK, TablesOK
<1>4. TablesOK'
  BY <1>1, <1>2, <1>3 DEF Furthers, TypeOK, TablesOK, upkeep
<1>5. fate' = [fate EXCEPT ![r] = "overtaken"] /\ \E to \in Stages : stage' = [stage EXCEPT ![r] = to]
  BY DEF Furthers
<1> QED BY <1>4, <1>5, HistoryType DEF Fates

LEMMA StageMoveType ==
  ASSUME TypeOK, NEW h \in Handlers, RememberRaces, handler' \in [Handlers -> HandlerRow],
         CommitJourney(h)
  PROVE  TypeOK'
<1>1. handler[h].res \in Reservations /\ handler[h].to \in Stages
  BY JobRows DEF CommitJourney, TypeOK, Stages
<1>2. TablesOK'
  BY StutterType DEF CommitJourney, TypeOK
<1> QED BY <1>1, <1>2, HistoryType DEF CommitJourney, Fates

LEMMA CardJobType ==
  ASSUME TypeOK, NEW h \in Handlers, RememberRaces, handler' \in [Handlers -> HandlerRow],
         CommitInspection(h) \/ CommitRoomStatus(h) \/ BlockRoom(h) \/ CommitClosure(h) \/ Abort(h)
  PROVE  TypeOK'
<1>1. CASE CommitInspection(h)
  BY <1>1, InspectionType, SameHistoryType DEF CommitInspection, TypeOK
<1>2. CASE CommitRoomStatus(h)
  <2>1. handler[h].status \in {"ready", "dirty", "out"}
    BY <1>2, JobRows DEF CommitRoomStatus, TypeOK
  <2> QED BY <1>2, <2>1, RoomStatusType, SameHistoryType DEF CommitRoomStatus, TypeOK
<1>3. CASE BlockRoom(h)
  BY <1>3, RoomStatusType, SameHistoryType DEF BlockRoom, TypeOK
<1>4. CASE CommitClosure(h)
  BY <1>4, ClosureType, SameHistoryType DEF CommitClosure, TypeOK
<1>5. CASE Abort(h)
  BY <1>5, StutterType, SameHistoryType DEF Abort, TypeOK
<1> QED BY <1>1, <1>2, <1>3, <1>4, <1>5

\* A handler begins or looks: it changes no table but opens a ticket perhaps.
OnlyLooks(h) ==
  \/ HandlerLook(h)
  \/ \E r \in Reservations :
       \/ StartPayment(h, r)
       \/ StartFurtherBooking(h, r)
       \/ \E job \in {"advance", "lose", "cancel"} : StartJourney(h, r, job)
  \/ \E t \in Tasks : StartInspection(h, t)
  \/ \E rm \in Rooms, status \in {"ready", "dirty", "out"} : StartRoomStatus(h, rm, status)
  \/ \E k \in Tickets : StartClosure(h, k)

LEMMA OnlyLooksIsQuiet ==
  ASSUME NEW h \in Handlers, OnlyLooks(h)
  PROVE  UNCHANGED <<vars, stage, fate>>
  BY DEF OnlyLooks, HandlerLook, FindReservation, InspectionLooksForGuest, RoomStatusLooksForTicket,
         ClosureLooksForGuest, StartPayment, StartFurtherBooking, StartJourney, StartInspection,
         StartRoomStatus, StartClosure

LEMMA NextType == TypeOK /\ [Next]_deskVars => TypeOK'
<1> SUFFICES ASSUME TypeOK, [Next]_deskVars PROVE TypeOK'
  OBVIOUS
<1>1. CASE UNCHANGED deskVars
  BY <1>1, StutterType DEF TypeOK, deskVars
<1>2. CASE Next
  <2>0. RememberRaces /\ DeskStep
    BY <1>2 DEF Next
  <2>1. CASE LockedStep
    BY <2>0, <2>1, LockedType
  <2>2. ASSUME NEW r \in Reservations, ExpireUnpaid(r) PROVE TypeOK'
    <3>1. TablesOK'
      BY <2>2, ExpireType DEF ExpireUnpaid, TypeOK
    <3>2. fate' \in {fate, [fate EXCEPT ![r] = "expired"]} /\ UNCHANGED <<handler, stage>>
      BY <2>2 DEF ExpireUnpaid
    <3> QED BY <2>0, <2>2, <3>1, <3>2, HistoryType DEF TypeOK, Fates, Stages
  <2>3. ASSUME NEW k \in Tickets, NEW rm \in Rooms, OpenTicket(k, rm) PROVE TypeOK'
    BY <2>0, <2>3, TicketType, SameHistoryType DEF OpenTicket, TypeOK
  <2>4. ASSUME NEW h \in Handlers, HandlerStart(h) \/ HandlerLook(h) PROVE TypeOK'
    <3>1. handler' \in [Handlers -> HandlerRow]
      BY <2>4, StartType, LookType
    <3>2. CASE OnlyLooks(h)
      BY <2>0, <3>1, <3>2, OnlyLooksIsQuiet, StutterType, SameHistoryType DEF TypeOK
    <3>3. ASSUME NEW k \in Tickets, NEW rm \in Rooms, OpenBlockingTicket(h, k, rm) PROVE TypeOK'
      BY <2>0, <3>1, <3>3, TicketType, SameHistoryType DEF OpenBlockingTicket, TypeOK
    <3> QED BY <2>4, <3>2, <3>3 DEF HandlerStart, OnlyLooks
  <2>5. ASSUME NEW h \in Handlers, HandlerEnd(h) PROVE TypeOK'
    <3>1. handler' \in [Handlers -> HandlerRow]
      BY <2>5, EndType
    <3> QED BY <2>0, <2>5, <3>1, ConfirmationType, CancellationType, FurtherType, StageMoveType, CardJobType DEF HandlerEnd
  <2> QED BY <2>0, <2>1, <2>2, <2>3, <2>4, <2>5 DEF DeskStep
<1> QED BY <1>1, <1>2

LEMMA InitType == DeskInit => TypeOK
<1> SUFFICES ASSUME DeskInit PROVE TypeOK
  OBVIOUS
<1>1. TablesOK
  BY InitTables DEF DeskInit
<1> QED BY <1>1, IdleIsHandlerRow DEF DeskInit, TypeOK, Stages, Fates

\* Whatever the requests do, in whatever order the unlocked handlers' statements come,
\* the tables keep the columns and enum values the desk reads: TypeOK of the runs, for
\* every value of the constants.
THEOREM TypeCorrect == Spec => []TypeOK
  BY InitType, NextType, PTL DEF Spec

-----------------------------------------------------------------------------
(* What the invariant says of one reservation, of two, of the handlers in   *)
(* flight and of the cards                                                   *)

Own(r) ==
  /\ res[r].status = "absent" => stage[r] = "none" /\ fate[r] = "regular" /\ stay[r].op = "none"
  /\ fate[r] = "expired" => ~Open(r)
  /\ fate[r] = "dropped" => res[r].status = "cancelled"
  /\ InHouse(r) => res[r].status \in {"confirmed", "cancelled"}
  /\ Regular(r) /\ ~Open(r) => Holding(r) = {} /\ ~InHouse(r)
  /\ Sound(r) =>
       /\ InHouse(r) =>
            /\ Holding(r) = {stay[r].room}
            /\ unit[r][stay[r].room].status = "active"
            /\ res[r].status = IF fate[r] = "dropped" THEN "cancelled" ELSE "confirmed"
       /\ Open(r) => res[r].arr < res[r].dep
       /\ \A rm \in Holding(r) :
            /\ unit[r][rm].arr < unit[r][rm].dep
            /\ unit[r][rm].dep = res[r].dep
            /\ unit[r][rm].status = "assigned" => unit[r][rm].arr = res[r].arr /\ ~InHouse(r)
            /\ unit[r][rm].status = "active" =>
                 InHouse(r) /\ (unit[r][rm].arr <= now \/ unit[r][rm].arr = res[r].arr)

NoClash(r) == \A q \in Reservations \ {r} : \A rm \in Holding(r) :
  Sound(r) /\ Live(r) /\ Sound(q) /\ Live(q) /\ rm \in Holding(q)
    => ~Overlap(unit[r][rm].arr, unit[r][rm].dep, unit[q][rm].arr, unit[q][rm].dep)

\* What a handler has seen is on record, and no receipt in flight has seen an expired
\* hold unpaid.
InFlight == \A h \in Handlers :
  /\ \/ handler[h].job \in {"pay", "advance", "lose", "cancel"}
     \/ handler[h].job = "further" /\ handler[h].found
     => res[handler[h].res].status # "absent"
  /\ handler[h].job = "pay" /\ handler[h].status = "pending_payment"
       => fate[handler[h].res] # "expired"

CardsTrue == OccupiedIsNotVacant /\ MissedAreRaced

\* The relations between the tables, without the handlers' notes and the cards' status.
BookInv ==
  /\ TypeOK
  /\ \A r \in Reservations : Own(r) /\ NoClash(r)
  /\ RoomCardNamesOccupant
  /\ OneOccupant

LEMMA ActiveIsHeld ==
  ASSUME NEW r \in Reservations, NEW rm \in Rooms, unit[r][rm].status = "active"
  PROVE  rm \in Holding(r)
  BY DEF Holding

LEMMA InvIsParts == DeskInv <=> BookInv /\ InFlight /\ CardsTrue
<1>1. ASSUME DeskInv, NEW r \in Reservations PROVE Own(r)
  BY <1>1 DEF DeskInv, Own, ClosedHoldsNothing, OccupantHoldsUnit, UnitFollowsReservation,
              DatesInOrder, Holding, NotBookedIsRegular, ExpiredIsClosed, DroppedIsCancelled,
              OccupantIsBooked
<1>2. ASSUME DeskInv, NEW r \in Reservations PROVE NoClash(r)
  BY <1>2 DEF DeskInv, NoClash, NoDoubleBooking, Holding
<1>3. ASSUME DeskInv PROVE InFlight
  <2>1. \A h \in Handlers : handler[h].job = "pay" => handler[h].res \in Reservations
    BY <1>3, JobRows DEF DeskInv, TypeOK
  <2> QED BY <1>3, <2>1 DEF DeskInv, InFlight, HandlersOnRecord, ExpiredIsClosed
<1>4. ASSUME BookInv PROVE NoDoubleBooking
  BY <1>4 DEF BookInv, NoDoubleBooking, NoClash
<1>5. ASSUME BookInv
      PROVE  /\ ClosedHoldsNothing /\ OccupantHoldsUnit /\ UnitFollowsReservation
             /\ NotBookedIsRegular /\ DroppedIsCancelled /\ OccupantIsBooked
  BY <1>5 DEF BookInv, Own, ClosedHoldsNothing, OccupantHoldsUnit, UnitFollowsReservation,
              NotBookedIsRegular, DroppedIsCancelled, OccupantIsBooked
<1>6. ASSUME BookInv PROVE DatesInOrder
  BY <1>6, ActiveIsHeld DEF BookInv, Own, DatesInOrder
<1>7. ASSUME BookInv, InFlight PROVE ExpiredIsClosed /\ HandlersOnRecord
  BY <1>7 DEF BookInv, Own, InFlight, ExpiredIsClosed, HandlersOnRecord
<1>8. DeskInv => BookInv /\ InFlight /\ CardsTrue
  BY <1>1, <1>2, <1>3 DEF DeskInv, BookInv, CardsTrue
<1>9. BookInv /\ InFlight /\ CardsTrue => DeskInv
  BY <1>4, <1>5, <1>6, <1>7 DEF DeskInv, BookInv, CardsTrue
<1> QED BY <1>8, <1>9

\* A step that leaves the rows of every other reservation alone.
Only(r) == \A q \in Reservations \ {r} :
  /\ res'[q] = res[q] /\ unit'[q] = unit[q] /\ stay'[q] = stay[q]
  /\ stage'[q] = stage[q] /\ fate'[q] = fate[q]

LEMMA OneReservation ==
  ASSUME BookInv, TypeOK', NEW r \in Reservations, Only(r), now' = now,
         Own(r)', NoClash(r)', RoomCardNamesOccupant', OneOccupant'
  PROVE  BookInv'
<1>1. ASSUME NEW q \in Reservations \ {r} PROVE Own(q)'
  <2>1. Own(q)
    BY DEF BookInv
  <2> QED BY <2>1 DEF Only, Own, Open, InHouse, Holding, Sound, Regular
<1>2. ASSUME NEW q \in Reservations \ {r} PROVE NoClash(q)'
  <2>1. NoClash(q)
    BY DEF BookInv
  <2> SUFFICES ASSUME NEW p \in Reservations \ {q}, NEW rm \in Holding(q)',
                      (Sound(q) /\ Live(q) /\ Sound(p) /\ Live(p))', rm \in Holding(p)'
               PROVE  ~Overlap(unit'[q][rm].arr, unit'[q][rm].dep, unit'[p][rm].arr, unit'[p][rm].dep)
    BY DEF NoClash
  <2>2. CASE p = r
    BY <2>2 DEF NoClash, Overlap
  <2>3. CASE p # r
    BY <2>1, <2>3 DEF NoClash, Only, Open, InHouse, Live, Sound, Holding
  <2> QED BY <2>2, <2>3
<1>3. (\A q \in Reservations : Own(q) /\ NoClash(q))'
  BY <1>1, <1>2
<1> QED BY <1>3 DEF BookInv

\* Nothing is said of a reservation that a stale read has met but that a guest in it is
\* in a confirmed or cancelled one.
LEMMA UnsoundNext ==
  ASSUME NEW r \in Reservations, ~Sound(r)', res'[r].status # "absent",
         InHouse(r)' => res'[r].status \in {"confirmed", "cancelled"}
  PROVE  Own(r)' /\ NoClash(r)'
  BY DEF Own, NoClash, Sound, Regular

-----------------------------------------------------------------------------
(* Steps that leave bookings, stays and the names on the cards alone *)

LEMMA InvFrame ==
  ASSUME BookInv, TypeOK', UNCHANGED <<res, unit, stay, fate>>, now <= now',
         \A rm \in Rooms : room'[rm].guest = room[rm].guest,
         \A r \in Reservations : res[r].status = "absent" => stage'[r] = stage[r]
  PROVE  BookInv'
<1>1. ASSUME NEW r \in Reservations PROVE Own(r)'
  <2>1. Own(r)
    BY DEF BookInv
  <2>2. \A rm \in Rooms : unit[r][rm].arr \in Int
    BY DEF BookInv, TypeOK, TablesOK, UnitRow, Times
  <2>3. now \in Int /\ now' \in Int
    BY DEF BookInv, TypeOK, TablesOK, Times
  <2> QED BY <2>1, <2>2, <2>3 DEF Own, Open, InHouse, Holding, Sound, Regular
<1>2. ASSUME NEW r \in Reservations PROVE NoClash(r)'
  BY DEF BookInv, NoClash, Open, InHouse, Live, Sound, Holding
<1>3. RoomCardNamesOccupant' /\ OneOccupant'
  BY DEF BookInv, RoomCardNamesOccupant, OneOccupant, InHouse, Sound
<1> QED BY <1>1, <1>2, <1>3 DEF BookInv

LEMMA NowIsOrdered == TypeOK => now <= now
  BY DEF TypeOK, TablesOK, Times

\* A new status on a card leaves the names alone.
LEMMA NamesKept ==
  ASSUME TypeOK, NEW x, NEW status, room' = [room EXCEPT ![x].status = status]
  PROVE  \A rm \in Rooms : room'[rm].guest = room[rm].guest
  BY DEF TypeOK, TablesOK, RoomRow

LEMMA InvCardJob ==
  ASSUME BookInv, TypeOK', NEW h \in Handlers,
         CommitInspection(h) \/ CommitRoomStatus(h) \/ BlockRoom(h) \/ CommitClosure(h)
  PROVE  BookInv'
<1>1. UNCHANGED <<now, res, unit, stay, stage, fate>>
  BY DEF CommitInspection, RecordInspection, CommitRoomStatus, BlockRoom, RecordRoomStatus,
         CommitClosure, RecordClosure
<1>2. room' = room \/ \E x, status : room' = [room EXCEPT ![x].status = status]
  BY DEF CommitInspection, RecordInspection, CommitRoomStatus, BlockRoom, RecordRoomStatus,
         CommitClosure, RecordClosure
<1>3. \A rm \in Rooms : room'[rm].guest = room[rm].guest
  BY <1>2, NamesKept DEF BookInv
<1> QED BY <1>1, <1>3, NowIsOrdered, InvFrame DEF BookInv

\* The steps that write no booking, stay or card, and not the clock.
Aside(h) ==
  \/ OnlyLooks(h)
  \/ \E k \in Tickets, rm \in Rooms : OpenBlockingTicket(h, k, rm)
  \/ Abort(h)

LEMMA InvAside ==
  ASSUME BookInv, TypeOK', NEW h \in Handlers, Aside(h)
  PROVE  BookInv' /\ UNCHANGED <<now, res, unit, stay, room, stage, fate>>
<1>1. UNCHANGED <<now, res, unit, stay, room, stage, fate>>
  BY OnlyLooksIsQuiet DEF Aside, OpenBlockingTicket, RecordTicket, Abort, vars
<1> QED BY <1>1, NowIsOrdered, InvFrame DEF BookInv

LEMMA InvJourney ==
  ASSUME BookInv, InFlight, TypeOK', NEW h \in Handlers, CommitJourney(h)
  PROVE  BookInv'
<1>1. UNCHANGED <<now, res, unit, stay, room, fate>>
  BY DEF CommitJourney, vars
<1>2. \A r \in Reservations : res[r].status = "absent" => stage'[r] = stage[r]
  <2>1. res[handler[h].res].status # "absent"
    BY DEF InFlight, CommitJourney
  <2> QED BY <2>1 DEF CommitJourney, BookInv, TypeOK
<1> QED BY <1>1, <1>2, NowIsOrdered, InvFrame DEF BookInv

LEMMA InvHouse ==
  ASSUME BookInv, TypeOK', UNCHANGED <<stage, fate>>,
         \/ \E r \in Reservations : AccountStep(r)
         \/ \E rm \in Rooms : CreateCleaning(rm)
         \/ \E t \in Tasks : CleaningStep(t)
         \/ \E k \in Tickets : ReopenTicket(k)
         \/ \E k \in Tickets, rm \in Rooms : OpenTicket(k, rm)
         \/ Tick
         \/ UNCHANGED vars
  PROVE  BookInv' /\ UNCHANGED <<res, unit, stay, room>>
<1>1. UNCHANGED <<res, unit, stay, room>>
  BY DEF AccountStep, AddStayPayment, AddLeadPayment, BookService, ChangeServiceStatus,
         CreateCleaning, CleaningStep, ChangeCleaning, ReopenTicket, OpenTicket, RecordTicket, Tick, vars
<1>2. now' = now \/ now' = now + 1
  BY DEF AccountStep, AddStayPayment, AddLeadPayment, BookService, ChangeServiceStatus,
         CreateCleaning, CleaningStep, ChangeCleaning, ReopenTicket, OpenTicket, RecordTicket, Tick, vars
<1>3. now <= now'
  BY <1>2 DEF BookInv, TypeOK, TablesOK, Times
<1> QED BY <1>1, <1>3, InvFrame

-----------------------------------------------------------------------------
(* What the availability check gives, and what stays when nobody comes or goes *)

\* No party at the desk that no stale read has met has a clashing assignment of a cabin
\* that is available: an open reservation's are looked for, and the cabin of a guest in
\* house is not available at all.
LEMMA AvailableIsClear ==
  ASSUME BookInv, NEW r \in Reservations, NEW rm \in Rooms, NEW a, NEW d, RoomAvailable(rm, a, d, r),
         NEW q \in Reservations \ {r}, Sound(q), Live(q), rm \in Holding(q)
  PROVE  ~Overlap(unit[q][rm].arr, unit[q][rm].dep, a, d)
<1>1. CASE Open(q)
  BY <1>1 DEF RoomAvailable, Holding
<1>2. CASE InHouse(q)
  <2>1. stay[q].room = rm
    BY <1>2 DEF BookInv, Own
  <2> QED BY <1>2, <2>1 DEF RoomAvailable, LivedInByOther
<1> QED BY <1>1, <1>2 DEF Live

LEMMA CardsKept ==
  ASSUME BookInv, NEW r \in Reservations, Only(r),
         \A rm \in Rooms : room'[rm].guest = room[rm].guest,
         Sound(r)' => Sound(r) /\ (InHouse(r)' <=> InHouse(r)),
         Sound(r)' /\ InHouse(r) => stay'[r].room = stay[r].room
  PROVE  RoomCardNamesOccupant'
<1> SUFFICES ASSUME NEW rm \in Rooms, NEW q \in Reservations, Sound(q)'
             PROVE  room'[rm].guest = q <=> InHouse(q)' /\ stay'[q].room = rm
  BY DEF RoomCardNamesOccupant
<1>1. Sound(q) => (room[rm].guest = q <=> InHouse(q) /\ stay[q].room = rm)
  BY DEF BookInv, RoomCardNamesOccupant
<1>2. CASE q = r
  BY <1>1, <1>2 DEF InHouse
<1>3. CASE q # r
  BY <1>1, <1>3 DEF Only, InHouse, Sound
<1> QED BY <1>2, <1>3

LEMMA HomesKept ==
  ASSUME BookInv, NEW r \in Reservations, Only(r),
         InHouse(r)' => InHouse(r) /\ stay'[r].room = stay[r].room
  PROVE  OneOccupant'
<1> SUFFICES ASSUME NEW p \in Reservations, NEW q \in Reservations, p # q, InHouse(p)', InHouse(q)'
             PROVE  stay'[p].room # stay'[q].room
  BY DEF OneOccupant
<1>1. \A x \in {p, q} : InHouse(x) /\ stay'[x].room = stay[x].room
  BY DEF Only, InHouse
<1> QED BY <1>1 DEF BookInv, OneOccupant

LEMMA HomeTaken ==
  ASSUME BookInv, NEW r \in Reservations, Only(r), NEW rm, ~LivedInByOther(rm, r),
         stay'[r].room = rm
  PROVE  OneOccupant'
<1> SUFFICES ASSUME NEW p \in Reservations, NEW q \in Reservations, p # q, InHouse(p)', InHouse(q)'
             PROVE  stay'[p].room # stay'[q].room
  BY DEF OneOccupant
<1>1. \A x \in Reservations \ {r} : InHouse(x)' => InHouse(x) /\ stay'[x].room = stay[x].room /\ stay[x].room # rm
  BY DEF Only, InHouse, LivedInByOther
<1>2. CASE p = r \/ q = r
  BY <1>1, <1>2
<1>3. CASE p # r /\ q # r
  BY <1>1, <1>3 DEF BookInv, OneOccupant
<1> QED BY <1>2, <1>3

\* r is given cabin rm for the dates of its reservation, and no other.
LEMMA InvAssigned ==
  ASSUME BookInv, TypeOK', NEW r \in Reservations, NEW rm, NEW a \in Times, NEW d \in Times,
         Open(r) \/ res[r].status = "absent", ~InHouse(r), ~InHouse(r)', a < d,
         unit' = AssignOnly(r, rm, a, d), Only(r), UNCHANGED <<now, room, fate>>,
         Open(r)', res'[r].arr = a, res'[r].dep = d,
         rm \in Rooms => RoomAvailable(rm, a, d, r)
  PROVE  BookInv'
<1>0. fate[r] \in {"regular", "overtaken"}
  BY DEF BookInv, Own, Open, OpenStatuses, TypeOK, Fates
<1>1. \A x \in Rooms : unit'[r][x] =
        IF x = rm THEN [status |-> "assigned", arr |-> a, dep |-> d] ELSE Freed
  BY DEF AssignOnly, BookInv, TypeOK, TablesOK
<1>2. \A x \in Rooms : x \in Holding(r)' => x = rm
  BY <1>1 DEF Holding, Freed
<1>3. Own(r)'
  BY <1>0, <1>1, <1>2 DEF Own, Holding, Freed, Open, OpenStatuses
<1>4. NoClash(r)'
  <2> SUFFICES ASSUME NEW q \in Reservations \ {r}, NEW x \in Holding(r)',
                      (Sound(q) /\ Live(q))', x \in Holding(q)'
               PROVE  ~Overlap(unit'[r][x].arr, unit'[r][x].dep, unit'[q][x].arr, unit'[q][x].dep)
    BY DEF NoClash
  <2>1. x \in Rooms /\ x = rm /\ Sound(q) /\ Live(q) /\ x \in Holding(q) /\ unit'[q] = unit[q]
    BY <1>2 DEF Only, Open, InHouse, Live, Sound, Holding
  <2>2. ~Overlap(unit[q][rm].arr, unit[q][rm].dep, a, d)
    BY <2>1, AvailableIsClear
  <2> QED BY <1>1, <2>1, <2>2 DEF Overlap
<1>5. RoomCardNamesOccupant' /\ OneOccupant'
  BY CardsKept, HomesKept DEF Sound
<1> QED BY <1>3, <1>4, <1>5, OneReservation

\* r gives up its cabins without having lived in one.
LEMMA InvReleased ==
  ASSUME BookInv, TypeOK', NEW r \in Reservations, ~InHouse(r), ~InHouse(r)', ~Open(r)',
         res[r].status # "absent", res'[r].status # "absent",
         fate[r] = "dropped" => res'[r].status = "cancelled",
         unit' = Release(r), Only(r), UNCHANGED <<now, room>>,
         fate'[r] = fate[r] \/ (Sound(r) /\ fate'[r] = "expired")
  PROVE  BookInv'
<1>1. Holding(r)' = {}
  BY DEF Holding, Release, Freed, BookInv, TypeOK, TablesOK
<1>2. Own(r)' /\ NoClash(r)'
  BY <1>1 DEF Own, NoClash
<1>3. RoomCardNamesOccupant' /\ OneOccupant'
  BY CardsKept, HomesKept DEF Sound
<1> QED BY <1>2, <1>3, OneReservation

-----------------------------------------------------------------------------
(* Bookings, changes, cancellations and expiry *)

LEMMA InvBook ==
  ASSUME BookInv, TypeOK', NEW r \in Reservations, NEW a \in Times, NEW d \in Times,
         NEW paymentDue \in BOOLEAN, NEW rm \in Rooms \cup {NoRoom}, a < d,
         Book(r, a, d, paymentDue, rm), rm \in Rooms => RoomAvailable(rm, a, d, r),
         fate' = fate, \A q \in Reservations \ {r} : stage'[q] = stage[q]
  PROVE  BookInv'
<1>1. res[r].status = "absent" /\ ~InHouse(r) /\ ~InHouse(r)' /\ Open(r)'
  BY DEF Book, BookInv, Own, Open, InHouse, OpenStatuses, TypeOK, TablesOK
<1>2. Only(r) /\ res'[r].arr = a /\ res'[r].dep = d
  BY DEF Book, AssignOnly, Only, BookInv, TypeOK, TablesOK
<1>3. unit' = AssignOnly(r, rm, a, d) /\ UNCHANGED <<now, room, fate>>
  BY DEF Book
<1> QED BY <1>1, <1>2, <1>3, InvAssigned

LEMMA InvAssignUnit ==
  ASSUME BookInv, TypeOK', NEW r \in Reservations, NEW rm \in Rooms, AssignUnit(r, rm),
         fate' = fate, \A q \in Reservations \ {r} : stage'[q] = stage[q]
  PROVE  BookInv'
<1>1. ~InHouse(r) /\ ~InHouse(r)' /\ Open(r) /\ Open(r)'
  BY DEF AssignUnit, Arrived, InHouse, Open, BookInv, TypeOK, TablesOK
<1>2. Only(r)
  BY DEF AssignUnit, AssignOnly, Only, BookInv, TypeOK, TablesOK
<1>3. res[r].arr \in Times /\ res[r].dep \in Times
  BY DEF BookInv, TypeOK, TablesOK, ReservationRow
<1>4. /\ RoomAvailable(rm, res[r].arr, res[r].dep, r) /\ res' = res
      /\ unit' = AssignOnly(r, rm, res[r].arr, res[r].dep) /\ UNCHANGED <<now, room>>
  BY DEF AssignUnit, Sellable
<1>5. res[r].arr < res[r].dep
  BY <1>4 DEF RoomAvailable
<1> QED BY <1>1, <1>2, <1>3, <1>4, <1>5, InvAssigned

LEMMA InvUpdate ==
  ASSUME BookInv, TypeOK', NEW r \in Reservations, NEW a \in Times, NEW d \in Times,
         NEW status \in OpenStatuses, UpdateReservation(r, a, d, status),
         fate' = fate, \A q \in Reservations \ {r} : stage'[q] = stage[q]
  PROVE  BookInv'
<1>1. ~InHouse(r) /\ ~InHouse(r)'
  BY DEF UpdateReservation, Arrived, InHouse, BookInv, TypeOK, TablesOK
<1>2. Open(r) /\ Open(r)' /\ res'[r].arr = a /\ res'[r].dep = d /\ a < d
  BY DEF UpdateReservation, Patchable, Open, BookInv, TypeOK, TablesOK
<1>3. Only(r)
  BY DEF UpdateReservation, Only, BookInv, TypeOK, TablesOK
<1>4. \A rm \in Rooms : unit'[r][rm] =
        IF rm \in Holding(r) THEN [status |-> "assigned", arr |-> a, dep |-> d] ELSE Freed
  BY DEF UpdateReservation, BookInv, TypeOK, TablesOK
<1>5. Holding(r)' = Holding(r)
  BY <1>4 DEF Holding, Freed
<1>6. Own(r)'
  <2>1. fate[r] \in {"regular", "overtaken"} /\ fate'[r] = fate[r]
    BY <1>2 DEF BookInv, Own, Open, OpenStatuses, TypeOK, Fates
  <2> QED BY <1>1, <1>2, <1>4, <1>5, <2>1 DEF Own, Holding, Open, OpenStatuses
<1>7. NoClash(r)'
  <2> SUFFICES ASSUME NEW q \in Reservations \ {r}, NEW rm \in Holding(r)',
                      (Sound(q) /\ Live(q))', rm \in Holding(q)'
               PROVE  ~Overlap(unit'[r][rm].arr, unit'[r][rm].dep, unit'[q][rm].arr, unit'[q][rm].dep)
    BY DEF NoClash
  <2>1. /\ Sound(q) /\ Live(q) /\ rm \in Holding(q) /\ rm \in Holding(r) /\ rm \in Rooms
        /\ unit'[q] = unit[q]
    BY <1>3, <1>5 DEF Only, Open, InHouse, Live, Sound, Holding
  <2>2. RoomAvailable(rm, a, d, r)
    BY <2>1 DEF UpdateReservation, Sellable
  <2>3. ~Overlap(unit[q][rm].arr, unit[q][rm].dep, a, d)
    BY <2>1, <2>2, AvailableIsClear
  <2> QED BY <1>4, <2>1, <2>3 DEF Overlap
<1>8. RoomCardNamesOccupant' /\ OneOccupant' /\ now' = now
  BY <1>1, <1>3, CardsKept, HomesKept DEF UpdateReservation, Sound
<1> QED BY <1>3, <1>6, <1>7, <1>8, OneReservation

LEMMA InvClose ==
  ASSUME BookInv, TypeOK', NEW r \in Reservations, NEW status \in {"cancelled", "no_show"},
         CloseReservation(r, status),
         fate' = fate, \A q \in Reservations \ {r} : stage'[q] = stage[q]
  PROVE  BookInv'
<1>1. ~InHouse(r) /\ ~InHouse(r)'
  BY DEF CloseReservation, Arrived, InHouse, BookInv, TypeOK, TablesOK
<1>2. /\ ~Open(r)' /\ res'[r].status = status
      /\ res[r].status \in OpenStatuses \/ res[r].status = status
  BY DEF CloseReservation, Patchable, Open, OpenStatuses, BookInv, TypeOK, TablesOK, ReservationRow
<1>3. fate[r] = "dropped" => res'[r].status = "cancelled"
  BY <1>2 DEF BookInv, Own, OpenStatuses
<1>4. Only(r)
  BY DEF CloseReservation, Release, Only, BookInv, TypeOK, TablesOK
<1>5. unit' = Release(r) /\ UNCHANGED <<now, room>>
  BY DEF CloseReservation
<1>6. res[r].status # "absent" /\ res'[r].status # "absent"
  BY <1>2 DEF OpenStatuses
<1>7. fate'[r] = fate[r]
  OBVIOUS
<1> QED BY <1>1, <1>2, <1>3, <1>4, <1>5, <1>6, <1>7, InvReleased

LEMMA InvBooking ==
  ASSUME BookInv, TypeOK', NEW r \in Reservations, BookingMovesStage(r), fate' = fate
  PROVE  BookInv'
<1>0. \A q \in Reservations \ {r} : stage'[q] = stage[q]
  BY DEF BookingMovesStage, BookInv, TypeOK
<1>1. ASSUME NEW p \in Periods, NEW paymentDue \in BOOLEAN, NEW rm \in Rooms,
             BookRoom(r, p[1], p[2], paymentDue, rm)
      PROVE  BookInv'
  <2>1. RoomAvailable(rm, p[1], p[2], r) /\ p[1] < p[2]
    BY <1>1 DEF BookRoom, Sellable, RoomAvailable
  <2> QED BY <1>0, <1>1, <2>1, InvBook, RequestedPeriods DEF BookRoom
<1>2. ASSUME NEW p \in Periods, NEW paymentDue \in BOOLEAN,
             BookCategory(r, p[1], p[2], paymentDue)
      PROVE  BookInv'
  BY <1>1, <1>2 DEF BookCategory
<1>3. ASSUME NEW p \in Periods, BookUnassigned(r, p[1], p[2])
      PROVE  BookInv'
  <2>1. p[1] < p[2] /\ Book(r, p[1], p[2], FALSE, NoRoom)
    BY <1>3 DEF BookUnassigned
  <2>2. NoRoom \notin Rooms
    BY RoomNumbers
  <2> QED BY <1>0, <2>1, <2>2, InvBook, RequestedPeriods
<1>4. ASSUME NEW rm \in Rooms, AssignUnit(r, rm) PROVE BookInv'
  BY <1>0, <1>4, InvAssignUnit
<1>5. ASSUME NEW p \in PatchPeriods(r), NEW status \in OpenStatuses,
             UpdateReservation(r, p[1], p[2], status)
      PROVE  BookInv'
  BY <1>0, <1>5, InvUpdate, PatchPeriodsAreTimes DEF BookInv, TypeOK
<1>6. ASSUME NEW status \in {"cancelled", "no_show"}, CloseReservation(r, status)
      PROVE  BookInv'
  BY <1>0, <1>6, InvClose
<1> QED BY <1>1, <1>2, <1>3, <1>4, <1>5, <1>6 DEF BookingMovesStage, BookingStep

LEMMA InvExpire ==
  ASSUME BookInv, TypeOK', NEW r \in Reservations, ExpireUnpaid(r)
  PROVE  BookInv'
<1>1. res[r].status = "pending_payment" /\ res'[r].status = "cancelled" /\ stay'[r].op = "cancelled"
  BY DEF ExpireUnpaid, ExpireHold, BookInv, TypeOK, TablesOK, ReservationRow, StayRow
<1>2. ~InHouse(r) /\ ~InHouse(r)' /\ ~Open(r)' /\ Open(r)
  BY <1>1 DEF BookInv, Own, InHouse, Open, OpenStatuses
<1>3. Only(r)
  <2>1. \A q \in Reservations \ {r} : res'[q] = res[q] /\ unit'[q] = unit[q] /\ stay'[q] = stay[q]
    BY DEF ExpireUnpaid, ExpireHold, Release, BookInv, TypeOK, TablesOK
  <2>2. \A q \in Reservations \ {r} : stage'[q] = stage[q] /\ fate'[q] = fate[q]
    BY DEF ExpireUnpaid, BookInv, TypeOK
  <2> QED BY <2>1, <2>2 DEF Only
<1>4. fate'[r] = fate[r] \/ (Sound(r) /\ fate'[r] = "expired")
  BY DEF ExpireUnpaid, BookInv, TypeOK
<1>5. unit' = Release(r) /\ UNCHANGED <<now, room>>
  BY DEF ExpireUnpaid, ExpireHold
<1>6. fate[r] # "dropped"
  BY <1>1 DEF BookInv, Own
<1> QED BY <1>1, <1>2, <1>3, <1>4, <1>5, <1>6, InvReleased

-----------------------------------------------------------------------------
(* The handlers that write bookings from unlocked reads *)

LEMMA PaysOnly ==
  ASSUME TypeOK, NEW r \in Reservations, NEW seen, Pays(r, seen)
  PROVE  Only(r)
<1>1. \A q \in Reservations \ {r} : res'[q] = res[q] /\ unit'[q] = unit[q] /\ stay'[q] = stay[q]
  BY DEF Pays, RecordPayment, TypeOK, TablesOK
<1>2. \A q \in Reservations \ {r} : stage'[q] = stage[q] /\ fate'[q] = fate[q]
  BY DEF Pays, TypeOK
<1> QED BY <1>1, <1>2 DEF Only

\* A receipt either leaves the booking alone or confirms it, from what it had seen.
LEMMA PaysOrNot ==
  ASSUME TypeOK, NEW r \in Reservations, NEW seen, Pays(r, seen)
  PROVE  \/ UNCHANGED <<now, res, unit, stay, room, stage, fate>>
         \/ /\ UNCHANGED <<now, unit, room>>
            /\ seen = "pending_payment"
            /\ res'[r].status = "confirmed" /\ res'[r].arr = res[r].arr /\ res'[r].dep = res[r].dep
            /\ stay'[r].op = "upcoming" /\ stay'[r].room = stay[r].room
            /\ stage'[r] = "confirmed"
            /\ fate'[r] = IF res[r].status = "pending_payment" THEN fate[r] ELSE "overtaken"
<1> PICK level \in Levels : RecordPayment(r, seen, level)
  BY DEF Pays
<1>1. folio'[r] = level
  BY DEF RecordPayment, TypeOK, TablesOK
<1>2. CASE seen = "pending_payment" /\ level >= Deposited
  <2>1. res' = [res EXCEPT ![r].status = "confirmed", ![r].hold = NoHold]
        /\ stay' = [stay EXCEPT ![r].op = "upcoming"] /\ UNCHANGED <<now, unit, room>>
    BY <1>2 DEF RecordPayment
  <2>2. stage'[r] = "confirmed" /\ fate'[r] = IF res[r].status = "pending_payment" THEN fate[r] ELSE "overtaken"
    BY <1>1, <1>2 DEF Pays, TypeOK
  <2> QED BY <1>2, <2>1, <2>2 DEF TypeOK, TablesOK, ReservationRow, StayRow
<1>3. CASE ~(seen = "pending_payment" /\ level >= Deposited)
  BY <1>1, <1>3 DEF Pays, RecordPayment
<1> QED BY <1>2, <1>3

LEMMA InvPays ==
  ASSUME BookInv, TypeOK', NEW r \in Reservations, NEW seen, Pays(r, seen), res[r].status # "absent"
  PROVE  BookInv'
<1>0. Only(r)
  BY PaysOnly DEF BookInv
<1>1. CASE UNCHANGED <<now, res, unit, stay, room, stage, fate>>
  BY <1>1, NowIsOrdered, InvFrame DEF BookInv
<1>2. CASE /\ UNCHANGED <<now, unit, room>>
           /\ res'[r].status = "confirmed" /\ res'[r].arr = res[r].arr /\ res'[r].dep = res[r].dep
           /\ stay'[r].op = "upcoming" /\ stay'[r].room = stay[r].room
           /\ fate'[r] = IF res[r].status = "pending_payment" THEN fate[r] ELSE "overtaken"
  <2>1. ~InHouse(r)' /\ Open(r)'
    BY <1>2 DEF InHouse, Open, OpenStatuses
  <2>2. CASE res[r].status = "pending_payment"
    <3>1. ~InHouse(r) /\ Open(r) /\ fate'[r] = fate[r] /\ fate[r] \in {"regular", "overtaken"}
      BY <1>2, <2>2 DEF BookInv, Own, InHouse, Open, OpenStatuses, TypeOK, Fates
    <3>2. Own(r)'
      BY <1>2, <2>1, <3>1 DEF BookInv, Own, Holding, Sound
    <3>3. NoClash(r)'
      BY <1>0, <1>2, <2>1, <3>1 DEF BookInv, NoClash, Only, Open, InHouse, Live, Sound, Holding
    <3>4. RoomCardNamesOccupant' /\ OneOccupant'
      BY <1>0, <1>2, <2>1, <3>1, CardsKept, HomesKept DEF Sound
    <3> QED BY <1>0, <1>2, <3>2, <3>3, <3>4, OneReservation
  <2>3. CASE res[r].status # "pending_payment"
    <3>1. ~Sound(r)'
      BY <1>2, <2>3 DEF Sound
    <3>2. Own(r)' /\ NoClash(r)'
      BY <1>2, <2>1, <3>1, UnsoundNext
    <3>3. RoomCardNamesOccupant' /\ OneOccupant'
      BY <1>0, <1>2, <2>1, <3>1, CardsKept, HomesKept
    <3> QED BY <1>0, <1>2, <3>2, <3>3, OneReservation
  <2> QED BY <2>2, <2>3
<1> QED BY <1>1, <1>2, PaysOrNot DEF BookInv

LEMMA InvCancels ==
  ASSUME BookInv, TypeOK', NEW r \in Reservations, Cancels(r), res[r].status # "absent"
  PROVE  BookInv'
<1>1. Only(r)
  BY DEF Only, Cancels, BookInv, TypeOK, TablesOK
<1>2. /\ res'[r].status = "cancelled" /\ res'[r].dep = res[r].dep /\ res'[r].arr = res[r].arr
      /\ InHouse(r)' <=> InHouse(r)
      /\ stay'[r].room = stay[r].room
      /\ UNCHANGED <<now, unit, room>>
  BY DEF Cancels, InHouse, BookInv, TypeOK, TablesOK, ReservationRow, StayRow
<1>3. /\ ~Open(r)'
      /\ fate'[r] = IF fate[r] = "regular" /\ Open(r) THEN "dropped" ELSE fate[r]
      /\ fate[r] \in Fates
  BY <1>2 DEF Cancels, Open, OpenStatuses, BookInv, TypeOK
<1>4. Own(r)'
  BY <1>2, <1>3 DEF BookInv, Own, Holding, Sound, Regular, Fates
<1>5. NoClash(r)'
  BY <1>1, <1>2, <1>3 DEF BookInv, NoClash, Only, Open, InHouse, Live, Sound, Holding
<1>6. RoomCardNamesOccupant' /\ OneOccupant'
  BY <1>1, <1>2, <1>3, CardsKept, HomesKept DEF Sound
<1> QED BY <1>1, <1>2, <1>4, <1>5, <1>6, OneReservation

LEMMA InvFurthers ==
  ASSUME BookInv, TypeOK', NEW r \in Reservations, NEW rm \in Rooms, NEW a, NEW d,
         Furthers(r, rm, a, d), res[r].status # "absent"
  PROVE  BookInv'
<1>1. stay' = [stay EXCEPT ![r].room = rm] /\ UNCHANGED <<now, res, room>>
  BY DEF Furthers
<1>2. Only(r)
  BY DEF Only, Furthers, BookInv, TypeOK, TablesOK
<1>3. stay'[r].room = rm /\ (InHouse(r)' <=> InHouse(r))
  BY <1>1 DEF InHouse, BookInv, TypeOK, TablesOK, StayRow
<1>4. ~Sound(r)'
  BY DEF Furthers, Sound, BookInv, TypeOK
<1>5. Own(r)' /\ NoClash(r)'
  BY <1>1, <1>3, <1>4, UnsoundNext DEF BookInv, Own
<1>6. OneOccupant'
  BY <1>2, <1>3, HomeTaken DEF Furthers, Sellable, RoomAvailable
<1>7. RoomCardNamesOccupant'
  BY <1>1, <1>2, <1>4, CardsKept
<1> QED BY <1>1, <1>2, <1>5, <1>6, <1>7, OneReservation

-----------------------------------------------------------------------------
(* Arrivals, changes of a stay, and departures *)

\* r moves into cabin rm, alone, and leaves cabin from if it lived in one.
LEMMA CardsFollow ==
  ASSUME BookInv, NEW r \in Reservations, NEW rm \in Rooms, Only(r), fate' = fate,
         ~LivedInByOther(rm, r), InHouse(r)', stay'[r].room = rm, room'[rm].guest = r,
         \A x \in Rooms \ {rm} :
           \/ room'[x].guest = room[x].guest /\ ~(InHouse(r) /\ stay[r].room = x)
           \/ room'[x].guest = Nobody /\ InHouse(r) /\ stay[r].room = x
  PROVE  RoomCardNamesOccupant' /\ OneOccupant'
<1>1. OneOccupant'
  BY HomeTaken
<1> SUFFICES ASSUME NEW x \in Rooms, NEW q \in Reservations, Sound(q)'
             PROVE  room'[x].guest = q <=> InHouse(q)' /\ stay'[q].room = x
  BY <1>1 DEF RoomCardNamesOccupant
<1>2. room[x].guest = q <=> InHouse(q) /\ stay[q].room = x
  BY DEF BookInv, RoomCardNamesOccupant, Sound
<1>3. CASE q = r
  BY <1>2, <1>3, Guests
<1>4. CASE q # r
  <2>1. InHouse(q)' <=> InHouse(q)
    BY <1>4 DEF Only, InHouse
  <2>2. stay'[q] = stay[q]
    BY <1>4 DEF Only
  <2>3. CASE x = rm
    BY <1>4, <2>1, <2>2, <2>3 DEF LivedInByOther
  <2>4. CASE x # rm /\ room'[x].guest = room[x].guest
    BY <1>2, <2>1, <2>2, <2>4
  <2>5. CASE room'[x].guest = Nobody /\ InHouse(r) /\ stay[r].room = x
    BY <1>4, <2>1, <2>2, <2>5, Guests DEF BookInv, OneOccupant
  <2> QED BY <2>3, <2>4, <2>5
<1> QED BY <1>3, <1>4

LEMMA InvCheckIn ==
  ASSUME BookInv, NEW r \in Reservations, NEW readinessOverride \in BOOLEAN,
         CheckIn(r, readinessOverride), TypeOK', UNCHANGED <<stage, fate>>
  PROVE  BookInv'
<1> PICK rm \in Rooms :
      /\ res[r].status = "confirmed" /\ stay[r].op = "upcoming"
      /\ {q \in Rooms : unit[r][q].status = "assigned"} = {rm}
      /\ RoomAvailable(rm, res[r].arr, res[r].dep, r)
      /\ stay' = [stay EXCEPT ![r].op = "in_house", ![r].room = rm]
      /\ unit' = [unit EXCEPT ![r][rm].status = "active"]
      /\ room' = [room EXCEPT ![rm] = [status |-> "occupied", guest |-> r]]
      /\ UNCHANGED <<now, res>>
  BY DEF CheckIn
<1>1. Only(r)
  BY DEF Only, BookInv, TypeOK, TablesOK
<1>2. stay'[r].op = "in_house" /\ stay'[r].room = rm /\ InHouse(r)' /\ ~InHouse(r)
  BY DEF BookInv, TypeOK, TablesOK, StayRow, InHouse
<1>3. /\ \A x \in Rooms \ {rm} : unit'[r][x] = unit[r][x]
      /\ unit'[r][rm].status = "active"
      /\ unit'[r][rm].arr = unit[r][rm].arr /\ unit'[r][rm].dep = unit[r][rm].dep
  BY DEF BookInv, TypeOK, TablesOK, UnitRow
<1>4. Open(r) /\ Open(r)' /\ res'[r] = res[r] /\ now' = now /\ fate'[r] = fate[r]
  BY DEF Open, OpenStatuses
<1>5. Own(r)' /\ NoClash(r)'
  <2>1. CASE ~Sound(r)
    BY <1>4, <2>1, UnsoundNext DEF Sound
  <2>2. CASE Sound(r)
    <3>1. Holding(r) = {rm} /\ unit[r][rm].status = "assigned"
      <4>1. \A x \in Rooms : unit[r][x].status # "active"
        BY <1>2, <2>2, ActiveIsHeld DEF BookInv, Own
      <4>2. \A x \in Rooms : unit[r][x].status \in {"free", "assigned", "active"}
        BY DEF BookInv, TypeOK, TablesOK, UnitRow
      <4> QED BY <4>1, <4>2 DEF Holding
    <3>2. Holding(r)' = {rm}
      BY <1>3, <3>1 DEF Holding
    <3>3. /\ res[r].arr < res[r].dep /\ fate[r] \notin {"expired", "dropped"}
          /\ unit[r][rm].arr = res[r].arr /\ unit[r][rm].dep = res[r].dep
      BY <1>4, <2>2, <3>1 DEF BookInv, Own, Open, OpenStatuses
    <3>4. Own(r)'
      BY <1>2, <1>3, <1>4, <3>2, <3>3 DEF Own, Regular, Sound
    <3>5. NoClash(r)'
      BY <1>1, <1>3, <1>4, <2>2, <3>1, <3>2 DEF BookInv, NoClash, Only, Open, InHouse, Live, Sound, Holding
    <3> QED BY <3>4, <3>5
  <2> QED BY <2>1, <2>2
<1>6. RoomCardNamesOccupant' /\ OneOccupant'
  <2>1. ~LivedInByOther(rm, r)
    BY DEF RoomAvailable
  <2>2. room'[rm].guest = r /\ \A x \in Rooms \ {rm} : room'[x] = room[x]
    BY DEF BookInv, TypeOK, TablesOK
  <2> QED BY <1>1, <1>2, <2>1, <2>2, CardsFollow
<1> QED BY <1>1, <1>5, <1>6, OneReservation

LEMMA ResidentRow ==
  ASSUME BookInv, NEW r \in Reservations, Resident(r)
  PROVE  /\ stay[r].room \in Rooms /\ InHouse(r) /\ Open(r) /\ res[r].status = "confirmed"
         /\ Sound(r) =>
              /\ Holding(r) = {stay[r].room}
              /\ fate[r] \notin {"expired", "dropped"}
              /\ unit[r][stay[r].room].status = "active"
              /\ unit[r][stay[r].room].dep = res[r].dep
              /\ unit[r][stay[r].room].arr < res[r].dep /\ res[r].arr < res[r].dep
              /\ unit[r][stay[r].room].arr <= now \/ unit[r][stay[r].room].arr = res[r].arr
<1>1. stay[r].room \in Rooms
  BY ResidentHasRoom DEF BookInv, TypeOK
<1>2. InHouse(r) /\ Open(r) /\ res[r].status = "confirmed"
  BY DEF Resident, Open, OpenStatuses
<1>3. Sound(r) => Holding(r) = {stay[r].room} /\ unit[r][stay[r].room].status = "active"
  BY <1>2 DEF BookInv, Own
<1> QED BY <1>1, <1>2, <1>3 DEF BookInv, Own

\* An assignment that begins at b and ends at e may end at d instead, if <<a, d>> is
\* clear of the other's <<x, y>> and a is before e.
LEMMA StretchIsClear ==
  ASSUME NEW a \in Int, NEW b \in Int, NEW d \in Int, NEW e \in Int, NEW x \in Int, NEW y \in Int,
         x < y, a < e, ~Overlap(x, y, a, d), ~Overlap(b, e, x, y)
  PROVE  ~Overlap(b, d, x, y)
  BY DEF Overlap

\* A new departure after the present and after the start of the assignment.
LEMMA InvSetDeparture ==
  ASSUME BookInv, TypeOK', NEW r \in Reservations, NEW d \in Times, Resident(r),
         SetDeparture(r, d), d > res[r].dep \/ d > now, UNCHANGED <<now, room, stage, fate>>,
         \A q \in Reservations \ {r} : stay'[q] = stay[q],
         stay'[r].op = stay[r].op, stay'[r].room = stay[r].room
  PROVE  BookInv'
<1> DEFINE rm == stay[r].room
           u == unit[r][rm]
<1>1. Only(r)
  BY DEF SetDeparture, Only, BookInv, TypeOK, TablesOK
<1>2. rm \in Rooms /\ InHouse(r) /\ InHouse(r)' /\ Open(r) /\ fate'[r] = fate[r]
  BY ResidentRow DEF InHouse
<1>3. /\ \A x \in Rooms \ {rm} : unit'[r][x] = unit[r][x]
      /\ unit'[r][rm].status = u.status /\ unit'[r][rm].arr = u.arr /\ unit'[r][rm].dep = d
  BY <1>2 DEF SetDeparture, BookInv, TypeOK, TablesOK, UnitRow
<1>4. res'[r].status = "confirmed" /\ res'[r].arr = res[r].arr /\ res'[r].dep = d
  BY DEF SetDeparture, Resident, BookInv, TypeOK, TablesOK, ReservationRow
<1>5. RoomAvailable(rm, res[r].arr, d, r) /\ res[r].arr < d
  BY DEF SetDeparture, RoomAvailable
<1>6. Own(r)' /\ NoClash(r)'
  <2>1. CASE ~Sound(r)
    BY <1>2, <1>4, <2>1, UnsoundNext DEF Sound
  <2>2. CASE Sound(r)
    <3>1. /\ Holding(r) = {rm} /\ u.status = "active" /\ u.dep = res[r].dep
          /\ fate[r] \notin {"expired", "dropped"}
          /\ u.arr < res[r].dep /\ res[r].arr < res[r].dep /\ (u.arr <= now \/ u.arr = res[r].arr)
      BY <2>2, ResidentRow
    <3>2. Holding(r)' = {rm}
      BY <1>2, <1>3, <3>1 DEF Holding
    <3>3. /\ now \in Int /\ d \in Int /\ res[r].arr \in Int /\ res[r].dep \in Int /\ u.arr \in Int
          /\ \A q \in Reservations : unit[q][rm].arr \in Int /\ unit[q][rm].dep \in Int
      BY <1>2 DEF BookInv, TypeOK, TablesOK, Times, ReservationRow, UnitRow
    <3>4. u.arr < d
      BY <1>5, <3>1, <3>3
    <3>5. Own(r)'
      BY <1>2, <1>3, <1>4, <1>5, <3>1, <3>2, <3>4 DEF Own, Open, OpenStatuses, Regular
    <3>6. NoClash(r)'
      <4> SUFFICES ASSUME NEW q \in Reservations \ {r}, (Sound(q) /\ Live(q))', rm \in Holding(q)'
                   PROVE  ~Overlap(unit'[r][rm].arr, unit'[r][rm].dep, unit'[q][rm].arr, unit'[q][rm].dep)
        BY <3>2 DEF NoClash
      <4>1. Sound(q) /\ Live(q) /\ rm \in Holding(q) /\ unit'[q] = unit[q]
        BY <1>1 DEF Only, Open, InHouse, Live, Sound, Holding
      <4>2. ~Overlap(unit[q][rm].arr, unit[q][rm].dep, res[r].arr, d)
        BY <1>2, <1>5, <4>1, AvailableIsClear
      <4>3. ~Overlap(u.arr, u.dep, unit[q][rm].arr, unit[q][rm].dep)
        BY <1>2, <2>2, <3>1, <4>1 DEF BookInv, NoClash, Live
      <4>4. unit[q][rm].arr < unit[q][rm].dep
        BY <4>1 DEF BookInv, Own
      <4>5. ~Overlap(u.arr, d, unit[q][rm].arr, unit[q][rm].dep)
        BY <3>1, <3>3, <4>2, <4>3, <4>4, StretchIsClear
      <4> QED BY <1>3, <4>1, <4>5
    <3> QED BY <3>5, <3>6
  <2> QED BY <2>1, <2>2
<1>7. RoomCardNamesOccupant' /\ OneOccupant'
  BY <1>1, <1>2, CardsKept, HomesKept DEF Sound
<1> QED BY <1>1, <1>6, <1>7, OneReservation

LEMMA InvMoveRoom ==
  ASSUME BookInv, TypeOK', NEW r \in Reservations, NEW to \in Rooms, MoveRoom(r, to),
         UNCHANGED <<stage, fate>>
  PROVE  BookInv'
<1> DEFINE from == stay[r].room
<1>1. from \in Rooms /\ to # from /\ InHouse(r) /\ Open(r) /\ res[r].status = "confirmed"
  BY ResidentRow DEF MoveRoom
<1>2. Only(r)
  BY DEF MoveRoom, Only, BookInv, TypeOK, TablesOK
<1>3. RoomAvailable(to, now, res[r].dep, r) /\ now < res[r].dep
  BY DEF MoveRoom, Sellable, RoomAvailable
<1>4. \A x \in Rooms : unit'[r][x] =
        IF x = to THEN [status |-> "active", arr |-> now, dep |-> res[r].dep]
        ELSE IF x = from THEN Freed ELSE unit[r][x]
  BY <1>1 DEF MoveRoom, BookInv, TypeOK, TablesOK
<1>5. /\ stay'[r].op = "in_house" /\ stay'[r].room = to /\ InHouse(r)'
      /\ res' = res /\ now' = now /\ fate'[r] = fate[r]
  BY DEF MoveRoom, Resident, InHouse, BookInv, TypeOK, TablesOK, StayRow
<1>6. Own(r)' /\ NoClash(r)'
  <2>1. CASE ~Sound(r)
    BY <1>1, <1>5, <2>1, UnsoundNext DEF Sound
  <2>2. CASE Sound(r)
    <3>1. Holding(r) = {from} /\ fate[r] \notin {"expired", "dropped"} /\ res[r].arr < res[r].dep
      BY <2>2, ResidentRow DEF MoveRoom
    <3>2. Holding(r)' = {to}
      BY <1>1, <1>4, <3>1 DEF Holding, Freed
    <3>3. now <= now
      BY NowIsOrdered DEF BookInv
    <3>4. Own(r)'
      BY <1>1, <1>3, <1>4, <1>5, <3>1, <3>2, <3>3 DEF Own, Open, Regular
    <3>5. NoClash(r)'
      <4> SUFFICES ASSUME NEW q \in Reservations \ {r}, (Sound(q) /\ Live(q))', to \in Holding(q)'
                   PROVE  ~Overlap(unit'[r][to].arr, unit'[r][to].dep, unit'[q][to].arr, unit'[q][to].dep)
        BY <3>2 DEF NoClash
      <4>1. Sound(q) /\ Live(q) /\ to \in Holding(q) /\ unit'[q] = unit[q]
        BY <1>2 DEF Only, Open, InHouse, Live, Sound, Holding
      <4>2. ~Overlap(unit[q][to].arr, unit[q][to].dep, now, res[r].dep)
        BY <1>3, <4>1, AvailableIsClear
      <4> QED BY <1>4, <4>1, <4>2 DEF Overlap
    <3> QED BY <3>4, <3>5
  <2> QED BY <2>1, <2>2
<1>7. RoomCardNamesOccupant' /\ OneOccupant'
  <2>1. ~LivedInByOther(to, r)
    BY <1>3 DEF RoomAvailable
  <2>2. /\ room'[to].guest = r /\ room'[from].guest = Nobody
        /\ \A x \in Rooms \ {to, from} : room'[x] = room[x]
    BY <1>1 DEF MoveRoom, Vacated, BookInv, TypeOK, TablesOK
  <2> QED BY <1>1, <1>2, <1>5, <2>1, <2>2, CardsFollow
<1> QED BY <1>2, <1>5, <1>6, <1>7, OneReservation

LEMMA InvCheckOut ==
  ASSUME BookInv, TypeOK', NEW r \in Reservations, CheckOut(r), UNCHANGED <<stage, fate>>
  PROVE  BookInv'
<1> DEFINE rm == stay[r].room
<1>1. rm \in Rooms /\ InHouse(r) /\ res[r].status = "confirmed"
  BY ResidentRow DEF CheckOut
<1>2. Only(r) /\ now' = now
  BY DEF CheckOut, Release, Only, BookInv, TypeOK, TablesOK
<1>3. Holding(r)' = {}
  BY DEF CheckOut, Holding, Release, Freed, BookInv, TypeOK, TablesOK
<1>4. stay'[r].op = "checked_out" /\ res'[r].status = "completed" /\ ~InHouse(r)' /\ ~Open(r)'
  BY DEF CheckOut, BookInv, TypeOK, TablesOK, StayRow, ReservationRow, InHouse, Open, OpenStatuses
<1>5. Own(r)' /\ NoClash(r)'
  <2>1. fate'[r] = fate[r] /\ fate[r] # "dropped"
    BY <1>1 DEF BookInv, Own
  <2> QED BY <1>3, <1>4, <2>1 DEF Own, NoClash
<1>6. OneOccupant'
  BY <1>2, <1>4, HomesKept
<1>7. RoomCardNamesOccupant'
  <2>1. room'[rm].guest = Nobody /\ \A x \in Rooms \ {rm} : room'[x] = room[x]
    BY <1>1 DEF CheckOut, Vacated, BookInv, TypeOK, TablesOK
  <2> SUFFICES ASSUME NEW x \in Rooms, NEW q \in Reservations, Sound(q)'
               PROVE  room'[x].guest = q <=> InHouse(q)' /\ stay'[q].room = x
    BY DEF RoomCardNamesOccupant
  <2>2. room[x].guest = q <=> InHouse(q) /\ stay[q].room = x
    BY DEF BookInv, RoomCardNamesOccupant, Sound
  <2>3. CASE q = r
    BY <1>1, <1>4, <2>1, <2>2, <2>3, Guests
  <2>4. CASE q # r
    <3>1. InHouse(q)' <=> InHouse(q)
      BY <1>2, <2>4 DEF Only, InHouse
    <3>2. stay'[q] = stay[q]
      BY <1>2, <2>4 DEF Only
    <3>3. InHouse(q) => stay[q].room # rm
      BY <1>1, <2>4 DEF BookInv, OneOccupant
    <3> QED BY <2>1, <2>2, <3>1, <3>2, <3>3, Guests
  <2> QED BY <2>3, <2>4
<1> QED BY <1>2, <1>5, <1>6, <1>7, OneReservation

LEMMA InvResidence ==
  ASSUME BookInv, TypeOK', NEW r \in Reservations, ResidenceStep(r), UNCHANGED <<stage, fate>>
  PROVE  BookInv'
<1>1. ASSUME NEW readinessOverride \in BOOLEAN, CheckIn(r, readinessOverride) PROVE BookInv'
  BY <1>1, InvCheckIn
<1>2. ASSUME NEW d \in Times, ExtendStay(r, d) PROVE BookInv'
  <2>1. /\ \A q \in Reservations \ {r} : stay'[q] = stay[q]
        /\ stay'[r].op = stay[r].op /\ stay'[r].room = stay[r].room
    BY <1>2 DEF ExtendStay, BookInv, TypeOK, TablesOK, StayRow
  <2> QED BY <1>2, <2>1, InvSetDeparture DEF ExtendStay
<1>3. ASSUME NEW d \in Times, ChangeDepartureTime(r, d) PROVE BookInv'
  BY <1>3, InvSetDeparture DEF ChangeDepartureTime
<1>4. ASSUME NEW to \in Rooms, MoveRoom(r, to) PROVE BookInv'
  BY <1>4, InvMoveRoom
<1>5. CASE CheckOut(r)
  BY <1>5, InvCheckOut
<1>6. CASE RequestCleaning(r)
  <2>1. UNCHANGED <<now, res, unit, stay, room>>
    BY <1>6 DEF RequestCleaning
  <2> QED BY <2>1, NowIsOrdered, InvFrame DEF BookInv
<1> QED BY <1>1, <1>2, <1>3, <1>4, <1>5, <1>6 DEF ResidenceStep

-----------------------------------------------------------------------------
(* The handlers in flight *)

\* A reservation on record stays on record.
OnRecord == \A r \in Reservations : res'[r].status = "absent" => res[r].status = "absent"

LEMMA BookingOnRecord ==
  ASSUME TypeOK, NEW r \in Reservations, BookingStep(r)
  PROVE  OnRecord
<1> USE DEF TypeOK, TablesOK, OnRecord
<1>1. ASSUME NEW a, NEW d, NEW paymentDue, NEW rm, Book(r, a, d, paymentDue, rm) PROVE OnRecord
  BY <1>1 DEF Book
<1>2. ASSUME NEW rm, AssignUnit(r, rm) PROVE OnRecord
  BY <1>2 DEF AssignUnit
<1>3. ASSUME NEW a, NEW d, NEW status \in OpenStatuses, UpdateReservation(r, a, d, status) PROVE OnRecord
  BY <1>3 DEF UpdateReservation, OpenStatuses
<1>4. ASSUME NEW status \in {"cancelled", "no_show"}, CloseReservation(r, status) PROVE OnRecord
  BY <1>4 DEF CloseReservation, ReservationRow
<1> QED BY <1>1, <1>2, <1>3, <1>4 DEF BookingStep, BookRoom, BookCategory, BookUnassigned

LEMMA ResidenceOnRecord ==
  ASSUME TypeOK, NEW r \in Reservations, ResidenceStep(r)
  PROVE  OnRecord
<1> USE DEF TypeOK, TablesOK, OnRecord
<1>1. ASSUME NEW d \in Times, SetDeparture(r, d) PROVE OnRecord
  BY <1>1 DEF SetDeparture, ReservationRow
<1>2. CASE res' = res
  BY <1>2
<1>3. CASE CheckOut(r)
  BY <1>3 DEF CheckOut, ReservationRow
<1> QED BY <1>1, <1>2, <1>3
        DEF ResidenceStep, CheckIn, ExtendStay, ChangeDepartureTime, MoveRoom, RequestCleaning

LEMMA LockedOnRecord ==
  ASSUME TypeOK, LockedStep
  PROVE  OnRecord
<1>1. ASSUME NEW r \in Reservations, BookingMovesStage(r) \/ ResidenceStep(r) PROVE OnRecord
  BY <1>1, BookingOnRecord, ResidenceOnRecord DEF BookingMovesStage
<1>2. ASSUME UNCHANGED res PROVE OnRecord
  BY <1>2 DEF OnRecord
<1>3. ASSUME \/ \E r \in Reservations : AccountStep(r)
             \/ \E rm \in Rooms : CreateCleaning(rm)
             \/ \E t \in Tasks : CleaningStep(t)
             \/ \E k \in Tickets : ReopenTicket(k)
             \/ Tick
      PROVE  UNCHANGED res
  BY <1>3 DEF AccountStep, AddStayPayment, AddLeadPayment, BookService, ChangeServiceStatus,
              CreateCleaning, CleaningStep, ChangeCleaning, ReopenTicket, Tick
<1> QED BY <1>1, <1>2, <1>3 DEF LockedStep

LEMMA InFlightKept ==
  ASSUME TypeOK, InFlight, OnRecord,
         \A h \in Handlers : handler'[h] = handler[h] \/ handler'[h] = Idle,
         \A r \in Reservations : fate'[r] = "expired" => fate[r] = "expired" \/ ~Paying(r)
  PROVE  InFlight'
<1> SUFFICES ASSUME NEW h \in Handlers
             PROVE  /\ \/ handler'[h].job \in {"pay", "advance", "lose", "cancel"}
                       \/ handler'[h].job = "further" /\ handler'[h].found
                       => res'[handler'[h].res].status # "absent"
                    /\ handler'[h].job = "pay" /\ handler'[h].status = "pending_payment"
                         => fate'[handler'[h].res] # "expired"
  BY DEF InFlight
<1>1. CASE handler'[h] = Idle
  BY <1>1 DEF Idle
<1>2. CASE handler'[h] = handler[h] /\ handler[h].job \in {"pay", "advance", "lose", "cancel", "further"}
  <2>1. handler[h].res \in Reservations
    BY <1>2, JobRows DEF TypeOK
  <2> QED BY <1>2, <2>1 DEF InFlight, OnRecord, Paying
<1>3. CASE handler'[h] = handler[h] /\ handler[h].job \notin {"pay", "advance", "lose", "cancel", "further"}
  BY <1>3
<1> QED BY <1>1, <1>2, <1>3

\* A handler that begins or looks notes what is on record.
LEMMA InFlightLooks ==
  ASSUME DeskInv, NEW h \in Handlers, OnlyLooks(h)
  PROVE  InFlight'
<1> DEFINE Noted(row) ==
             /\ \/ row.job \in {"pay", "advance", "lose", "cancel"}
                \/ row.job = "further" /\ row.found
                => res[row.res].status # "absent"
             /\ row.job = "pay" /\ row.status = "pending_payment" => fate[row.res] # "expired"
<1>0. UNCHANGED <<vars, stage, fate>>
  BY OnlyLooksIsQuiet
<1>1. ASSUME NEW row, handler' = [handler EXCEPT ![h] = row], Noted(row) PROVE InFlight'
  <2> HIDE DEF Noted
  <2>1. \A x \in Handlers : Noted(handler[x])
    BY InvIsParts DEF InFlight, Noted
  <2>2. \A x \in Handlers : Noted(handler'[x])
    BY <1>1, <2>1 DEF DeskInv, TypeOK
  <2> QED BY <1>0, <2>2 DEF InFlight, Noted, vars
<1>2. ASSUME NEW r \in Reservations, StartPayment(h, r) PROVE InFlight'
  <2>1. fate[r] = "expired" => res[r].status # "pending_payment"
    BY DEF DeskInv, ExpiredIsClosed, Open, OpenStatuses
  <2> QED BY <1>1, <1>2, <2>1 DEF StartPayment, Payable, Begin
<1>3. ASSUME NEW r \in Reservations, StartFurtherBooking(h, r) PROVE InFlight'
  BY <1>1, <1>3 DEF StartFurtherBooking, Begin
<1>4. ASSUME NEW r \in Reservations, NEW job \in {"advance", "lose", "cancel"}, StartJourney(h, r, job)
      PROVE  InFlight'
  <2>1. res[r].status # "absent"
    BY <1>4 DEF StartJourney, DeskInv, NotBookedIsRegular
  <2> QED BY <1>1, <1>4, <2>1 DEF StartJourney, Begin
<1>5. ASSUME NEW t \in Tasks, StartInspection(h, t) PROVE InFlight'
  <2> DEFINE free == ~Blocked(task[t].room)
             row == [job |-> "inspect", task |-> t, room |-> task[t].room, looked |-> FALSE, free |-> free]
  <2>1. handler' = [handler EXCEPT ![h] = row]
    BY <1>5 DEF StartInspection, Begin
  <2>2. Noted(row)
    <3> HIDE DEF free
    <3> QED OBVIOUS
  <2> HIDE DEF row
  <2> QED BY <1>1, <2>1, <2>2
<1>6. ASSUME NEW rm \in Rooms, NEW status, StartRoomStatus(h, rm, status) PROVE InFlight'
  BY <1>1, <1>6 DEF StartRoomStatus, Begin
<1>7. ASSUME NEW k \in Tickets, StartClosure(h, k) PROVE InFlight'
  BY <1>1, <1>7 DEF StartClosure, Begin
<1>8. CASE FindReservation(h)
  BY <1>1, <1>8 DEF FindReservation
<1>9. CASE InspectionLooksForGuest(h) \/ RoomStatusLooksForTicket(h) \/ ClosureLooksForGuest(h)
  <2>1. handler[h].job \in {"inspect", "mark", "close"} /\ handler[h] \in HandlerRow
    BY <1>9 DEF InspectionLooksForGuest, RoomStatusLooksForTicket, ClosureLooksForGuest, DeskInv, TypeOK
  <2> DEFINE SameJob(row) == handler' = [handler EXCEPT ![h] = row] /\ row.job = handler[h].job
  <2>2. \E row : SameJob(row)
    <3>1. CASE InspectionLooksForGuest(h)
      <4> DEFINE free == handler[h].free /\ ~OccupiedBySomeone(handler[h].room)
                 row == [[handler[h] EXCEPT !.looked = TRUE] EXCEPT !.free = free]
      <4>1. handler' = [handler EXCEPT ![h] = row]
        BY <3>1 DEF InspectionLooksForGuest, DeskInv, TypeOK
      <4>2. row.job = handler[h].job
        <5> HIDE DEF free
        <5> QED BY <2>1, <3>1, JobRows DEF InspectionLooksForGuest
      <4> QED BY <4>1, <4>2
    <3>2. CASE RoomStatusLooksForTicket(h)
      <4>1. SameJob([handler[h] EXCEPT !.looked = TRUE])
        BY <2>1, <3>2, JobRows DEF RoomStatusLooksForTicket, DeskInv, TypeOK
      <4> QED BY <4>1
    <3>3. CASE ClosureLooksForGuest(h)
      <4> DEFINE guest == OccupiedBySomeone(handler[h].room)
                 row == [[handler[h] EXCEPT !.looked = TRUE] EXCEPT !.guest = guest]
      <4>1. handler' = [handler EXCEPT ![h] = row]
        BY <3>3 DEF ClosureLooksForGuest, DeskInv, TypeOK
      <4>2. row.job = handler[h].job
        <5> HIDE DEF guest
        <5> QED BY <2>1, <3>3, JobRows DEF ClosureLooksForGuest
      <4> QED BY <4>1, <4>2
    <3> QED BY <1>9, <3>1, <3>2, <3>3
  <2> QED BY <1>1, <2>1, <2>2
<1> QED BY <1>2, <1>3, <1>4, <1>5, <1>6, <1>7, <1>8, <1>9 DEF OnlyLooks, HandlerLook

\* The statements that end a handler keep every reservation on record, and expire none.
LEMMA EndsKeepRecords ==
  ASSUME TypeOK, NEW h \in Handlers, HandlerEnd(h)
  PROVE  /\ OnRecord
         /\ handler' = [handler EXCEPT ![h] = Idle]
         /\ \A r \in Reservations : fate'[r] = "expired" => fate[r] = "expired"
<1> USE DEF TypeOK, TablesOK, OnRecord
<1>1. CASE CommitPayment(h)
  <2> PICK r \in Reservations : Pays(r, handler[h].status)
    BY <1>1, PaymentActs
  <2>1. \A q \in Reservations : q # r => res'[q] = res[q] /\ fate'[q] = fate[q]
    BY PaysOnly DEF Only
  <2>2. (res'[r].status = "absent" => res[r].status = "absent") /\ (fate'[r] = "expired" => fate[r] = "expired")
    BY PaysOrNot
  <2> QED BY <1>1, <2>1, <2>2 DEF CommitPayment, Finish
<1>2. CASE CommitCancellation(h)
  <2> PICK r \in Reservations : Cancels(r)
    BY <1>2, CancellationActs
  <2>1. OnRecord
    BY DEF Cancels, ReservationRow
  <2> QED BY <1>2, <2>1 DEF Cancels, CommitCancellation, Finish
<1>3. ASSUME NEW rm \in Rooms, AssignFurther(h, rm)
      PROVE  /\ OnRecord
             /\ handler' = [handler EXCEPT ![h] = Idle]
             /\ \A r \in Reservations : fate'[r] = "expired" => fate[r] = "expired"
  BY <1>3 DEF AssignFurther, Finish
<1>4. CASE CommitJourney(h) \/ Abort(h)
  BY <1>4 DEF CommitJourney, Abort, Finish, vars
<1>5. CASE CommitInspection(h) \/ CommitRoomStatus(h) \/ BlockRoom(h) \/ CommitClosure(h)
  BY <1>5 DEF CommitInspection, RecordInspection, CommitRoomStatus, BlockRoom, RecordRoomStatus,
              CommitClosure, RecordClosure, Finish
<1> QED BY <1>1, <1>2, <1>3, <1>4, <1>5 DEF HandlerEnd

LEMMA InFlightNext ==
  ASSUME DeskInv, DeskStep
  PROVE  InFlight'
<1>0. TypeOK /\ InFlight
  BY InvIsParts DEF BookInv
<1>1. CASE LockedStep
  BY <1>0, <1>1, LockedOnRecord, InFlightKept DEF LockedStep
<1>2. ASSUME NEW r \in Reservations, ExpireUnpaid(r) PROVE InFlight'
  <2>1. OnRecord
    BY <1>0, <1>2 DEF ExpireUnpaid, ExpireHold, OnRecord, TypeOK, TablesOK, ReservationRow
  <2>2. /\ \A h \in Handlers : handler'[h] = handler[h]
        /\ \A q \in Reservations : fate'[q] = "expired" => fate[q] = "expired" \/ ~Paying(q)
    BY <1>0, <1>2 DEF ExpireUnpaid, TypeOK
  <2> QED BY <1>0, <2>1, <2>2, InFlightKept
<1>3. ASSUME NEW k \in Tickets, NEW rm \in Rooms, OpenTicket(k, rm) PROVE InFlight'
  BY <1>0, <1>3, InFlightKept DEF OpenTicket, RecordTicket, OnRecord
<1>4. ASSUME NEW h \in Handlers, HandlerStart(h) \/ HandlerLook(h) PROVE InFlight'
  <2>1. CASE OnlyLooks(h)
    BY <2>1, InFlightLooks
  <2>2. ASSUME NEW k \in Tickets, NEW rm \in Rooms, OpenBlockingTicket(h, k, rm) PROVE InFlight'
    <3>1. handler' = [handler EXCEPT ![h] = [job |-> "block", room |-> rm]] /\ UNCHANGED <<res, fate>>
      BY <2>2 DEF OpenBlockingTicket, Begin, RecordTicket
    <3> QED BY <1>0, <3>1 DEF InFlight, TypeOK
  <2> QED BY <1>4, <2>1, <2>2 DEF HandlerStart, OnlyLooks
<1>5. ASSUME NEW h \in Handlers, HandlerEnd(h) PROVE InFlight'
  <2>1. \A x \in Handlers : handler'[x] = handler[x] \/ handler'[x] = Idle
    BY <1>0, <1>5, EndsKeepRecords DEF TypeOK
  <2> QED BY <1>0, <1>5, <2>1, EndsKeepRecords, InFlightKept
<1> QED BY <1>1, <1>2, <1>3, <1>4, <1>5 DEF DeskStep

-----------------------------------------------------------------------------
(* The cards *)

\* A guest stays where he is, and his card does not turn vacant or he has raced a handler.
Stays(r) ==
  /\ InHouse(r) /\ Sound(r) /\ stay'[r].room = stay[r].room
  /\ \/ room'[stay[r].room].status \in {room[stay[r].room].status, "occupied", "out"}
     \/ stay[r].room \in raced

\* A guest enters a cabin in which nobody lives.
Comes(r) ==
  /\ stay'[r].room \in Rooms
  /\ ~OccupiedBySomeone(stay'[r].room)
  /\ room'[stay'[r].room].status = "occupied"
  /\ handler' = handler

\* A handler that could miss a guest now could already, or nobody lives in the cabin.
StillMisses(h) == CouldMiss(h)' =>
  \/ CouldMiss(h) /\ handler'[h].room = handler[h].room
  \/ ~OccupiedBySomeone(handler'[h].room)

LEMMA CardsSettle ==
  ASSUME DeskInv, RememberRaces, \A h \in Handlers : StillMisses(h),
         \A r \in Reservations : InHouse(r)' /\ Sound(r)' => Stays(r) \/ Comes(r)
  PROVE  CardsTrue'
<1> SUFFICES ASSUME NEW r \in Reservations, InHouse(r)', Sound(r)', NEW rm, rm = stay'[r].room
             PROVE  /\ rm \notin raced' => room'[rm].status \in {"occupied", "out"}
                    /\ \A h \in Handlers : CouldMiss(h)' /\ rm = handler'[h].room => rm \in raced'
  BY DEF CardsTrue, OccupiedIsNotVacant, MissedAreRaced
<1>1. OccupiedBySomeone(rm)'
  BY DEF OccupiedBySomeone
<1>2. CASE Stays(r)
  <2>1. rm = stay[r].room /\ rm \in Rooms
    BY <1>2 DEF Stays, DeskInv, OccupantHoldsUnit, Holding
  <2>2. rm \in raced => rm \in raced'
    BY <1>1, <2>1 DEF RememberRaces
  <2>3. rm \notin raced => room[rm].status \in {"occupied", "out"}
    BY <1>2, <2>1 DEF Stays, DeskInv, OccupiedIsNotVacant
  <2>4. ASSUME NEW h \in Handlers, CouldMiss(h)', rm = handler'[h].room PROVE rm \in raced
    <3>1. OccupiedBySomeone(rm)
      BY <1>2, <2>1 DEF Stays, OccupiedBySomeone
    <3>2. CouldMiss(h) /\ handler[h].room = rm
      BY <2>4, <3>1 DEF StillMisses
    <3> QED BY <1>2, <2>1, <3>2 DEF Stays, DeskInv, MissedAreRaced
  <2> QED BY <1>2, <2>1, <2>2, <2>3, <2>4 DEF Stays
<1>3. CASE Comes(r)
  <2>1. ASSUME NEW h \in Handlers, CouldMiss(h)', rm = handler'[h].room PROVE rm \in raced'
    <3>1. CardUnderWay(rm)
      BY <1>3, <2>1 DEF Comes, CouldMiss, CardUnderWay, CardJobs
    <3> QED BY <1>1, <1>3, <3>1 DEF Comes, RememberRaces
  <2> QED BY <1>3, <2>1 DEF Comes
<1> QED BY <1>2, <1>3

\* Nobody comes, no card changes, and handlers only end.
LEMMA CardsLeftAlone ==
  ASSUME DeskInv, RememberRaces,
         \A h \in Handlers : handler'[h] = handler[h] \/ handler'[h] = Idle,
         \A r \in Reservations : InHouse(r)' /\ Sound(r)' => Stays(r)
  PROVE  CardsTrue'
<1>1. ASSUME NEW h \in Handlers PROVE StillMisses(h)
  <2>1. CASE handler'[h] = handler[h]
    BY <2>1, Zenon DEF StillMisses, CouldMiss
  <2>2. CASE handler'[h] = Idle
    BY <2>2 DEF StillMisses, CouldMiss, Idle
  <2> QED BY <2>1, <2>2
<1> QED BY <1>1, CardsSettle

\* r's own row may change, but not so that it enters a cabin; no card changes.
LEMMA NobodyComes ==
  ASSUME DeskInv, NEW r \in Reservations, Only(r), room' = room,
         InHouse(r)' => InHouse(r) /\ (Sound(r)' => Sound(r) /\ stay'[r].room = stay[r].room)
  PROVE  \A q \in Reservations : InHouse(q)' /\ Sound(q)' => Stays(q)
  BY DEF Only, Stays, InHouse, Sound

LEMMA BookingCards ==
  ASSUME DeskInv, RememberRaces, NEW r \in Reservations, BookingMovesStage(r), UNCHANGED <<handler, fate>>
  PROVE  CardsTrue'
<1>0. TypeOK /\ TablesOK
  BY DEF DeskInv, TypeOK
<1> DEFINE Calm ==
      /\ room' = room
      /\ \A q \in Reservations \ {r} : res'[q] = res[q] /\ unit'[q] = unit[q] /\ stay'[q] = stay[q]
      /\ InHouse(r)' => InHouse(r) /\ stay'[r].room = stay[r].room
<1>1. Calm
  <2>1. ASSUME NEW a, NEW d, NEW paymentDue, NEW rm, Book(r, a, d, paymentDue, rm) PROVE Calm
    BY <1>0, <2>1 DEF Book, AssignOnly, InHouse, TablesOK
  <2>2. ASSUME NEW rm, AssignUnit(r, rm) PROVE Calm
    BY <1>0, <2>2 DEF AssignUnit, AssignOnly, Arrived, InHouse, TablesOK, StayRow
  <2>3. ASSUME NEW a, NEW d, NEW status, UpdateReservation(r, a, d, status) PROVE Calm
    BY <1>0, <2>3 DEF UpdateReservation, Arrived, InHouse, TablesOK, StayRow
  <2>4. ASSUME NEW status \in {"cancelled", "no_show"}, CloseReservation(r, status) PROVE Calm
    BY <1>0, <2>4 DEF CloseReservation, Release, Arrived, InHouse, TablesOK, StayRow
  <2> QED BY <2>1, <2>2, <2>3, <2>4
          DEF BookingMovesStage, BookingStep, BookRoom, BookCategory, BookUnassigned
<1>2. \A q \in Reservations \ {r} : stage'[q] = stage[q]
  BY <1>0 DEF BookingMovesStage, TypeOK
<1>3. \A q \in Reservations : InHouse(q)' /\ Sound(q)' => Stays(q)
  BY <1>1, <1>2, NobodyComes DEF Only, Sound
<1> QED BY <1>3, CardsLeftAlone

LEMMA ResidenceCards ==
  ASSUME DeskInv, RememberRaces, NEW r \in Reservations, ResidenceStep(r), UNCHANGED <<handler, stage, fate>>
  PROVE  CardsTrue'
<1>0. BookInv /\ TablesOK
  BY InvIsParts DEF BookInv, TypeOK
<1>1. \A h \in Handlers : StillMisses(h)
  BY Zenon DEF StillMisses, CouldMiss
<1>2. ASSUME NEW readinessOverride \in BOOLEAN, CheckIn(r, readinessOverride) PROVE CardsTrue'
  <2> PICK rm \in Rooms :
        /\ stay[r].op = "upcoming" /\ ~LivedInByOther(rm, r)
        /\ stay' = [stay EXCEPT ![r].op = "in_house", ![r].room = rm]
        /\ room' = [room EXCEPT ![rm] = [status |-> "occupied", guest |-> r]]
    BY <1>2 DEF CheckIn, RoomAvailable
  <2>1. ~OccupiedBySomeone(rm)
    BY DEF OccupiedBySomeone, LivedInByOther, InHouse
  <2>2. Comes(r)
    BY <1>0, <2>1 DEF Comes, TablesOK, StayRow, RoomRow
  <2>3. ASSUME NEW q \in Reservations \ {r}, InHouse(q)', Sound(q)' PROVE Stays(q)
    <3>1. stay'[q] = stay[q] /\ InHouse(q) /\ Sound(q) /\ stay[q].room # rm
      BY <1>0, <2>1, <2>3 DEF InHouse, Sound, TablesOK, OccupiedBySomeone
    <3>2. stay[q].room \in Rooms
      BY <3>1 DEF DeskInv, OccupantHoldsUnit, Holding
    <3> QED BY <1>0, <3>1, <3>2 DEF Stays, TablesOK
  <2> QED BY <1>1, <2>2, <2>3, CardsSettle
<1>3. ASSUME NEW d \in Times, ExtendStay(r, d) \/ ChangeDepartureTime(r, d) PROVE CardsTrue'
  <2>1. room' = room /\ \A q \in Reservations : stay'[q].op = stay[q].op /\ stay'[q].room = stay[q].room
    BY <1>0, <1>3 DEF ExtendStay, ChangeDepartureTime, TablesOK, StayRow
  <2>2. \A q \in Reservations : InHouse(q)' /\ Sound(q)' => Stays(q)
    BY <2>1 DEF Stays, InHouse, Sound
  <2> QED BY <2>2, CardsLeftAlone
<1>4. ASSUME NEW to \in Rooms, MoveRoom(r, to) PROVE CardsTrue'
  <2> DEFINE from == stay[r].room
  <2>1. from \in Rooms /\ to # from /\ InHouse(r) /\ ~LivedInByOther(to, r)
    BY <1>0, <1>4, ResidentRow DEF MoveRoom, Sellable, RoomAvailable
  <2>2. ~OccupiedBySomeone(to)
    BY <2>1 DEF OccupiedBySomeone, LivedInByOther
  <2>3. /\ stay' = [stay EXCEPT ![r].room = to]
        /\ room'[to].status = "occupied" /\ \A x \in Rooms \ {from, to} : room'[x] = room[x]
    BY <1>0, <1>4, <2>1 DEF MoveRoom, Vacated, TablesOK, RoomRow
  <2>4. Comes(r)
    BY <1>0, <2>2, <2>3 DEF Comes, TablesOK, StayRow
  <2>5. ASSUME NEW q \in Reservations \ {r}, InHouse(q)', Sound(q)' PROVE Stays(q)
    <3>1. stay'[q] = stay[q] /\ InHouse(q) /\ Sound(q) /\ stay[q].room # to
      BY <1>0, <2>2, <2>3, <2>5 DEF InHouse, Sound, TablesOK, OccupiedBySomeone
    <3>2. stay[q].room # from
      BY <2>1, <3>1 DEF DeskInv, OneOccupant
    <3>3. stay[q].room \in Rooms
      BY <3>1 DEF DeskInv, OccupantHoldsUnit, Holding
    <3> QED BY <2>3, <3>1, <3>2, <3>3 DEF Stays
  <2> QED BY <1>1, <2>4, <2>5, CardsSettle
<1>5. CASE CheckOut(r)
  <2> DEFINE rm == stay[r].room
  <2>1. rm \in Rooms /\ InHouse(r)
    BY <1>0, <1>5, ResidentRow DEF CheckOut
  <2>2. /\ stay'[r].op = "checked_out" /\ \A q \in Reservations \ {r} : stay'[q] = stay[q]
        /\ \A x \in Rooms \ {rm} : room'[x] = room[x]
    BY <1>0, <1>5, <2>1 DEF CheckOut, Vacated, TablesOK, StayRow
  <2>3. ASSUME NEW q \in Reservations, InHouse(q)', Sound(q)' PROVE Stays(q)
    <3>1. q # r /\ stay'[q] = stay[q] /\ InHouse(q) /\ Sound(q)
      BY <2>2, <2>3 DEF InHouse, Sound
    <3>2. stay[q].room # rm
      BY <2>1, <3>1 DEF DeskInv, OneOccupant
    <3>3. stay[q].room \in Rooms
      BY <3>1 DEF DeskInv, OccupantHoldsUnit, Holding
    <3> QED BY <2>2, <3>1, <3>2, <3>3 DEF Stays
  <2> QED BY <2>3, CardsLeftAlone
<1>6. CASE RequestCleaning(r)
  <2>1. \A q \in Reservations : InHouse(q)' /\ Sound(q)' => Stays(q)
    BY <1>6 DEF RequestCleaning, Stays, InHouse, Sound
  <2> QED BY <2>1, CardsLeftAlone
<1> QED BY <1>2, <1>3, <1>4, <1>5, <1>6 DEF ResidenceStep

\* A handler that begins or looks misses nobody: it has just seen that nobody is there.
LEMMA LookingCards ==
  ASSUME DeskInv, RememberRaces, NEW h \in Handlers, OnlyLooks(h)
  PROVE  CardsTrue'
<1>0. handler \in [Handlers -> HandlerRow] /\ handler[h] \in HandlerRow /\ UNCHANGED <<vars, stage, fate>>
  BY OnlyLooksIsQuiet DEF DeskInv, TypeOK
<1>1. \A r \in Reservations : InHouse(r)' /\ Sound(r)' => Stays(r)
  BY <1>0 DEF vars, Stays, InHouse, Sound
<1>2. \A x \in Handlers \ {h} : handler'[x] = handler[x]
  BY <1>0 DEF OnlyLooks, HandlerLook, FindReservation, InspectionLooksForGuest, RoomStatusLooksForTicket,
     ClosureLooksForGuest, StartPayment, StartFurtherBooking, StartJourney, StartInspection,
     StartRoomStatus, StartClosure, Begin
<1>3. \A x \in Handlers \ {h} : StillMisses(x)
  BY <1>2, Zenon DEF StillMisses, CouldMiss
<1>4. StillMisses(h)
  <2>1. ASSUME NEW row, handler' = [handler EXCEPT ![h] = row],
               row.job \notin {"inspect", "mark", "close"} \/ (row.job # "mark" /\ ~row.looked)
        PROVE  StillMisses(h)
    <3>1. handler'[h] = row
      BY <1>0, <2>1
    <3> QED BY <2>1, <3>1 DEF StillMisses, CouldMiss
  <2>2. ASSUME NEW r \in Reservations, StartPayment(h, r) \/ StartFurtherBooking(h, r) PROVE StillMisses(h)
    BY <2>1, <2>2 DEF StartPayment, StartFurtherBooking, Begin
  <2>3. ASSUME NEW r \in Reservations, NEW job \in {"advance", "lose", "cancel"}, StartJourney(h, r, job)
        PROVE  StillMisses(h)
    BY <2>1, <2>3 DEF StartJourney, Begin
  <2>4. ASSUME NEW t \in Tasks, StartInspection(h, t) PROVE StillMisses(h)
    <3> DEFINE free == ~Blocked(task[t].room)
               row == [job |-> "inspect", task |-> t, room |-> task[t].room, looked |-> FALSE, free |-> free]
    <3>1. handler' = [handler EXCEPT ![h] = row]
      BY <2>4 DEF StartInspection, Begin
    <3>2. row.job # "mark" /\ ~row.looked
      <4> HIDE DEF free
      <4> QED OBVIOUS
    <3> HIDE DEF row
    <3> QED BY <2>1, <3>1, <3>2
  <2>5. ASSUME NEW rm \in Rooms, NEW status, StartRoomStatus(h, rm, status) PROVE StillMisses(h)
    <3>1. handler'[h].room = rm /\ ~OccupiedBySomeone(rm)
      BY <1>0, <2>5 DEF StartRoomStatus, Begin
    <3> QED BY <3>1, Zenon DEF StillMisses
  <2>6. ASSUME NEW k \in Tickets, StartClosure(h, k) PROVE StillMisses(h)
    <3> DEFINE blocker == OtherBlocker(k)
               row == [job |-> "close", ticket |-> k, room |-> ticket[k].room, looked |-> FALSE,
                       blocker |-> blocker, guest |-> FALSE]
    <3>1. handler' = [handler EXCEPT ![h] = row]
      BY <2>6 DEF StartClosure, Begin
    <3>2. row.job # "mark" /\ ~row.looked
      <4> HIDE DEF blocker
      <4> QED OBVIOUS
    <3> HIDE DEF row
    <3> QED BY <2>1, <3>1, <3>2
  <2>7. CASE FindReservation(h)
    BY <2>1, <2>7 DEF FindReservation
  <2>8. CASE InspectionLooksForGuest(h)
    <3> DEFINE free == handler[h].free /\ ~OccupiedBySomeone(handler[h].room)
    <3>1. handler'[h] = [[handler[h] EXCEPT !.looked = TRUE] EXCEPT !.free = free]
      BY <1>0, <2>8 DEF InspectionLooksForGuest
    <3>2. handler[h].job = "inspect"
      BY <2>8 DEF InspectionLooksForGuest
    <3>3. handler'[h].room = handler[h].room /\ handler'[h].free = free /\ handler'[h].job = "inspect"
      <4> HIDE DEF free
      <4> QED BY <1>0, <3>1, <3>2, JobRows
    <3>4. CouldMiss(h)' => ~OccupiedBySomeone(handler[h].room)
      BY <3>3, Zenon DEF CouldMiss
    <3> QED BY <3>3, <3>4, Zenon DEF StillMisses
  <2>9. CASE RoomStatusLooksForTicket(h)
    <3>1. handler[h].job = "mark" /\ handler' = [handler EXCEPT ![h].looked = TRUE]
      BY <2>9 DEF RoomStatusLooksForTicket
    <3>2. handler'[h].room = handler[h].room
      BY <1>0, <3>1, JobRows
    <3> QED BY <3>1, <3>2, Zenon DEF StillMisses, CouldMiss
  <2>10. CASE ClosureLooksForGuest(h)
    <3> DEFINE guest == OccupiedBySomeone(handler[h].room)
    <3>1. handler'[h] = [[handler[h] EXCEPT !.looked = TRUE] EXCEPT !.guest = guest]
      BY <1>0, <2>10 DEF ClosureLooksForGuest
    <3>2. handler[h].job = "close"
      BY <2>10 DEF ClosureLooksForGuest
    <3>3. handler'[h].room = handler[h].room /\ handler'[h].guest = guest /\ handler'[h].job = "close"
      <4> HIDE DEF guest
      <4> QED BY <1>0, <3>1, <3>2, JobRows
    <3>4. CouldMiss(h)' => ~OccupiedBySomeone(handler[h].room)
      BY <3>3, Zenon DEF CouldMiss
    <3> QED BY <3>3, <3>4, Zenon DEF StillMisses
  <2> QED BY <2>2, <2>3, <2>4, <2>5, <2>6, <2>7, <2>8, <2>9, <2>10 DEF OnlyLooks, HandlerLook
<1> QED BY <1>1, <1>3, <1>4, CardsSettle

\* A handler writes a card from what it has seen, and ends.
LEMMA WritingCards ==
  ASSUME DeskInv, RememberRaces, NEW h \in Handlers, handler' = [handler EXCEPT ![h] = Idle],
         CommitInspection(h) \/ CommitRoomStatus(h) \/ BlockRoom(h) \/ CommitClosure(h)
  PROVE  CardsTrue'
<1>0. TypeOK /\ TablesOK
  BY DEF DeskInv, TypeOK
<1>1. UNCHANGED <<stay, fate>> /\ \A x \in Handlers : handler'[x] = handler[x] \/ handler'[x] = Idle
  BY <1>0 DEF CommitInspection, RecordInspection, CommitRoomStatus, BlockRoom, RecordRoomStatus,
              CommitClosure, RecordClosure, TypeOK
<1>2. ASSUME NEW r \in Reservations, InHouse(r), Sound(r), CouldMiss(h), stay[r].room = handler[h].room
      PROVE  stay[r].room \in raced
  BY <1>2 DEF DeskInv, MissedAreRaced
<1>3. ASSUME NEW rm, NEW status, room' = [room EXCEPT ![rm].status = status],
             status \in {"occupied", "out"} \/ (CouldMiss(h) /\ rm = handler[h].room)
      PROVE  \A r \in Reservations : InHouse(r)' /\ Sound(r)' => Stays(r)
  <2> SUFFICES ASSUME NEW r \in Reservations, InHouse(r)', Sound(r)' PROVE Stays(r)
    OBVIOUS
  <2>1. InHouse(r) /\ Sound(r) /\ stay[r].room \in Rooms
    BY <1>1 DEF InHouse, Sound, DeskInv, OccupantHoldsUnit, Holding
  <2>2. room'[stay[r].room].status = IF stay[r].room = rm THEN status ELSE room[stay[r].room].status
    BY <1>0, <1>3, <2>1 DEF TablesOK, RoomRow
  <2> QED BY <1>1, <1>2, <1>3, <2>1, <2>2 DEF Stays
<1>4. ASSUME room' = room PROVE \A r \in Reservations : InHouse(r)' /\ Sound(r)' => Stays(r)
  BY <1>1, <1>4 DEF Stays, InHouse, Sound
<1>5. CASE CommitInspection(h)
  <2>1. handler[h].free => CouldMiss(h)
    BY <1>5 DEF CommitInspection, CouldMiss
  <2> QED BY <1>1, <1>3, <1>4, <1>5, <2>1, CardsLeftAlone DEF CommitInspection, RecordInspection
<1>6. CASE CommitRoomStatus(h)
  <2>1. CouldMiss(h)
    BY <1>6 DEF CommitRoomStatus, CouldMiss
  <2> QED BY <1>1, <1>3, <1>6, <2>1, CardsLeftAlone DEF CommitRoomStatus, RecordRoomStatus
<1>7. CASE BlockRoom(h)
  BY <1>1, <1>3, <1>7, CardsLeftAlone DEF BlockRoom, RecordRoomStatus
<1>8. CASE CommitClosure(h)
  <2>1. ~handler[h].guest => CouldMiss(h)
    BY <1>8 DEF CommitClosure, CouldMiss
  <2> QED BY <1>1, <1>3, <1>4, <1>8, <2>1, CardsLeftAlone DEF CommitClosure, RecordClosure
<1> QED BY <1>5, <1>6, <1>7, <1>8

\* The handlers that write bookings from unlocked reads bring nobody in.
LEMMA EndingCards ==
  ASSUME DeskInv, RememberRaces, NEW h \in Handlers, HandlerEnd(h)
  PROVE  CardsTrue'
<1>0. TypeOK /\ BookInv
  BY InvIsParts DEF BookInv
<1>1. handler' = [handler EXCEPT ![h] = Idle] /\ \A x \in Handlers : handler'[x] = handler[x] \/ handler'[x] = Idle
  BY <1>0, EndsKeepRecords DEF TypeOK
<1>2. CASE CommitPayment(h)
  <2> PICK r \in Reservations : Pays(r, handler[h].status)
    BY <1>0, <1>2, PaymentActs
  <2>1. Only(r) /\ room' = room
    BY <1>0, PaysOnly, PaysOrNot
  <2>2. InHouse(r)' => InHouse(r) /\ (Sound(r)' => Sound(r) /\ stay'[r].room = stay[r].room)
    BY <1>0, PaysOrNot DEF InHouse, Sound
  <2> QED BY <1>1, <2>1, <2>2, NobodyComes, CardsLeftAlone
<1>3. CASE CommitCancellation(h)
  <2> PICK r \in Reservations : Cancels(r)
    BY <1>0, <1>3, CancellationActs
  <2>1. Only(r) /\ room' = room
    BY <1>0 DEF Cancels, Only, TypeOK, TablesOK
  <2>2. InHouse(r)' => InHouse(r) /\ (Sound(r)' => Sound(r) /\ stay'[r].room = stay[r].room)
    BY <1>0 DEF Cancels, InHouse, Sound, TypeOK, TablesOK, StayRow
  <2> QED BY <1>1, <2>1, <2>2, NobodyComes, CardsLeftAlone
<1>4. ASSUME NEW rm \in Rooms, AssignFurther(h, rm) PROVE CardsTrue'
  <2> PICK r \in Reservations, a \in Times, d \in Times : Furthers(r, rm, a, d)
    BY <1>0, <1>4, FurtherActs
  <2>1. Only(r) /\ room' = room
    BY <1>0 DEF Furthers, Only, TypeOK, TablesOK
  <2>2. InHouse(r)' => InHouse(r) /\ ~Sound(r)'
    BY <1>0 DEF Furthers, InHouse, Sound, TypeOK, TablesOK, StayRow
  <2> QED BY <1>1, <2>1, <2>2, NobodyComes, CardsLeftAlone
<1>5. CASE CommitJourney(h) \/ Abort(h)
  <2>1. UNCHANGED <<stay, room, fate>>
    BY <1>5 DEF CommitJourney, Abort, vars
  <2>2. \A r \in Reservations : InHouse(r)' /\ Sound(r)' => Stays(r)
    BY <2>1 DEF Stays, InHouse, Sound
  <2> QED BY <1>1, <2>2, CardsLeftAlone
<1> QED BY <1>1, <1>2, <1>3, <1>4, <1>5, WritingCards DEF HandlerEnd

LEMMA CardsNext ==
  ASSUME DeskInv, Next
  PROVE  CardsTrue'
<1>0. TypeOK /\ BookInv /\ RememberRaces
  BY InvIsParts DEF BookInv, Next
<1>1. ASSUME UNCHANGED <<handler, fate, stay, room>> PROVE CardsTrue'
  <2>1. \A r \in Reservations : InHouse(r)' /\ Sound(r)' => Stays(r)
    BY <1>1 DEF Stays, InHouse, Sound
  <2> QED BY <1>0, <1>1, <2>1, CardsLeftAlone
<1>2. CASE LockedStep
  <2>1. UNCHANGED <<handler, fate>>
    BY <1>2 DEF LockedStep
  <2>2. ASSUME NEW r \in Reservations, BookingMovesStage(r) \/ (ResidenceStep(r) /\ UNCHANGED stage)
        PROVE  CardsTrue'
    BY <1>0, <2>1, <2>2, BookingCards, ResidenceCards
  <2>3. ASSUME \/ \E r \in Reservations : AccountStep(r)
               \/ \E rm \in Rooms : CreateCleaning(rm)
               \/ \E t \in Tasks : CleaningStep(t)
               \/ \E k \in Tickets : ReopenTicket(k)
               \/ Tick
        PROVE  UNCHANGED <<stay, room>>
    BY <2>3 DEF AccountStep, AddStayPayment, AddLeadPayment, BookService, ChangeServiceStatus,
                CreateCleaning, CleaningStep, ChangeCleaning, ReopenTicket, Tick
  <2> QED BY <1>1, <1>2, <2>1, <2>2, <2>3 DEF LockedStep
<1>3. ASSUME NEW r \in Reservations, ExpireUnpaid(r) PROVE CardsTrue'
  <2>1. room' = room /\ UNCHANGED handler /\ \A q \in Reservations \ {r} : stay'[q] = stay[q] /\ fate'[q] = fate[q]
    BY <1>0, <1>3 DEF ExpireUnpaid, ExpireHold, TypeOK, TablesOK
  <2>2. ~InHouse(r)'
    BY <1>0, <1>3 DEF ExpireUnpaid, ExpireHold, InHouse, TypeOK, TablesOK, StayRow
  <2>3. \A q \in Reservations : InHouse(q)' /\ Sound(q)' => Stays(q)
    BY <2>1, <2>2 DEF Stays, InHouse, Sound
  <2> QED BY <1>0, <2>1, <2>3, CardsLeftAlone
<1>4. ASSUME NEW k \in Tickets, NEW rm \in Rooms, OpenTicket(k, rm) PROVE CardsTrue'
  BY <1>1, <1>4 DEF OpenTicket, RecordTicket
<1>5. ASSUME NEW h \in Handlers, HandlerStart(h) \/ HandlerLook(h) PROVE CardsTrue'
  <2>1. CASE OnlyLooks(h)
    BY <1>0, <2>1, LookingCards
  <2>2. ASSUME NEW k \in Tickets, NEW rm \in Rooms, OpenBlockingTicket(h, k, rm) PROVE CardsTrue'
    <3>1. handler' = [handler EXCEPT ![h] = [job |-> "block", room |-> rm]] /\ UNCHANGED <<stay, room, fate>>
      BY <2>2 DEF OpenBlockingTicket, Begin, RecordTicket
    <3>2. \A r \in Reservations : InHouse(r)' /\ Sound(r)' => Stays(r)
      BY <3>1 DEF Stays, InHouse, Sound
    <3>3. ASSUME NEW x \in Handlers PROVE StillMisses(x)
      <4>1. CASE x = h
        BY <1>0, <3>1, <4>1 DEF StillMisses, CouldMiss, TypeOK
      <4>2. CASE x # h
        <5>1. handler'[x] = handler[x]
          BY <1>0, <3>1, <4>2 DEF TypeOK
        <5> QED BY <5>1, Zenon DEF StillMisses, CouldMiss
      <4> QED BY <4>1, <4>2
    <3> QED BY <1>0, <3>2, <3>3, CardsSettle
  <2> QED BY <1>5, <2>1, <2>2 DEF HandlerStart, OnlyLooks
<1>6. ASSUME NEW h \in Handlers, HandlerEnd(h) PROVE CardsTrue'
  BY <1>0, <1>6, EndingCards
<1> QED BY <1>2, <1>3, <1>4, <1>5, <1>6 DEF Next, DeskStep

-----------------------------------------------------------------------------
(* The invariant *)

LEMMA InvInit == DeskInit => DeskInv
<1> SUFFICES ASSUME DeskInit PROVE DeskInv
  OBVIOUS
<1>0. TypeOK
  BY InitType
<1>1. \A r \in Reservations :
        /\ res[r].status = "absent" /\ stay[r].op = "none" /\ ~InHouse(r) /\ ~Open(r)
        /\ stage[r] = "none" /\ fate[r] = "regular"
        /\ Holding(r) = {}
  BY DEF DeskInit, Init, InHouse, Open, OpenStatuses, Holding, Freed
<1>2. \A rm \in Rooms : room[rm].guest = Nobody
  BY DEF DeskInit, Init
<1>3. \A r \in Reservations : Own(r) /\ NoClash(r)
  BY <1>1 DEF Own, NoClash
<1>4. RoomCardNamesOccupant /\ OneOccupant
  BY <1>1, <1>2, Guests DEF RoomCardNamesOccupant, OneOccupant
<1>5. InFlight
  BY DEF DeskInit, InFlight, Idle
<1>6. CardsTrue
  BY <1>1 DEF CardsTrue, OccupiedIsNotVacant, MissedAreRaced
<1> QED BY <1>0, <1>3, <1>4, <1>5, <1>6, InvIsParts DEF BookInv

LEMMA BookNext ==
  ASSUME DeskInv, Next, TypeOK'
  PROVE  BookInv'
<1>0. TypeOK /\ BookInv /\ InFlight
  BY InvIsParts DEF BookInv
<1>1. CASE LockedStep
  <2>1. fate' = fate
    BY <1>1 DEF LockedStep
  <2>2. ASSUME NEW r \in Reservations, BookingMovesStage(r) \/ (ResidenceStep(r) /\ UNCHANGED stage)
        PROVE  BookInv'
    BY <1>0, <2>1, <2>2, InvBooking, InvResidence
  <2>3. ASSUME \/ \E r \in Reservations : AccountStep(r)
               \/ \E rm \in Rooms : CreateCleaning(rm)
               \/ \E t \in Tasks : CleaningStep(t)
               \/ \E k \in Tickets : ReopenTicket(k)
               \/ Tick,
               UNCHANGED stage
        PROVE  BookInv'
    BY <1>0, <2>1, <2>3, InvHouse
  <2> QED BY <1>1, <2>2, <2>3 DEF LockedStep
<1>2. ASSUME NEW r \in Reservations, ExpireUnpaid(r) PROVE BookInv'
  BY <1>0, <1>2, InvExpire
<1>3. ASSUME NEW k \in Tickets, NEW rm \in Rooms, OpenTicket(k, rm) PROVE BookInv'
  <2>1. UNCHANGED <<stage, fate>>
    BY <1>3 DEF OpenTicket
  <2> QED BY <1>0, <1>3, <2>1, InvHouse
<1>4. ASSUME NEW h \in Handlers, HandlerStart(h) \/ HandlerLook(h) PROVE BookInv'
  <2>1. Aside(h)
    BY <1>4 DEF Aside, OnlyLooks, HandlerStart
  <2> QED BY <1>0, <2>1, InvAside
<1>5. ASSUME NEW h \in Handlers, HandlerEnd(h) PROVE BookInv'
  <2>1. CASE CommitPayment(h)
    <3>1. PICK r \in Reservations : r = handler[h].res /\ Pays(r, handler[h].status)
      BY <1>0, <2>1, PaymentActs
    <3>2. res[r].status # "absent"
      BY <1>0, <2>1, <3>1 DEF InFlight, CommitPayment
    <3> QED BY <1>0, <3>1, <3>2, InvPays
  <2>2. CASE CommitCancellation(h)
    <3>1. PICK r \in Reservations : r = handler[h].res /\ Cancels(r)
      BY <1>0, <2>2, CancellationActs
    <3>2. res[r].status # "absent"
      BY <1>0, <2>2, <3>1 DEF InFlight, CommitCancellation
    <3> QED BY <1>0, <3>1, <3>2, InvCancels
  <2>3. ASSUME NEW rm \in Rooms, AssignFurther(h, rm) PROVE BookInv'
    <3>1. PICK r \in Reservations, a \in Times, d \in Times : r = handler[h].res /\ Furthers(r, rm, a, d)
      BY <1>0, <2>3, FurtherActs
    <3>2. res[r].status # "absent"
      BY <1>0, <2>3, <3>1 DEF InFlight, AssignFurther
    <3> QED BY <1>0, <3>1, <3>2, InvFurthers
  <2>4. CASE Abort(h)
    BY <1>0, <2>4, InvAside DEF Aside
  <2> QED BY <1>0, <1>5, <2>1, <2>2, <2>3, <2>4, InvJourney, InvCardJob DEF HandlerEnd
<1> QED BY <1>1, <1>2, <1>3, <1>4, <1>5 DEF Next, DeskStep

LEMMA InvIsPartsNext == DeskInv' <=> BookInv' /\ InFlight' /\ CardsTrue'
  BY InvIsParts, PTL

LEMMA InvNext == DeskInv /\ [Next]_deskVars => DeskInv'
<1> SUFFICES ASSUME DeskInv, [Next]_deskVars PROVE DeskInv'
  OBVIOUS
<1>0. TypeOK'
  BY NextType DEF DeskInv
<1>1. CASE UNCHANGED deskVars
  <2>1. BookInv'
    <3>1. BookInv
      BY InvIsParts
    <3>2. UNCHANGED <<stage, fate>> /\ UNCHANGED vars
      BY <1>1 DEF deskVars
    <3> QED BY <1>0, <3>1, <3>2, InvHouse
  <2>2. InFlight'
    <3>1. InFlight /\ UNCHANGED <<handler, res, fate>>
      BY <1>1, InvIsParts DEF deskVars, vars
    <3> QED BY <3>1, Zenon DEF InFlight
  <2>3. CardsTrue'
    <3>1. CardsTrue /\ UNCHANGED <<handler, res, stay, room, fate, raced>>
      BY <1>1, InvIsParts DEF deskVars, vars
    <3>2. OccupiedIsNotVacant'
      BY <3>1 DEF CardsTrue, OccupiedIsNotVacant, InHouse, Sound
    <3>3. MissedAreRaced'
      BY <3>1, Zenon DEF CardsTrue, MissedAreRaced, CouldMiss, InHouse, Sound
    <3> QED BY <3>2, <3>3 DEF CardsTrue
  <2> QED BY <2>1, <2>2, <2>3, InvIsPartsNext
<1>2. CASE Next
  <2>1. BookInv'
    BY <1>0, <1>2, BookNext
  <2>2. InFlight'
    BY <1>2, InFlightNext DEF Next
  <2>3. CardsTrue'
    BY <1>2, CardsNext
  <2> QED BY <2>1, <2>2, <2>3, InvIsPartsNext
<1> QED BY <1>1, <1>2

\* DeskInv of the runs, whatever is in flight: the tables agree about who has which
\* cabin when, who is inside, and what the cards say, and the exceptions are exactly
\* the reservations and cards that a stale read has met.
THEOREM DeskInvariant == Spec => []DeskInv
  BY InvInit, InvNext, PTL DEF Spec

\* Nobody else is sold a night of a party that no stale read has met, whatever
\* receipts, cancellations and further bookings are in flight.
THEOREM NeverDoubleBooked == Spec => []NoDoubleBooking
<1>1. DeskInv => NoDoubleBooking
  BY DEF DeskInv
<1> QED BY <1>1, DeskInvariant, PTL

\* Two guests never live in one cabin, those whom a stale read has met included.
THEOREM NeverTwoOccupants == Spec => []OneOccupant
<1>1. DeskInv => OneOccupant
  BY DEF DeskInv
<1> QED BY <1>1, DeskInvariant, PTL

\* A guest in house has the one active assignment that extension, move and check-out
\* look up, also when his request has been cancelled under him.
THEOREM OccupantKeepsHisCabin == Spec => []OccupantHoldsUnit
<1>1. DeskInv => OccupantHoldsUnit
  BY DEF DeskInv
<1> QED BY <1>1, DeskInvariant, PTL

\* The name on a cabin's card is that of the guest who lives there, for every guest
\* whom no stale read has met.
THEOREM CardsNameOccupants == Spec => []RoomCardNamesOccupant
<1>1. DeskInv => RoomCardNamesOccupant
  BY DEF DeskInv
<1> QED BY <1>1, DeskInvariant, PTL

\* A lived-in cabin is shown vacant only after a handler that was under way when the
\* guest entered it.
THEOREM ShownVacantOnlyByRace == Spec => []OccupiedIsNotVacant
<1>1. DeskInv => OccupiedIsNotVacant
  BY DEF DeskInv
<1> QED BY <1>1, DeskInvariant, PTL

\* The dates of an assignment are those of its reservation after any changes of both.
THEOREM UnitsFollowReservations == Spec => []UnitFollowsReservation
<1>1. DeskInv => UnitFollowsReservation
  BY DEF DeskInv
<1> QED BY <1>1, DeskInvariant, PTL

\* A reservation that the desk or the expiry job has ended holds no cabin.
THEOREM EndedHoldsNothing == Spec => []ClosedHoldsNothing
<1>1. DeskInv => ClosedHoldsNothing
  BY DEF DeskInv
<1> QED BY <1>1, DeskInvariant, PTL

-----------------------------------------------------------------------------
(* How reservations and stays end *)

\* A closed reservation is opened or closed anew only by a receipt that saw it unpaid
\* and by the cancellation of its request.
EndingKept(r) == res[r].status \in ClosedStatuses /\ res'[r].status # res[r].status =>
  \/ \E h \in Handlers : handler[h].job = "pay" /\ handler[h].res = r
       /\ handler[h].status = "pending_payment" /\ fate'[r] = "overtaken"
  \/ res'[r].status = "cancelled" /\ stage'[r] = "cancelled"

LeavesSettled(r) == InHouse(r) /\ ~InHouse(r)' =>
  \/ stay'[r].op = "checked_out" /\ res'[r].status = "completed" /\ folio[r] = Settled
  \/ \E h \in Handlers : handler[h].job = "pay" /\ handler[h].res = r
       /\ handler[h].status = "pending_payment" /\ fate'[r] = "overtaken"

\* A reservation that the expiry job has cancelled is touched by a stale read only as it is.
ExpiredKept(r) == fate[r] = "expired" /\ fate'[r] # "expired" => res'[r].status = res[r].status

Ends == \A r \in Reservations : EndingKept(r) /\ LeavesSettled(r) /\ ExpiredKept(r)

\* One reservation is written, and in an orderly way.
LEMMA OneEnds ==
  ASSUME NEW r \in Reservations, Only(r), EndingKept(r), LeavesSettled(r), ExpiredKept(r)
  PROVE  Ends
<1>1. ASSUME NEW q \in Reservations, q # r PROVE EndingKept(q) /\ LeavesSettled(q) /\ ExpiredKept(q)
  BY <1>1 DEF Only, EndingKept, LeavesSettled, ExpiredKept, InHouse
<1> QED BY <1>1 DEF Ends

LEMMA QuietEnds == UNCHANGED <<res, stay>> => Ends
  BY DEF Ends, EndingKept, LeavesSettled, ExpiredKept, InHouse

LEMMA BookingOnly ==
  ASSUME TypeOK, NEW r \in Reservations, BookingMovesStage(r), fate' = fate
  PROVE  Only(r) /\ room' = room
<1> USE DEF TypeOK, TablesOK
<1> DEFINE Own1 == room' = room /\ \A q \in Reservations \ {r} :
                     res'[q] = res[q] /\ unit'[q] = unit[q] /\ stay'[q] = stay[q]
<1>1. ASSUME NEW a, NEW d, NEW paymentDue, NEW rm, Book(r, a, d, paymentDue, rm) PROVE Own1
  BY <1>1 DEF Book, AssignOnly
<1>2. ASSUME NEW rm, AssignUnit(r, rm) PROVE Own1
  BY <1>2 DEF AssignUnit, AssignOnly
<1>3. ASSUME NEW a, NEW d, NEW status, UpdateReservation(r, a, d, status) PROVE Own1
  BY <1>3 DEF UpdateReservation
<1>4. ASSUME NEW status, CloseReservation(r, status) PROVE Own1
  BY <1>4 DEF CloseReservation, Release
<1>5. Own1
  BY <1>1, <1>2, <1>3, <1>4 DEF BookingMovesStage, BookingStep, BookRoom, BookCategory, BookUnassigned
<1>6. \A q \in Reservations \ {r} : stage'[q] = stage[q] /\ fate'[q] = fate[q]
  BY DEF BookingMovesStage
<1> QED BY <1>5, <1>6 DEF Only

LEMMA BookingEnds ==
  ASSUME DeskInv, NEW r \in Reservations, BookingMovesStage(r), fate' = fate
  PROVE  Ends
<1>0. TypeOK /\ Only(r) /\ ExpiredKept(r)
  BY BookingOnly DEF DeskInv, ExpiredKept
<1>1. /\ res[r].status \in ClosedStatuses => res'[r].status = res[r].status
      /\ InHouse(r) => InHouse(r)'
  <2> DEFINE Kept == /\ res[r].status \in ClosedStatuses => res'[r].status = res[r].status
                     /\ InHouse(r) => InHouse(r)'
  <2>1. ASSUME NEW a, NEW d, NEW paymentDue, NEW rm, Book(r, a, d, paymentDue, rm) PROVE Kept
    BY <2>1 DEF Book, ClosedStatuses, InHouse, DeskInv, NotBookedIsRegular
  <2>2. ASSUME NEW rm, AssignUnit(r, rm) PROVE Kept
    BY <2>2 DEF AssignUnit, Arrived, InHouse
  <2>3. ASSUME NEW a, NEW d, NEW status \in OpenStatuses, UpdateReservation(r, a, d, status) PROVE Kept
    BY <2>3 DEF UpdateReservation, Patchable, Open, OpenStatuses, ClosedStatuses, Arrived, InHouse
  <2>4. ASSUME NEW status \in {"cancelled", "no_show"}, CloseReservation(r, status) PROVE Kept
    BY <1>0, <2>4 DEF CloseReservation, Patchable, Open, OpenStatuses, ClosedStatuses, Arrived, InHouse,
                      TypeOK, TablesOK, ReservationRow
  <2> QED BY <2>1, <2>2, <2>3, <2>4
          DEF BookingMovesStage, BookingStep, BookRoom, BookCategory, BookUnassigned
<1> QED BY <1>0, <1>1, OneEnds DEF EndingKept, LeavesSettled

LEMMA ResidenceOnly ==
  ASSUME TypeOK, NEW r \in Reservations, ResidenceStep(r), UNCHANGED <<stage, fate>>
  PROVE  Only(r)
<1> USE DEF TypeOK, TablesOK, Only
<1>1. ASSUME NEW readinessOverride, CheckIn(r, readinessOverride) PROVE Only(r)
  BY <1>1 DEF CheckIn
<1>2. ASSUME NEW d, ExtendStay(r, d) \/ ChangeDepartureTime(r, d) PROVE Only(r)
  BY <1>2 DEF ExtendStay, ChangeDepartureTime, SetDeparture
<1>3. ASSUME NEW to, MoveRoom(r, to) PROVE Only(r)
  BY <1>3 DEF MoveRoom
<1>4. CASE CheckOut(r)
  BY <1>4 DEF CheckOut, Release
<1>5. CASE RequestCleaning(r)
  BY <1>5 DEF RequestCleaning
<1> QED BY <1>1, <1>2, <1>3, <1>4, <1>5 DEF ResidenceStep

LEMMA ResidenceEnds ==
  ASSUME DeskInv, NEW r \in Reservations, ResidenceStep(r), UNCHANGED <<stage, fate>>
  PROVE  Ends
<1>0. TypeOK /\ TablesOK /\ Only(r) /\ ExpiredKept(r)
  BY ResidenceOnly DEF DeskInv, TypeOK, ExpiredKept
<1>1. ASSUME NEW readinessOverride, CheckIn(r, readinessOverride)
      PROVE  res' = res /\ InHouse(r)'
  BY <1>0, <1>1 DEF CheckIn, InHouse, TablesOK, StayRow
<1>2. ASSUME NEW d \in Times, ExtendStay(r, d) \/ ChangeDepartureTime(r, d)
      PROVE  res'[r].status = res[r].status /\ (InHouse(r) => InHouse(r)')
  BY <1>0, <1>2 DEF ExtendStay, ChangeDepartureTime, SetDeparture, InHouse, TablesOK, StayRow, ReservationRow
<1>3. ASSUME NEW to, MoveRoom(r, to) PROVE res' = res /\ (InHouse(r) => InHouse(r)')
  BY <1>0, <1>3 DEF MoveRoom, InHouse, TablesOK, StayRow
<1>4. CASE CheckOut(r)
  <2>1. /\ res[r].status = "confirmed" /\ folio[r] = Settled
        /\ stay'[r].op = "checked_out" /\ res'[r].status = "completed"
    BY <1>0, <1>4 DEF CheckOut, Resident, TablesOK, StayRow, ReservationRow
  <2> QED BY <1>0, <2>1, OneEnds DEF EndingKept, LeavesSettled, ClosedStatuses
<1>5. CASE RequestCleaning(r)
  BY <1>5, QuietEnds DEF RequestCleaning
<1>6. CASE res'[r].status = res[r].status /\ (InHouse(r) => InHouse(r)')
  BY <1>0, <1>6, OneEnds DEF EndingKept, LeavesSettled
<1> QED BY <1>1, <1>2, <1>3, <1>4, <1>5, <1>6 DEF ResidenceStep

LEMMA StepEnds ==
  ASSUME DeskInv, [Next]_deskVars
  PROVE  Ends
<1>0. TypeOK /\ TablesOK /\ InFlight
  BY InvIsParts DEF DeskInv, TypeOK
<1>1. CASE UNCHANGED deskVars
  BY <1>1, QuietEnds DEF deskVars, vars
<1>2. CASE LockedStep
  <2>1. fate' = fate
    BY <1>2 DEF LockedStep
  <2>2. ASSUME NEW r \in Reservations, BookingMovesStage(r) \/ (ResidenceStep(r) /\ UNCHANGED stage)
        PROVE  Ends
    BY <2>1, <2>2, BookingEnds, ResidenceEnds
  <2>3. ASSUME \/ \E r \in Reservations : AccountStep(r)
               \/ \E rm \in Rooms : CreateCleaning(rm)
               \/ \E t \in Tasks : CleaningStep(t)
               \/ \E k \in Tickets : ReopenTicket(k)
               \/ Tick
        PROVE  UNCHANGED <<res, stay>>
    BY <2>3 DEF AccountStep, AddStayPayment, AddLeadPayment, BookService, ChangeServiceStatus,
                CreateCleaning, CleaningStep, ChangeCleaning, ReopenTicket, Tick
  <2> QED BY <1>2, <2>2, <2>3, QuietEnds DEF LockedStep
<1>3. ASSUME NEW r \in Reservations, ExpireUnpaid(r) PROVE Ends
  <2>1. res[r].status = "pending_payment"
    BY <1>3 DEF ExpireUnpaid, ExpireHold
  <2>2. ~InHouse(r)
    BY <2>1 DEF DeskInv, OccupantIsBooked
  <2>3. fate[r] # "expired"
    BY <2>1 DEF DeskInv, ExpiredIsClosed, Open, OpenStatuses
  <2>4. Only(r)
    <3>1. \A q \in Reservations \ {r} : res'[q] = res[q] /\ unit'[q] = unit[q] /\ stay'[q] = stay[q]
      BY <1>0, <1>3 DEF ExpireUnpaid, ExpireHold, Release, TablesOK
    <3>2. \A q \in Reservations \ {r} : stage'[q] = stage[q] /\ fate'[q] = fate[q]
      BY <1>0, <1>3 DEF ExpireUnpaid, TypeOK
    <3> QED BY <3>1, <3>2 DEF Only
  <2> QED BY <2>1, <2>2, <2>3, <2>4, OneEnds DEF EndingKept, LeavesSettled, ExpiredKept, ClosedStatuses
<1>4. ASSUME NEW k \in Tickets, NEW rm \in Rooms, OpenTicket(k, rm) PROVE Ends
  BY <1>4, QuietEnds DEF OpenTicket, RecordTicket
<1>5. ASSUME NEW h \in Handlers, HandlerStart(h) \/ HandlerLook(h) PROVE Ends
  <2>1. CASE OnlyLooks(h)
    BY <2>1, OnlyLooksIsQuiet, QuietEnds DEF vars
  <2>2. ASSUME NEW k \in Tickets, NEW rm \in Rooms, OpenBlockingTicket(h, k, rm) PROVE Ends
    BY <2>2, QuietEnds DEF OpenBlockingTicket, RecordTicket
  <2> QED BY <1>5, <2>1, <2>2 DEF HandlerStart, OnlyLooks
<1>6. ASSUME NEW h \in Handlers, CommitPayment(h) PROVE Ends
  <2>1. PICK r \in Reservations : r = handler[h].res /\ Pays(r, handler[h].status)
    BY <1>0, <1>6, PaymentActs
  <2>2. handler[h].job = "pay" /\ Only(r)
    BY <1>0, <1>6, <2>1, PaysOnly DEF CommitPayment
  <2>3. CASE UNCHANGED <<res, stay, fate>>
    BY <2>3, QuietEnds
  <2>4. CASE /\ handler[h].status = "pending_payment"
             /\ fate'[r] = IF res[r].status = "pending_payment" THEN fate[r] ELSE "overtaken"
    <3>1. fate[r] # "expired"
      BY <1>0, <2>1, <2>2, <2>4 DEF InFlight
    <3>2. InHouse(r) => res[r].status # "pending_payment"
      BY DEF DeskInv, OccupantIsBooked
    <3>3. EndingKept(r) /\ LeavesSettled(r)
      BY <2>1, <2>2, <2>4, <3>2 DEF EndingKept, LeavesSettled, ClosedStatuses
    <3> QED BY <2>2, <3>1, <3>3, OneEnds DEF ExpiredKept
  <2> QED BY <1>0, <2>1, <2>3, <2>4, PaysOrNot
<1>7. ASSUME NEW h \in Handlers, CommitCancellation(h) PROVE Ends
  <2> PICK r \in Reservations : Cancels(r)
    BY <1>0, <1>7, CancellationActs
  <2>1. Only(r)
    BY <1>0 DEF Cancels, Only, TypeOK, TablesOK
  <2>2. res'[r].status = "cancelled" /\ stage'[r] = "cancelled" /\ (InHouse(r) => InHouse(r)')
    BY <1>0 DEF Cancels, InHouse, TypeOK, TablesOK, ReservationRow, StayRow
  <2>3. fate[r] = "expired" => fate'[r] = "expired"
    BY <1>0 DEF Cancels, TypeOK
  <2> QED BY <2>1, <2>2, <2>3, OneEnds DEF EndingKept, LeavesSettled, ExpiredKept
<1>8. ASSUME NEW h \in Handlers, NEW rm \in Rooms, AssignFurther(h, rm) PROVE Ends
  <2> PICK r \in Reservations, a \in Times, d \in Times : Furthers(r, rm, a, d)
    BY <1>0, <1>8, FurtherActs
  <2>1. Only(r) /\ res' = res /\ (InHouse(r) => InHouse(r)')
    BY <1>0 DEF Furthers, Only, InHouse, TypeOK, TablesOK, StayRow
  <2> QED BY <2>1, OneEnds DEF EndingKept, LeavesSettled, ExpiredKept
<1>9. ASSUME NEW h \in Handlers,
             \/ CommitInspection(h) \/ CommitRoomStatus(h) \/ BlockRoom(h) \/ CommitClosure(h)
             \/ CommitJourney(h) \/ Abort(h)
      PROVE  Ends
  BY <1>9, QuietEnds DEF CommitInspection, RecordInspection, CommitRoomStatus, BlockRoom, RecordRoomStatus,
                         CommitClosure, RecordClosure, CommitJourney, Abort, vars
<1> QED BY <1>1, <1>2, <1>3, <1>4, <1>5, <1>6, <1>7, <1>8, <1>9 DEF Next, DeskStep, HandlerEnd

\* A cancelled, missed or completed reservation keeps its ending, but for a receipt
\* that saw it unpaid before and for the cancellation of its request.
THEOREM ClosedStaysClosed == Spec => ClosedForever
<1>1. DeskInv /\ [Next]_deskVars => [\A r \in Reservations :
        res[r].status \in ClosedStatuses /\ res'[r].status # res[r].status =>
          \/ \E h \in Handlers : handler[h].job = "pay" /\ handler[h].res = r
               /\ handler[h].status = "pending_payment" /\ fate'[r] = "overtaken"
          \/ res'[r].status = "cancelled" /\ stage'[r] = "cancelled"]_deskVars
  BY StepEnds DEF Ends, EndingKept
<1> QED BY <1>1, DeskInvariant, PTL DEF Spec, ClosedForever

\* A guest leaves the house by a check-out with the folio settled, or by a receipt
\* that saw his booking unpaid.
THEOREM LeavesOnlyByCheckOut == Spec => LeavesBySettledCheckOut
<1>1. DeskInv /\ [Next]_deskVars => [\A r \in Reservations : InHouse(r) /\ ~InHouse(r)' =>
        \/ stay'[r].op = "checked_out" /\ res'[r].status = "completed" /\ folio[r] = Settled
        \/ \E h \in Handlers : handler[h].job = "pay" /\ handler[h].res = r
             /\ handler[h].status = "pending_payment" /\ fate'[r] = "overtaken"]_deskVars
  BY StepEnds DEF Ends, LeavesSettled
<1> QED BY <1>1, DeskInvariant, PTL DEF Spec, LeavesBySettledCheckOut

\* No receipt, booking or date change revives a hold that the expiry job has cancelled.
THEOREM ExpiredStaysExpired == Spec => ExpiredHoldIsFinal
<1>1. ASSUME DeskInv, DeskInv', [Next]_deskVars, NEW r \in Reservations, fate[r] = "expired"
      PROVE  ~Open(r)'
  <2>1. CASE fate'[r] = "expired"
    BY <1>1, <2>1 DEF DeskInv, ExpiredIsClosed
  <2>2. CASE fate'[r] # "expired"
    <3>1. res'[r].status = res[r].status
      BY <1>1, <2>2, StepEnds DEF Ends, ExpiredKept
    <3> QED BY <1>1, <3>1 DEF DeskInv, ExpiredIsClosed, Open
  <2> QED BY <2>1, <2>2
<1>2. DeskInv /\ DeskInv' /\ [Next]_deskVars
        => [\A r \in Reservations : fate[r] = "expired" => ~Open(r)']_deskVars
  BY <1>1
<1> QED BY <1>2, DeskInvariant, PTL DEF Spec, ExpiredHoldIsFinal

-----------------------------------------------------------------------------
(* The request and its reservation *)

\* Of the reservation that a step writes: its request is not cancelled afterwards, or it
\* is not open.
LEMMA RequestsKept ==
  ASSUME TypeOK, CancelledRequestIsOver, NEW r \in Reservations, Only(r),
         stage'[r] # "cancelled" \/ ~Open(r)' \/ (stage'[r] = stage[r] /\ (Open(r)' => Open(r)))
  PROVE  CancelledRequestIsOver'
  BY DEF CancelledRequestIsOver, Only, Open

LEMMA RequestsQuiet ==
  ASSUME CancelledRequestIsOver, UNCHANGED <<res, stage>>
  PROVE  CancelledRequestIsOver'
  BY DEF CancelledRequestIsOver, Open

LEMMA BookingOfRequests ==
  ASSUME TypeOK, NEW r \in Reservations, BookingMovesStage(r)
  PROVE  stage'[r] # "cancelled" \/ ~Open(r)' \/ (stage'[r] = stage[r] /\ (Open(r)' => Open(r)))
<1> USE DEF TypeOK, TablesOK
<1> DEFINE Good == IF res[r].status = "absent" THEN TRUE ELSE ~Open(r)' \/ (Open(r)' => Open(r))
<1>1. ASSUME NEW a, NEW d, NEW paymentDue, NEW rm, Book(r, a, d, paymentDue, rm) PROVE Good
  BY <1>1 DEF Book
<1>2. ASSUME NEW rm, AssignUnit(r, rm) PROVE Good
  BY <1>2 DEF AssignUnit
<1>3. ASSUME NEW a, NEW d, NEW status \in OpenStatuses, UpdateReservation(r, a, d, status) PROVE Good
  BY <1>3 DEF UpdateReservation, Patchable, Open
<1>4. ASSUME NEW status \in {"cancelled", "no_show"}, CloseReservation(r, status) PROVE Good
  BY <1>4 DEF CloseReservation, Open, OpenStatuses
<1>5. Good
  BY <1>1, <1>2, <1>3, <1>4 DEF BookingMovesStage, BookingStep, BookRoom, BookCategory, BookUnassigned
<1>6. stage'[r] = IF res[r].status # "absent" THEN stage[r]
                  ELSE IF res'[r].status = "pending_payment" THEN "payment_pending" ELSE "confirmed"
  BY DEF BookingMovesStage
<1> QED BY <1>5, <1>6

LEMMA RequestsNext ==
  ASSUME TypeOK, CancelledRequestIsOver, [Next]_deskVars
  PROVE  CancelledRequestIsOver'
<1>0. TablesOK
  BY DEF TypeOK
<1>1. CASE UNCHANGED deskVars
  BY <1>1, RequestsQuiet DEF deskVars, vars
<1>2. CASE LockedStep
  <2>1. fate' = fate
    BY <1>2 DEF LockedStep
  <2>2. ASSUME NEW r \in Reservations, BookingMovesStage(r) PROVE CancelledRequestIsOver'
    BY <2>1, <2>2, BookingOnly, BookingOfRequests, RequestsKept
  <2>3. ASSUME NEW r \in Reservations, ResidenceStep(r), UNCHANGED stage PROVE CancelledRequestIsOver'
    <3>1. CASE UNCHANGED res
      BY <2>3, <3>1, RequestsQuiet
    <3>2. ASSUME NEW d \in Times, SetDeparture(r, d) PROVE res'[r].status = res[r].status
      BY <1>0, <3>2 DEF SetDeparture, TablesOK, ReservationRow
    <3>4. UNCHANGED res \/ (\E d \in Times : SetDeparture(r, d)) \/ CheckOut(r)
      BY <2>3 DEF ResidenceStep, CheckIn, ExtendStay, ChangeDepartureTime, MoveRoom, RequestCleaning
    <3>5. CheckOut(r) => ~Open(r)'
      BY <1>0 DEF CheckOut, TablesOK, ReservationRow, Open, OpenStatuses
    <3>6. (\E d \in Times : SetDeparture(r, d)) => (Open(r)' => Open(r))
      BY <3>2 DEF Open
    <3> QED BY <2>1, <2>3, <3>1, <3>4, <3>5, <3>6, ResidenceOnly, RequestsKept
  <2>4. ASSUME \/ \E r \in Reservations : AccountStep(r)
               \/ \E rm \in Rooms : CreateCleaning(rm)
               \/ \E t \in Tasks : CleaningStep(t)
               \/ \E k \in Tickets : ReopenTicket(k)
               \/ Tick
        PROVE  UNCHANGED res
    BY <2>4 DEF AccountStep, AddStayPayment, AddLeadPayment, BookService, ChangeServiceStatus,
                CreateCleaning, CleaningStep, ChangeCleaning, ReopenTicket, Tick
  <2> QED BY <1>2, <2>2, <2>3, <2>4, RequestsQuiet DEF LockedStep
<1>3. ASSUME NEW r \in Reservations, ExpireUnpaid(r) PROVE CancelledRequestIsOver'
  <2>1. stage' = stage /\ \A q \in Reservations : res'[q].status = res[q].status \/ ~Open(q)'
    BY <1>0, <1>3 DEF ExpireUnpaid, ExpireHold, TablesOK, ReservationRow, Open, OpenStatuses
  <2> QED BY <2>1 DEF CancelledRequestIsOver, Open
<1>4. ASSUME NEW k \in Tickets, NEW rm \in Rooms, OpenTicket(k, rm) PROVE CancelledRequestIsOver'
  BY <1>4, RequestsQuiet DEF OpenTicket, RecordTicket
<1>5. ASSUME NEW h \in Handlers, HandlerStart(h) \/ HandlerLook(h) PROVE CancelledRequestIsOver'
  <2>1. CASE OnlyLooks(h)
    BY <2>1, OnlyLooksIsQuiet, RequestsQuiet DEF vars
  <2>2. ASSUME NEW k \in Tickets, NEW rm \in Rooms, OpenBlockingTicket(h, k, rm) PROVE CancelledRequestIsOver'
    BY <2>2, RequestsQuiet DEF OpenBlockingTicket, RecordTicket
  <2> QED BY <1>5, <2>1, <2>2 DEF HandlerStart, OnlyLooks
<1>6. ASSUME NEW h \in Handlers, CommitPayment(h) PROVE CancelledRequestIsOver'
  <2> PICK r \in Reservations : Pays(r, handler[h].status)
    BY <1>6, PaymentActs
  <2>1. UNCHANGED <<res, stage>> \/ stage'[r] = "confirmed"
    BY PaysOrNot
  <2> QED BY <2>1, PaysOnly, RequestsKept, RequestsQuiet
<1>7. ASSUME NEW h \in Handlers, CommitCancellation(h) PROVE CancelledRequestIsOver'
  <2> PICK r \in Reservations : Cancels(r)
    BY <1>7, CancellationActs
  <2>1. Only(r) /\ ~Open(r)'
    BY <1>0 DEF Cancels, Only, Open, OpenStatuses, TypeOK, TablesOK, ReservationRow
  <2> QED BY <2>1, RequestsKept
<1>8. ASSUME NEW h \in Handlers, NEW rm \in Rooms, AssignFurther(h, rm) PROVE CancelledRequestIsOver'
  <2> PICK r \in Reservations, a \in Times, d \in Times : Furthers(r, rm, a, d)
    BY <1>8, FurtherActs
  <2>1. Only(r) /\ stage'[r] # "cancelled"
    BY <1>0 DEF Furthers, Only, TypeOK, TablesOK
  <2> QED BY <2>1, RequestsKept
<1>9. ASSUME NEW h \in Handlers, CommitJourney(h) PROVE CancelledRequestIsOver'
  <2> DEFINE r == handler[h].res
  <2>1. r \in Reservations /\ handler[h].to # "cancelled"
    BY <1>9, JobRows DEF CommitJourney, TypeOK
  <2>2. res' = res /\ stage' = [stage EXCEPT ![r] = handler[h].to]
    BY <1>9 DEF CommitJourney, vars
  <2> QED BY <2>1, <2>2 DEF CancelledRequestIsOver, Open, TypeOK
<1>10. ASSUME NEW h \in Handlers,
              CommitInspection(h) \/ CommitRoomStatus(h) \/ BlockRoom(h) \/ CommitClosure(h) \/ Abort(h)
       PROVE  CancelledRequestIsOver'
  BY <1>10, RequestsQuiet DEF CommitInspection, RecordInspection, CommitRoomStatus, BlockRoom,
     RecordRoomStatus, CommitClosure, RecordClosure, Abort, vars
<1> QED BY <1>1, <1>2, <1>3, <1>4, <1>5, <1>6, <1>7, <1>8, <1>9, <1>10 DEF Next, DeskStep, HandlerEnd

\* A cancelled request never has an open reservation: whatever opens the reservation
\* again, a late receipt included, takes the cancellation back with it.
THEOREM CancelledRequestsAreOver == Spec => []CancelledRequestIsOver
<1>1. DeskInit => CancelledRequestIsOver
  BY DEF DeskInit, CancelledRequestIsOver
<1> QED BY <1>1, RequestsNext, TypeCorrect, PTL DEF Spec

-----------------------------------------------------------------------------
(* What a guest who has left still has to receive *)

\* No service is booked, and nobody leaves with one outstanding.
OwesKept == /\ service' = service
            /\ \A q \in Reservations : stay'[q].op = "checked_out" => stay[q].op = "checked_out" \/ ~service[q]

LEMMA OwesKeptIsEnough == CheckedOutOwesNoService /\ OwesKept => CheckedOutOwesNoService'
  BY DEF CheckedOutOwesNoService, OwesKept

LEMMA BookingOwesKept ==
  ASSUME TypeOK, NEW r \in Reservations, BookingStep(r)
  PROVE  OwesKept
<1> USE DEF TypeOK, TablesOK, OwesKept, money
<1>1. ASSUME NEW a, NEW d, NEW paymentDue, NEW rm, Book(r, a, d, paymentDue, rm) PROVE OwesKept
  BY <1>1 DEF Book
<1>2. ASSUME NEW rm, AssignUnit(r, rm) PROVE OwesKept
  BY <1>2 DEF AssignUnit, StayRow
<1>3. ASSUME NEW a, NEW d, NEW status, UpdateReservation(r, a, d, status) PROVE OwesKept
  BY <1>3 DEF UpdateReservation, StayRow
<1>4. ASSUME NEW status \in {"cancelled", "no_show"}, CloseReservation(r, status) PROVE OwesKept
  BY <1>4 DEF CloseReservation, StayRow
<1> QED BY <1>1, <1>2, <1>3, <1>4 DEF BookingStep, BookRoom, BookCategory, BookUnassigned

LEMMA ResidenceOwesKept ==
  ASSUME TypeOK, NEW r \in Reservations, ResidenceStep(r)
  PROVE  OwesKept
<1> USE DEF TypeOK, TablesOK, OwesKept, money
<1>1. ASSUME NEW readinessOverride, CheckIn(r, readinessOverride) PROVE OwesKept
  BY <1>1 DEF CheckIn, StayRow
<1>2. ASSUME NEW d, ExtendStay(r, d) \/ ChangeDepartureTime(r, d) PROVE OwesKept
  BY <1>2 DEF ExtendStay, ChangeDepartureTime, StayRow
<1>3. ASSUME NEW to, MoveRoom(r, to) PROVE OwesKept
  BY <1>3 DEF MoveRoom, StayRow
<1>4. CASE CheckOut(r)
  BY <1>4 DEF CheckOut
<1>5. CASE RequestCleaning(r)
  BY <1>5 DEF RequestCleaning
<1> QED BY <1>1, <1>2, <1>3, <1>4, <1>5 DEF ResidenceStep

LEMMA EndsOweKept ==
  ASSUME TypeOK, NEW h \in Handlers, HandlerEnd(h)
  PROVE  OwesKept
<1> USE DEF TypeOK, TablesOK, OwesKept, money
<1>1. CASE CommitPayment(h)
  <2> PICK r \in Reservations : Pays(r, handler[h].status)
    BY <1>1, PaymentActs
  <2>1. PICK level \in Levels : RecordPayment(r, handler[h].status, level)
    BY DEF Pays
  <2>2. service' = service /\ stay' \in {stay, [stay EXCEPT ![r].op = "upcoming"]}
    BY <2>1 DEF RecordPayment
  <2> QED BY <2>2 DEF StayRow
<1>2. CASE CommitCancellation(h)
  <2> PICK r \in Reservations : Cancels(r)
    BY <1>2, CancellationActs
  <2>1. /\ service' = service
        /\ stay' = [stay EXCEPT ![r].op = IF stay[r].op = "upcoming" THEN "cancelled" ELSE stay[r].op]
    BY DEF Cancels
  <2> QED BY <2>1 DEF StayRow
<1>3. ASSUME NEW rm \in Rooms, AssignFurther(h, rm) PROVE OwesKept
  BY <1>3 DEF AssignFurther, StayRow
<1>4. CASE CommitInspection(h) \/ CommitRoomStatus(h) \/ BlockRoom(h) \/ CommitClosure(h)
           \/ CommitJourney(h) \/ Abort(h)
  BY <1>4 DEF CommitInspection, RecordInspection, CommitRoomStatus, BlockRoom, RecordRoomStatus,
              CommitClosure, RecordClosure, CommitJourney, Abort, vars
<1> QED BY <1>1, <1>2, <1>3, <1>4 DEF HandlerEnd

LEMMA ServicesNext ==
  ASSUME TypeOK, CheckedOutOwesNoService, [Next]_deskVars
  PROVE  CheckedOutOwesNoService'
<1>0. TablesOK
  BY DEF TypeOK
<1>1. ASSUME UNCHANGED <<stay, service>> PROVE CheckedOutOwesNoService'
  BY <1>1 DEF CheckedOutOwesNoService
<1>2. CASE LockedStep
  <2>1. ASSUME NEW r \in Reservations, BookingMovesStage(r) \/ ResidenceStep(r) PROVE CheckedOutOwesNoService'
    BY <2>1, BookingOwesKept, ResidenceOwesKept, OwesKeptIsEnough DEF BookingMovesStage
  <2>2. ASSUME NEW r \in Reservations, AccountStep(r) PROVE CheckedOutOwesNoService'
    BY <1>0, <2>2 DEF AccountStep, AddStayPayment, AddLeadPayment, BookService, Serves, ChangeServiceStatus,
                CheckedOutOwesNoService, TablesOK
  <2>3. ASSUME \/ \E rm \in Rooms : CreateCleaning(rm)
               \/ \E t \in Tasks : CleaningStep(t)
               \/ \E k \in Tickets : ReopenTicket(k)
               \/ Tick
        PROVE  UNCHANGED <<stay, service>>
    BY <2>3 DEF CreateCleaning, CleaningStep, ChangeCleaning, ReopenTicket, Tick, money
  <2> QED BY <1>1, <1>2, <2>1, <2>2, <2>3 DEF LockedStep
<1>3. ASSUME NEW r \in Reservations, ExpireUnpaid(r) PROVE CheckedOutOwesNoService'
  <2>1. OwesKept
    BY <1>0, <1>3 DEF ExpireUnpaid, ExpireHold, OwesKept, TablesOK, money
  <2> QED BY <2>1, OwesKeptIsEnough
<1>4. ASSUME NEW k \in Tickets, NEW rm \in Rooms, OpenTicket(k, rm) PROVE CheckedOutOwesNoService'
  BY <1>1, <1>4 DEF OpenTicket, RecordTicket, money
<1>5. ASSUME NEW h \in Handlers, HandlerStart(h) \/ HandlerLook(h) PROVE CheckedOutOwesNoService'
  <2>1. OnlyLooks(h) => UNCHANGED <<stay, service>>
    BY OnlyLooksIsQuiet DEF vars
  <2>2. ASSUME NEW k \in Tickets, NEW rm \in Rooms, OpenBlockingTicket(h, k, rm) PROVE UNCHANGED <<stay, service>>
    BY <2>2 DEF OpenBlockingTicket, RecordTicket, money
  <2> QED BY <1>1, <1>5, <2>1, <2>2 DEF HandlerStart, OnlyLooks
<1>6. ASSUME NEW h \in Handlers, HandlerEnd(h) PROVE CheckedOutOwesNoService'
  BY <1>6, EndsOweKept, OwesKeptIsEnough
<1> QED BY <1>1, <1>2, <1>3, <1>4, <1>5, <1>6 DEF Next, DeskStep, deskVars, vars

\* Nobody is checked out with a service still to be delivered, and nobody who has
\* left is given one.
THEOREM CheckedOutOweNothing == Spec => []CheckedOutOwesNoService
<1>1. DeskInit => CheckedOutOwesNoService
  BY DEF DeskInit, Init, CheckedOutOwesNoService
<1> QED BY <1>1, ServicesNext, TypeCorrect, PTL DEF Spec

-----------------------------------------------------------------------------
(* The desk implements the calendar *)

\* A step changes no name on a card but from or to its own guest, or from one who is off
\* the calendar.
OwnName(r) == \A rm \in Rooms :
  \/ room'[rm].guest = room[rm].guest
  \/ KeyBoard[rm] \in {r, Nobody} /\ room'[rm].guest \in {r, Nobody}

LEMMA KeyOfCard ==
  ASSUME TypeOK, NEW rm \in Rooms
  PROVE  KeyBoard[rm] = IF room[rm].guest \in Reservations /\ Sound(room[rm].guest)
                          THEN room[rm].guest ELSE Nobody
<1>1. room[rm].guest \in Reservations \cup {Nobody}
  BY DEF TypeOK, TablesOK, RoomRow
<1> QED BY <1>1, Guests DEF KeyBoard

LEMMA KeyOfCardNext ==
  ASSUME TypeOK', NEW rm \in Rooms
  PROVE  KeyBoard'[rm] = IF room'[rm].guest \in Reservations /\ fate'[room'[rm].guest] # "overtaken"
                           THEN room'[rm].guest ELSE Nobody
<1>1. room'[rm].guest \in Reservations \cup {Nobody}
  BY DEF TypeOK, TablesOK, RoomRow
<1> QED BY <1>1, Guests DEF KeyBoard, Sound

\* A cabin that is available for r is nobody else's on the key board.
LEMMA AvailableHasNoKey ==
  ASSUME BookInv, NEW r \in Reservations, NEW rm \in Rooms, ~LivedInByOther(rm, r)
  PROVE  KeyBoard[rm] \in {r, Nobody}
<1>1. ASSUME NEW q \in Reservations \ {r}, room[rm].guest = q, Sound(q) PROVE FALSE
  BY <1>1 DEF BookInv, RoomCardNamesOccupant, LivedInByOther
<1> QED BY <1>1, KeyOfCard DEF BookInv

\* Neither is the cabin r lives in.
LEMMA HomeHasNoOtherKey ==
  ASSUME BookInv, NEW r \in Reservations, InHouse(r), stay[r].room \in Rooms
  PROVE  KeyBoard[stay[r].room] \in {r, Nobody}
<1>1. ~LivedInByOther(stay[r].room, r)
  BY DEF BookInv, OneOccupant, LivedInByOther
<1> QED BY <1>1, AvailableHasNoKey

LEMMA ResidenceNames ==
  ASSUME BookInv, NEW r \in Reservations, ResidenceStep(r)
  PROVE  OwnName(r)
<1>0. TablesOK
  BY DEF BookInv, TypeOK
<1>1. ASSUME NEW readinessOverride, CheckIn(r, readinessOverride) PROVE OwnName(r)
  <2>1. PICK rm \in Rooms :
          /\ ~LivedInByOther(rm, r)
          /\ room' = [room EXCEPT ![rm] = [status |-> "occupied", guest |-> r]]
    BY <1>1 DEF CheckIn, RoomAvailable
  <2> QED BY <1>0, <2>1, AvailableHasNoKey DEF OwnName, TablesOK
<1>2. ASSUME NEW to \in Rooms, MoveRoom(r, to) PROVE OwnName(r)
  <2>1. stay[r].room \in Rooms /\ InHouse(r) /\ ~LivedInByOther(to, r)
    BY <1>2, ResidentRow DEF MoveRoom, Sellable, RoomAvailable
  <2>2. room' = [Vacated(stay[r].room, "dirty") EXCEPT ![to] = [status |-> "occupied", guest |-> r]]
    BY <1>2 DEF MoveRoom
  <2> QED BY <1>0, <2>1, <2>2, AvailableHasNoKey, HomeHasNoOtherKey DEF OwnName, Vacated, TablesOK
<1>3. CASE CheckOut(r)
  <2>1. stay[r].room \in Rooms /\ InHouse(r)
    BY <1>3, ResidentRow DEF CheckOut
  <2>2. \E status : room' = Vacated(stay[r].room, status)
    BY <1>3 DEF CheckOut
  <2> QED BY <1>0, <2>1, <2>2, HomeHasNoOtherKey DEF OwnName, Vacated, TablesOK
<1>4. ASSUME NEW d, ExtendStay(r, d) \/ ChangeDepartureTime(r, d) PROVE OwnName(r)
  BY <1>4 DEF ExtendStay, ChangeDepartureTime, OwnName
<1>5. CASE RequestCleaning(r)
  BY <1>5 DEF RequestCleaning, OwnName
<1> QED BY <1>1, <1>2, <1>3, <1>4, <1>5 DEF ResidenceStep

\* A step of one reservation is a step of that party in the calendar.
LEMMA LocalIsAStep ==
  ASSUME DeskInv, DeskInv', NEW r \in Reservations, Only(r), OwnName(r)
  PROVE  Calendar!Next
<1>0. TypeOK /\ TypeOK'
  BY DEF DeskInv
<1>1. \A q \in Reservations \ {r} : SlotBoard'[q] = SlotBoard[q]
  BY DEF SlotBoard, Open, InHouse, Live, Sound, Only
<1>2. Calendar!OthersKeep(r)
  <2> SUFFICES ASSUME NEW rm \in Rooms, KeyBoard[rm] \notin {r, Nobody} \/ KeyBoard'[rm] \notin {r, Nobody}
               PROVE  KeyBoard'[rm] = KeyBoard[rm]
    BY DEF Calendar!OthersKeep
  <2>1. CASE room'[rm].guest = room[rm].guest
    BY <1>0, <2>1, KeyOfCard, KeyOfCardNext DEF Only, Sound
  <2>2. CASE KeyBoard[rm] \in {r, Nobody} /\ room'[rm].guest \in {r, Nobody}
    BY <1>0, <2>2, KeyOfCardNext
  <2> QED BY <2>1, <2>2 DEF OwnName
<1>3. Calendar!ConflictFree(SlotBoard')
  <2> SUFFICES ASSUME NEW p \in Reservations, NEW q \in Reservations, NEW rm \in Rooms, p # q
               PROVE  ~Calendar!Clash(SlotBoard'[p][rm], SlotBoard'[q][rm])
    BY DEF Calendar!ConflictFree
  <2>1. NoDoubleBooking'
    BY DEF DeskInv
  <2> QED BY <2>1 DEF NoDoubleBooking, Calendar!Clash, SlotBoard, Holding, Overlap
<1>4. \A rm \in Rooms : KeyBoard'[rm] = r => (Sound(r) /\ InHouse(r))' /\ stay'[r].room = rm
  <2> SUFFICES ASSUME NEW rm \in Rooms, KeyBoard'[rm] = r
               PROVE  (Sound(r) /\ InHouse(r))' /\ stay'[r].room = rm
    OBVIOUS
  <2>1. room'[rm].guest = r /\ Sound(r)'
    BY <1>0, KeyOfCardNext, Guests DEF Sound
  <2> QED BY <2>1 DEF DeskInv, RoomCardNamesOccupant
<1>5. \A rm \in Rooms : KeyBoard'[rm] = r => SlotBoard'[r][rm] # <<>>
  <2> SUFFICES ASSUME NEW rm \in Rooms, KeyBoard'[rm] = r
               PROVE  SlotBoard'[r][rm] # <<>>
    OBVIOUS
  <2>1. Sound(r)' /\ Live(r)' /\ unit'[r][rm].status # "free"
    BY <1>4 DEF DeskInv, OccupantHoldsUnit, Live
  <2>2. SlotBoard'[r][rm] = <<unit'[r][rm].arr, unit'[r][rm].dep>>
    BY <2>1 DEF SlotBoard
  <2> QED BY <2>2
<1>6. \A rm, other \in Rooms : KeyBoard'[rm] = r /\ KeyBoard'[other] = r => rm = other
  BY <1>4
<1>7. Calendar!Step(r)
  BY <1>1, <1>2, <1>3, <1>5, <1>6 DEF Calendar!Step
<1> QED BY <1>7 DEF Calendar!Next

\* A step that leaves bookings, stays and names alone leaves both boards alone.
LEMMA QuietOnCalendar ==
  ASSUME TypeOK, TypeOK', UNCHANGED <<res, unit, stay, fate>>,
         \A rm \in Rooms : room'[rm].guest = room[rm].guest
  PROVE  UNCHANGED <<SlotBoard, KeyBoard>>
<1>1. SlotBoard' = SlotBoard
  BY DEF SlotBoard, Open, InHouse, Live, Sound
<1>2. KeyBoard' = KeyBoard
  BY DEF KeyBoard, Sound
<1> QED BY <1>1, <1>2

LEMMA CalendarNext ==
  ASSUME DeskInv, DeskInv', [Next]_deskVars
  PROVE  Calendar!Next \/ UNCHANGED <<SlotBoard, KeyBoard>>
<1>0. TypeOK /\ TypeOK' /\ TablesOK /\ BookInv /\ InFlight
  BY InvIsParts DEF DeskInv, TypeOK
<1>a. ASSUME NEW r \in Reservations, Only(r), room' = room
      PROVE  Calendar!Next
  BY <1>a, LocalIsAStep DEF OwnName
<1>b. ASSUME UNCHANGED <<res, unit, stay, fate, room>>
      PROVE  UNCHANGED <<SlotBoard, KeyBoard>>
  BY <1>0, <1>b, QuietOnCalendar
<1>1. CASE UNCHANGED deskVars
  BY <1>b, <1>1 DEF deskVars, vars
<1>2. CASE LockedStep
  <2>1. fate' = fate
    BY <1>2 DEF LockedStep
  <2>2. ASSUME NEW r \in Reservations, BookingMovesStage(r) PROVE Calendar!Next
    BY <1>0, <1>a, <2>1, <2>2, BookingOnly
  <2>3. ASSUME NEW r \in Reservations, ResidenceStep(r), UNCHANGED stage PROVE Calendar!Next
    BY <1>0, <2>1, <2>3, ResidenceOnly, ResidenceNames, LocalIsAStep
  <2>4. ASSUME \/ \E r \in Reservations : AccountStep(r)
               \/ \E rm \in Rooms : CreateCleaning(rm)
               \/ \E t \in Tasks : CleaningStep(t)
               \/ \E k \in Tickets : ReopenTicket(k)
               \/ Tick
        PROVE  UNCHANGED <<res, unit, stay, room>>
    BY <2>4 DEF AccountStep, AddStayPayment, AddLeadPayment, BookService, ChangeServiceStatus,
                CreateCleaning, CleaningStep, ChangeCleaning, ReopenTicket, Tick
  <2> QED BY <1>2, <1>b, <2>1, <2>2, <2>3, <2>4 DEF LockedStep
<1>3. ASSUME NEW r \in Reservations, ExpireUnpaid(r) PROVE Calendar!Next
  <2>1. \A q \in Reservations \ {r} : res'[q] = res[q] /\ unit'[q] = unit[q] /\ stay'[q] = stay[q]
    BY <1>0, <1>3 DEF ExpireUnpaid, ExpireHold, Release, TablesOK
  <2>2. \A q \in Reservations \ {r} : stage'[q] = stage[q] /\ fate'[q] = fate[q]
    BY <1>0, <1>3 DEF ExpireUnpaid, TypeOK
  <2>3. room' = room
    BY <1>3 DEF ExpireUnpaid, ExpireHold
  <2> QED BY <1>a, <2>1, <2>2, <2>3 DEF Only
<1>4. ASSUME NEW k \in Tickets, NEW rm \in Rooms, OpenTicket(k, rm) PROVE UNCHANGED <<SlotBoard, KeyBoard>>
  BY <1>b, <1>4 DEF OpenTicket, RecordTicket
<1>5. ASSUME NEW h \in Handlers, HandlerStart(h) \/ HandlerLook(h) PROVE UNCHANGED <<SlotBoard, KeyBoard>>
  <2>1. Aside(h)
    BY <1>5 DEF Aside, OnlyLooks, HandlerStart
  <2> QED BY <1>0, <1>b, <2>1, InvAside
<1>6. ASSUME NEW h \in Handlers, CommitPayment(h) PROVE Calendar!Next
  <2> PICK r \in Reservations : Pays(r, handler[h].status)
    BY <1>0, <1>6, PaymentActs
  <2> QED BY <1>0, <1>a, PaysOnly, PaysOrNot
<1>7. ASSUME NEW h \in Handlers, CommitCancellation(h) PROVE Calendar!Next
  <2> PICK r \in Reservations : Cancels(r)
    BY <1>0, <1>7, CancellationActs
  <2>1. Only(r) /\ room' = room
    BY <1>0 DEF Cancels, Only, TypeOK, TablesOK
  <2> QED BY <1>a, <2>1
<1>8. ASSUME NEW h \in Handlers, NEW rm \in Rooms, AssignFurther(h, rm) PROVE Calendar!Next
  <2> PICK r \in Reservations, a \in Times, d \in Times : Furthers(r, rm, a, d)
    BY <1>0, <1>8, FurtherActs
  <2>1. Only(r) /\ room' = room
    BY <1>0 DEF Furthers, Only, TypeOK, TablesOK
  <2> QED BY <1>a, <2>1
<1>9. ASSUME NEW h \in Handlers,
             CommitInspection(h) \/ CommitRoomStatus(h) \/ BlockRoom(h) \/ CommitClosure(h)
      PROVE  UNCHANGED <<SlotBoard, KeyBoard>>
  <2>1. UNCHANGED <<res, unit, stay, fate>>
    BY <1>9 DEF CommitInspection, RecordInspection, CommitRoomStatus, BlockRoom, RecordRoomStatus,
                CommitClosure, RecordClosure
  <2>2. room' = room \/ \E x, status : room' = [room EXCEPT ![x].status = status]
    BY <1>9 DEF CommitInspection, RecordInspection, CommitRoomStatus, BlockRoom, RecordRoomStatus,
                CommitClosure, RecordClosure
  <2>3. \A rm \in Rooms : room'[rm].guest = room[rm].guest
    BY <1>0, <2>2, NamesKept
  <2> QED BY <1>0, <2>1, <2>3, QuietOnCalendar
<1>10. ASSUME NEW h \in Handlers, CommitJourney(h) \/ Abort(h) PROVE UNCHANGED <<SlotBoard, KeyBoard>>
  BY <1>b, <1>10 DEF CommitJourney, Abort, vars
<1> QED BY <1>1, <1>2, <1>3, <1>4, <1>5, <1>6, <1>7, <1>8, <1>9, <1>10 DEF Next, DeskStep, HandlerEnd

\* Whatever the desk and its unlocked handlers do is, on the calendar and the key
\* board, a step of one party that leaves every other party's nights and key alone,
\* or no step at all.
THEOREM DeskKeepsCalendar == Spec => KeepsCalendar
<1>1. DeskInit => Calendar!Init
  <2> SUFFICES ASSUME DeskInit PROVE Calendar!Init
    OBVIOUS
  <2>1. \A r \in Reservations : ~Live(r)
    BY DEF DeskInit, Init, Live, Open, OpenStatuses, InHouse
  <2>2. \A rm \in Rooms : room[rm].guest = Nobody
    BY DEF DeskInit, Init
  <2>3. SlotBoard = [r \in Reservations |-> [rm \in Rooms |-> <<>>]]
    BY <2>1 DEF SlotBoard
  <2>4. KeyBoard = [rm \in Rooms |-> Nobody]
    BY <2>2, Guests DEF KeyBoard
  <2> QED BY <2>3, <2>4 DEF Calendar!Init
<1>2. DeskInv /\ DeskInv' /\ [Next]_deskVars => [Calendar!Next]_<<SlotBoard, KeyBoard>>
  BY CalendarNext
<1> QED BY <1>1, <1>2, DeskInvariant, PTL DEF Spec, KeepsCalendar, Calendar!Spec
=============================================================================
