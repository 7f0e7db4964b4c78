------------------------ MODULE GuestMessages_proofs ------------------------
(***************************************************************************)
(* What holds of the messages for any number of workers, reminders and     *)
(* arrivals: only what the guest was shown is recorded as sent, no         *)
(* reminder of another arrival waits to be sent unless a receipt planned   *)
(* it from a stale read, and a hold that ran out takes no money.           *)
(***************************************************************************)
EXTENDS GuestMessages, TLAPS

JobStates == {"none", "pending", "sent", "failed", "cancelled"}

Seen == [status : {"none", "pending_payment", "confirmed", "cancelled", "no_show"}, arr : Nat, day : Nat]

Works == [at : {"idle", "receiving", "read", "called", "accepted", "answered"},
          mail : Mails \cup {Nothing}, ok : BOOLEAN, seen : Seen]

Bookings == [status : {"none", "pending_payment", "confirmed", "cancelled", "no_show"},
             hold : Nat \cup {Never}, arr : Nat, moves : Nat, expired : BOOLEAN, stale : BOOLEAN]

\* The tables keep the shape of the schema, and a request in the middle of a delivery
\* remembers which message it delivers.
Shape ==
  /\ today \in Nat
  /\ res \in Bookings
  /\ row \in [Mails -> {"none", "pending", "sent", "failed"}]
  /\ job \in [Jobs -> JobStates]
  /\ worker \in [Workers -> Works]
  /\ \A w \in Workers : worker[w].at \notin {"idle", "receiving"} => worker[w].mail \in Mails

\* A worker that is about to record a delivery has seen the provider's, or a record of it.
WorkersSawTheDelivery == \A w \in Workers :
  worker[w].at = "accepted" \/ (worker[w].at = "answered" /\ worker[w].ok)
    => worker[w].mail \in guest

\* Before it is booked, a reservation has no reminders planned.
PlannedOnceBooked == res.status = "none" => \A j \in Planned : job[j] # "pending"

\* After the expiry of the hold no receipt is in flight, and none can begin.
ExpiredIsOver == res.expired => res.status = "cancelled" /\ InvoiceIsFree

MessageInv ==
  /\ Shape
  /\ RecordsOnlyConfirmedDelivery
  /\ WorkersSawTheDelivery
  /\ WaitingReminderIsCurrent
  /\ PlannedOnceBooked
  /\ ExpiredIsOver

-----------------------------------------------------------------------------
(* Reminders *)

LEMMA JobsAreMails == Planned \subseteq Jobs /\ Manual \subseteq Jobs /\ Jobs \subseteq Mails
  BY DEF Jobs, Mails

\* Planning adds reminders of the given arrival only.
LEMMA PlanAdds ==
  ASSUME NEW jobs \in [Jobs -> JobStates], NEW arr, NEW day
  PROVE  /\ WithPlan(jobs, arr, day) \in [Jobs -> JobStates]
         /\ \A j \in Jobs : WithPlan(jobs, arr, day)[j] = "sent" => jobs[j] = "sent"
         /\ \A j \in Jobs : WithPlan(jobs, arr, day)[j] = "pending" => jobs[j] = "pending" \/ j.arr = arr
  BY DEF WithPlan, JobStates

\* Withdrawing leaves no reminder waiting.
LEMMA WithdrawnWaitsNot ==
  ASSUME NEW jobs \in [Jobs -> JobStates]
  PROVE  /\ Withdrawn(jobs) \in [Jobs -> JobStates]
         /\ \A j \in Jobs : Withdrawn(jobs)[j] = "sent" => jobs[j] = "sent"
         /\ \A j \in Jobs : Withdrawn(jobs)[j] # "pending"
  BY DEF Withdrawn, JobStates

-----------------------------------------------------------------------------
(* The steps of the desk *)

LEMMA MovedBooking ==
  ASSUME NEW r \in Bookings, NEW arr \in Nat, NEW b,
         b = [r EXCEPT !.arr = arr, !.moves = @ + 1, !.stale = FALSE]
  PROVE  b \in Bookings /\ b.arr = arr /\ b.status = r.status /\ b.expired = r.expired
<1>1. r.moves \in Nat
  BY DEF Bookings
<1>2. r.moves + 1 \in Nat
  BY <1>1
<1>3. \A n \in Nat : [r EXCEPT !.arr = arr, !.moves = n, !.stale = FALSE] \in Bookings
  BY DEF Bookings
<1>4. b \in Bookings
  BY <1>2, <1>3
<1> QED
  BY <1>4 DEF Bookings

LEMMA NewBooking ==
  ASSUME NEW r \in Bookings, NEW arr \in Nat, NEW hold \in Nat
  PROVE  /\ [r EXCEPT !.status = "pending_payment", !.hold = hold, !.arr = arr] \in Bookings
         /\ [r EXCEPT !.status = "confirmed", !.arr = arr] \in Bookings
  BY DEF Bookings

\* What the desk may do to the reminders: none is marked as sent, and those that wait
\* are of the arrival that is now the reservation's.
DeskMay ==
  /\ res' \in Bookings
  /\ today' \in Nat
  /\ job' \in [Jobs -> JobStates]
  /\ \A j \in Jobs : job'[j] = "sent" => job[j] = "sent"
  /\ res'.stale \/ \A j \in Planned : job'[j] = "pending" => j.arr = res'.arr
  /\ res'.status = "none" => \A j \in Planned : job'[j] # "pending"
  /\ res'.expired => res'.status = "cancelled" /\ InvoiceIsFree

LEMMA DeskKeeps ==
  ASSUME MessageInv, DeskMay, UNCHANGED <<row, guest, worker>>
  PROVE  MessageInv'
  BY DEF MessageInv, Shape, RecordsOnlyConfirmedDelivery, WorkersSawTheDelivery,
     WaitingReminderIsCurrent, RescheduleLeavesNoOldReminder, PlannedOnceBooked, ExpiredIsOver,
     InvoiceIsFree, DeskMay

DeskStep ==
  \/ \E arr \in Arrivals : Move(arr) \/ \E deposit \in BOOLEAN : Book(arr, deposit)
  \/ Cancel \/ ExpireHold \/ NextDay
  \/ \E status \in {"no_show", "cancelled"} : EndElsewhere(status)
  \/ \E key \in Manual : RemindNow(key)

LEMMA DeskStepsMay == MessageInv /\ DeskStep => DeskMay /\ UNCHANGED <<row, guest, worker>>
<1> SUFFICES ASSUME MessageInv, DeskStep PROVE DeskMay /\ UNCHANGED <<row, guest, worker>>
  OBVIOUS
<1> USE JobsAreMails, DaysAreNumbers DEF MessageInv, Shape, WaitingReminderIsCurrent,
        RescheduleLeavesNoOldReminder, PlannedOnceBooked, ExpiredIsOver, DeskMay
<1>1. ASSUME NEW arr \in Arrivals, Move(arr) PROVE DeskMay /\ UNCHANGED <<row, guest, worker>>
  <2>1. /\ job' = WithPlan(Withdrawn(job), arr, today) \/ job' = Withdrawn(job)
        /\ res' = [res EXCEPT !.arr = arr, !.moves = @ + 1, !.stale = FALSE]
        /\ today' = today /\ res.status \in {"pending_payment", "confirmed"}
    BY <1>1 DEF Move
  <2>2. res' \in Bookings /\ res'.arr = arr /\ res'.status # "none" /\ ~res'.expired
    <3>1. res \in Bookings /\ arr \in Nat /\ ~res.expired
      BY <2>1
    <3>2. /\ res' \in Bookings /\ res'.arr = arr
          /\ res'.status = res.status /\ res'.expired = res.expired
      BY ONLY <2>1, <3>1, MovedBooking
    <3> QED BY <2>1, <3>1, <3>2
  <2>3. CASE job' = Withdrawn(job)
    BY <1>1, <2>1, <2>2, <2>3, WithdrawnWaitsNot DEF Move
  <2>4. CASE job' = WithPlan(Withdrawn(job), arr, today)
    BY <1>1, <2>1, <2>2, <2>4, WithdrawnWaitsNot, PlanAdds DEF Move
  <2> QED BY <2>1, <2>3, <2>4
<1>2. ASSUME NEW arr \in Arrivals, NEW deposit \in BOOLEAN, Book(arr, deposit)
      PROVE  DeskMay /\ UNCHANGED <<row, guest, worker>>
  <2>1. /\ res' \in Bookings /\ res'.arr = arr /\ res'.status # "none" /\ ~res'.expired
        /\ today' = today
        /\ job' = job \/ job' = WithPlan(job, arr, today)
        /\ \A j \in Planned : job[j] # "pending"
    <3>1. CASE deposit
      <4>1. res' = [res EXCEPT !.status = "pending_payment", !.hold = today + 1, !.arr = arr]
        BY <1>2, <3>1 DEF Book
      <4>2. res' \in Bookings
        <5>1. today \in Nat /\ res \in Bookings
          OBVIOUS
        <5>2. today + 1 \in Nat
          BY <5>1
        <5> QED BY <4>1, <5>1, <5>2, NewBooking
      <4> QED BY <1>2, <3>1, <4>1, <4>2 DEF Book, Bookings
    <3>2. CASE ~deposit
      <4>1. res' = [res EXCEPT !.status = "confirmed", !.arr = arr]
        BY <1>2, <3>2 DEF Book
      <4>2. res' \in Bookings
        BY <4>1, NewBooking, 0 \in Nat
      <4> QED BY <1>2, <3>2, <4>1, <4>2 DEF Book, Bookings
    <3> QED BY <3>1, <3>2
  <2> QED BY <1>2, <2>1, PlanAdds DEF Book
<1>3. CASE Cancel
  <2>1. /\ res' \in Bookings /\ res'.arr = res.arr /\ res'.status # "none" /\ ~res'.expired
    BY <1>3 DEF Cancel, Bookings
  <2> QED BY <1>3, <2>1, WithdrawnWaitsNot DEF Cancel
<1>4. CASE ExpireHold
  <2>1. /\ res' \in Bookings /\ res'.arr = res.arr /\ res'.status = "cancelled"
    BY <1>4 DEF ExpireHold, Bookings
  <2> QED BY <1>4, <2>1, WithdrawnWaitsNot DEF ExpireHold
<1>5. CASE NextDay
  BY <1>5 DEF NextDay
<1>6. ASSUME NEW status \in {"no_show", "cancelled"}, EndElsewhere(status)
      PROVE  DeskMay /\ UNCHANGED <<row, guest, worker>>
  <2>1. /\ res' \in Bookings /\ res'.arr = res.arr /\ res'.status # "none"
        /\ ~res'.expired /\ res'.stale = res.stale
    BY <1>6 DEF EndElsewhere, Bookings
  <2> QED BY <1>6, <2>1 DEF EndElsewhere
<1>7. ASSUME NEW key \in Manual, RemindNow(key) PROVE DeskMay /\ UNCHANGED <<row, guest, worker>>
  BY <1>7, ManualHasNoPlan DEF RemindNow, JobStates
<1> QED
  BY <1>1, <1>2, <1>3, <1>4, <1>5, <1>6, <1>7 DEF DeskStep

-----------------------------------------------------------------------------
(* The steps of a worker *)

LEMMA WrittenKeeps ==
  ASSUME Shape, NEW w \in Workers, NEW mail \in Mails, Written(w, mail)
  PROVE  /\ row' \in [Mails -> {"none", "pending", "sent", "failed"}]
         /\ \A m \in Mails : row'[m] = "sent" => row[m] = "sent"
         /\ worker' \in [Workers -> Works]
         /\ worker'[w].at = "read" /\ worker'[w].mail = mail
         /\ \A v \in Workers \ {w} : worker'[v] = worker[v]
<1>1. worker \in [Workers -> Works] /\ row \in [Mails -> {"none", "pending", "sent", "failed"}]
  BY DEF Shape
<1>2. worker' = [worker EXCEPT ![w] = [Idle EXCEPT !.at = "read", !.mail = mail]]
  BY DEF Written
<1>3. [Idle EXCEPT !.at = "read", !.mail = mail] \in Works
  BY DEF Idle, Unread, Works, Seen
<1>4. /\ [Idle EXCEPT !.at = "read", !.mail = mail].at = "read"
      /\ [Idle EXCEPT !.at = "read", !.mail = mail].mail = mail
  BY DEF Idle
<1> QED
  BY <1>1, <1>2, <1>3, <1>4 DEF Written

\* A request that writes a message records no delivery.
LEMMA WritingKeeps ==
  ASSUME MessageInv, NEW w \in Workers, NEW mail \in Mails, Written(w, mail), DeskMay, guest' = guest
  PROVE  MessageInv'
<1>1. /\ row' \in [Mails -> {"none", "pending", "sent", "failed"}]
      /\ \A m \in Mails : row'[m] = "sent" => row[m] = "sent"
      /\ worker' \in [Workers -> Works]
      /\ worker'[w].at = "read" /\ worker'[w].mail = mail
      /\ \A v \in Workers \ {w} : worker'[v] = worker[v]
  <2>1. Shape
    BY DEF MessageInv
  <2> QED BY <2>1, WrittenKeeps
<1>2. Shape'
  BY <1>1 DEF MessageInv, Shape, DeskMay
<1>3. RecordsOnlyConfirmedDelivery' /\ WorkersSawTheDelivery'
  BY <1>1 DEF MessageInv, RecordsOnlyConfirmedDelivery, WorkersSawTheDelivery, DeskMay
<1>4. WaitingReminderIsCurrent' /\ PlannedOnceBooked'
  BY DEF WaitingReminderIsCurrent, RescheduleLeavesNoOldReminder, PlannedOnceBooked, DeskMay
<1>5. ExpiredIsOver'
  BY <1>1 DEF ExpiredIsOver, InvoiceIsFree, DeskMay
<1> QED
  BY <1>2, <1>3, <1>4, <1>5 DEF MessageInv

LEMMA UnchangedMay == MessageInv /\ UNCHANGED <<today, res, job>> => DeskMay
  BY JobsAreMails DEF MessageInv, Shape, DeskMay, WaitingReminderIsCurrent,
     RescheduleLeavesNoOldReminder, PlannedOnceBooked, ExpiredIsOver

LEMMA RequestsKeep ==
  ASSUME MessageInv, NEW w \in Workers,
         \/ \E desk \in BOOLEAN : StartReceipt(w, desk)
         \/ FinishReceipt(w)
         \/ \E key \in {Invoice} \cup Resends : SendInvoice(w, key)
         \/ \E j \in Jobs : DeliverJob(w, j)
  PROVE  MessageInv'
<1>1. ASSUME NEW desk \in BOOLEAN, StartReceipt(w, desk) PROVE MessageInv'
  <2>1. /\ ~res.expired
        /\ worker' = [worker EXCEPT ![w].at = "receiving",
                        ![w].seen = [status |-> res.status, arr |-> res.arr, day |-> today]]
        /\ UNCHANGED <<today, res, row, job, guest>>
    BY <1>1 DEF StartReceipt, Payable, MessageInv, ExpiredIsOver
  <2>2. /\ worker' \in [Workers -> Works]
        /\ worker'[w].at = "receiving"
        /\ \A v \in Workers \ {w} : worker'[v] = worker[v]
    <3>1. worker \in [Workers -> Works] /\ res \in Bookings /\ today \in Nat
      BY DEF MessageInv, Shape
    <3>2. [status |-> res.status, arr |-> res.arr, day |-> today] \in Seen
      BY <3>1 DEF Bookings, Seen
    <3> DEFINE seen == [status |-> res.status, arr |-> res.arr, day |-> today]
    <3>3. seen \in Seen /\ worker' = [worker EXCEPT ![w].at = "receiving", ![w].seen = seen]
      BY <2>1, <3>2
    <3> HIDE DEF seen
    <3> QED BY <3>1, <3>3 DEF Works
  <2>3. Shape' /\ RecordsOnlyConfirmedDelivery' /\ WorkersSawTheDelivery'
    BY <2>1, <2>2 DEF MessageInv, Shape, RecordsOnlyConfirmedDelivery, WorkersSawTheDelivery
  <2>4. WaitingReminderIsCurrent' /\ PlannedOnceBooked' /\ ExpiredIsOver'
    BY <2>1 DEF MessageInv, WaitingReminderIsCurrent, RescheduleLeavesNoOldReminder, PlannedOnceBooked,
       ExpiredIsOver
  <2> QED BY <2>3, <2>4 DEF MessageInv
<1>4. CASE FinishReceipt(w)
  <2>1. /\ worker[w].at = "receiving" /\ worker[w] \in Works /\ res \in Bookings
        /\ today' = today /\ guest' = guest /\ ~res.expired
    BY <1>4 DEF FinishReceipt, MessageInv, Shape, ExpiredIsOver, InvoiceIsFree
  <2>2. DeskMay
    <3>1. CASE worker[w].seen.status = "pending_payment"
      <4> DEFINE seen == worker[w].seen
      <4>1. /\ res' = [res EXCEPT !.status = "confirmed", !.hold = Never,
                                  !.stale = @ \/ seen.arr # res.arr]
            /\ job' = WithPlan(job, seen.arr, seen.day)
        BY <1>4, <3>1 DEF FinishReceipt
      <4>2. /\ res' \in Bookings /\ res'.arr = res.arr /\ res'.status = "confirmed" /\ ~res'.expired
            /\ res.stale \/ seen.arr # res.arr => res'.stale
        BY <2>1, <4>1 DEF Bookings
      <4>3. /\ job' \in [Jobs -> JobStates]
            /\ \A j \in Jobs : job'[j] = "sent" => job[j] = "sent"
            /\ \A j \in Jobs : job'[j] = "pending" => job[j] = "pending" \/ j.arr = seen.arr
        BY <4>1, PlanAdds DEF MessageInv, Shape
      <4>4. res'.stale \/ \A j \in Planned : job'[j] = "pending" => j.arr = res'.arr
        BY <4>2, <4>3, JobsAreMails DEF MessageInv, WaitingReminderIsCurrent, RescheduleLeavesNoOldReminder
      <4> QED BY <2>1, <4>2, <4>3, <4>4 DEF DeskMay, MessageInv, Shape
    <3>2. CASE worker[w].seen.status # "pending_payment"
      BY <1>4, <2>1, <3>2, UnchangedMay DEF FinishReceipt
    <3> QED BY <3>1, <3>2
  <2>3. CASE Written(w, Confirmation)
    BY <2>1, <2>2, <2>3, WritingKeeps DEF Mails
  <2>4. CASE worker' = [worker EXCEPT ![w] = Idle] /\ UNCHANGED row
    <3>1. worker' \in [Workers -> Works] /\ worker'[w].at = "idle" /\ \A v \in Workers \ {w} : worker'[v] = worker[v]
      BY <2>4 DEF MessageInv, Shape, Idle, Unread, Works, Seen
    <3>2. Shape' /\ RecordsOnlyConfirmedDelivery' /\ WorkersSawTheDelivery'
      BY <2>1, <2>2, <2>4, <3>1
      DEF DeskMay, MessageInv, Shape, RecordsOnlyConfirmedDelivery, WorkersSawTheDelivery
    <3>3. WaitingReminderIsCurrent' /\ PlannedOnceBooked' /\ ExpiredIsOver'
      BY <2>2, <3>1
      DEF DeskMay, WaitingReminderIsCurrent, RescheduleLeavesNoOldReminder, PlannedOnceBooked,
          ExpiredIsOver, InvoiceIsFree
    <3> QED BY <3>2, <3>3 DEF MessageInv
  <2> QED BY <1>4, <2>3, <2>4 DEF FinishReceipt
<1>2. ASSUME NEW key \in {Invoice} \cup Resends, SendInvoice(w, key) PROVE MessageInv'
  BY <1>2, UnchangedMay, WritingKeeps DEF SendInvoice, Mails
<1>3. ASSUME NEW j \in Jobs, DeliverJob(w, j) PROVE MessageInv'
  BY <1>3, UnchangedMay, WritingKeeps, JobsAreMails DEF DeliverJob
<1> QED
  BY <1>1, <1>2, <1>3, <1>4

LEMMA DeliveryKeeps ==
  ASSUME MessageInv, NEW w \in Workers,
         ReadRow(w) \/ Accept(w) \/ MarkSent(w) \/ MarkFailed(w) \/ Finish(w) \/ Crash(w)
  PROVE  MessageInv'
<1> USE DEF MessageInv, Shape, RecordsOnlyConfirmedDelivery, WorkersSawTheDelivery,
            WaitingReminderIsCurrent, RescheduleLeavesNoOldReminder, PlannedOnceBooked, ExpiredIsOver,
            InvoiceIsFree, booking
<1>1. worker[w] \in Works
  OBVIOUS
<1>2. CASE ReadRow(w)
  BY <1>1, <1>2 DEF ReadRow, Answer, Works
<1>3. CASE Accept(w)
  BY <1>1, <1>3 DEF Accept, Works
<1>4. CASE MarkSent(w)
  BY <1>1, <1>4 DEF MarkSent, Answer, Works
<1>5. CASE MarkFailed(w)
  BY <1>1, <1>5 DEF MarkFailed, Answer, Works
<1>6. CASE Finish(w)
  <2>1. /\ worker' = [worker EXCEPT ![w] = Idle]
        /\ UNCHANGED <<today, res, row, guest>>
        /\ worker[w].at = "answered"
        /\ job' = IF worker[w].mail \in Jobs
                  THEN [job EXCEPT ![worker[w].mail] = IF worker[w].ok THEN "sent" ELSE "failed"]
                  ELSE job
    BY <1>6 DEF Finish
  <2>2. /\ job' \in [Jobs -> JobStates]
        /\ \A j \in Jobs : job'[j] = "sent" => job[j] = "sent" \/ (j = worker[w].mail /\ worker[w].ok)
        /\ \A j \in Jobs : job'[j] = "pending" => job[j] = "pending"
    BY <1>1, <2>1 DEF JobStates, Works
  <2> QED BY <2>1, <2>2, JobsAreMails DEF Idle, Unread, Works, Seen
<1>7. CASE Crash(w)
  BY <1>7 DEF Crash, Idle, Unread, Works, Seen
<1> QED
  BY <1>2, <1>3, <1>4, <1>5, <1>6, <1>7

-----------------------------------------------------------------------------
(* Theorems *)

LEMMA Initially == Init => MessageInv
  BY JobsAreMails DEF Init, MessageInv, Shape, RecordsOnlyConfirmedDelivery, WorkersSawTheDelivery,
     WaitingReminderIsCurrent, RescheduleLeavesNoOldReminder, PlannedOnceBooked, ExpiredIsOver,
     Idle, Unread, Works, Seen, Bookings, JobStates

LEMMA StepKeeps == MessageInv /\ [Next]_vars => MessageInv'
<1> SUFFICES ASSUME MessageInv, [Next]_vars PROVE MessageInv'
  OBVIOUS
<1>1. CASE DeskStep
  BY <1>1, DeskStepsMay, DeskKeeps
<1>2. ASSUME NEW w \in Workers, WorkerStep(w) PROVE MessageInv'
  BY <1>2, RequestsKeep, DeliveryKeeps DEF WorkerStep
<1>3. CASE UNCHANGED vars
  BY <1>3, UnchangedMay, DeskKeeps DEF vars
<1> QED
  BY <1>1, <1>2, <1>3 DEF Next, DeskStep

\* The inductive invariant of the messages.
THEOREM MessageInvariant == Spec => []MessageInv
  BY Initially, StepKeeps, PTL DEF Spec

\* However many workers take up a reminder, time out and stop, what is recorded as sent
\* was shown to the guest.
THEOREM OnlyDeliveriesAreRecorded == Spec => []RecordsOnlyConfirmedDelivery
<1>1. MessageInv => RecordsOnlyConfirmedDelivery
  BY DEF MessageInv
<1> QED
  BY MessageInvariant, <1>1, PTL

\* A reminder that waits is about the arrival the reservation has now, unless a receipt
\* planned it for the arrival it had read before the last change.
THEOREM RemindersAreCurrent == Spec => []WaitingReminderIsCurrent
<1>1. MessageInv => WaitingReminderIsCurrent
  BY DEF MessageInv
<1> QED
  BY MessageInvariant, <1>1, PTL


-----------------------------------------------------------------------------
(* Money *)

\* Only a receipt in flight records a payment, and only it confirms a reservation again.
LEMMA ExpiredStep ==
  ASSUME MessageInv, res.expired, [Next]_vars
  PROVE  receipts' = receipts /\ res' = res
<1>1. res.status = "cancelled" /\ \A w \in Workers : worker[w].at # "receiving"
  BY DEF MessageInv, ExpiredIsOver, InvoiceIsFree
<1>2. CASE DeskStep
  BY <1>1, <1>2 DEF DeskStep, Move, Book, Cancel, ExpireHold, NextDay, EndElsewhere, RemindNow
<1>3. ASSUME NEW w \in Workers, WorkerStep(w) PROVE receipts' = receipts /\ res' = res
  <2>1. ~FinishReceipt(w)
    BY <1>1 DEF FinishReceipt
  <2> QED
    BY <1>3, <2>1 DEF WorkerStep, StartReceipt, SendInvoice, DeliverJob, ReadRow, Accept, MarkSent,
       MarkFailed, Finish, Crash, booking
<1> QED
  BY <1>2, <1>3 DEF Next, DeskStep, vars

\* A reservation whose hold ran out stays cancelled and takes no money, although a late
\* answer of the provider can set its expired payment request back to sent.
THEOREM ExpiredTakesNothing == Spec => ExpiredTakesNoMoney
<1>1. MessageInv /\ [Next]_vars => [res.expired => receipts' = receipts /\ res'.status = "cancelled"]_vars
  BY ExpiredStep DEF MessageInv, ExpiredIsOver
<1> QED
  BY MessageInvariant, <1>1, PTL DEF Spec, ExpiredTakesNoMoney

=============================================================================
