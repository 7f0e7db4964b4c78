---------------------------- MODULE GuestMessages ----------------------------
(***************************************************************************)
(* The deposit request of a reservation, its reminders, and the messages   *)
(* that carry both to the guest.                                           *)
(*                                                                         *)
(* A message is a row that is written in one transaction, given to a       *)
(* provider afterwards and marked in a further statement; the request or   *)
(* the reminder it was written for is marked in one more.  A worker (a     *)
(* desk request, or n8n polling the reminders that are due) can stop       *)
(* between any two of them.  The provider answers, fails, or is too slow,  *)
(* and then it may have shown the row nevertheless.  It honours the row's  *)
(* idempotency key, so it shows a row to the guest once.                   *)
(*                                                                         *)
(* Abstractions: one reservation, and one amount that is its deposit; days *)
(* for times; the text, the channel and the price of a message are left    *)
(* out.  A receipt has two steps, because it locks its payment request and *)
(* not the reservation: what it read of that may have changed when it      *)
(* writes.                                                                 *)
(***************************************************************************)
EXTENDS Integers, Sequences, FiniteSets

CONSTANTS
  Workers,   \* bound: requests and polling workers at the same time
  Triggers,  \* days before the arrival at which a reminder is due
  Arrivals,  \* days on which the guest may arrive
  Manual,    \* idempotency keys of reminders sent by hand
  Horizon,   \* bound: the last day
  Resends,   \* keys with which the payment request is sent again
  MaxMoves,  \* bound: changes of the arrival
  MaxReceipts, \* bound: payments recorded
  Never,     \* no deadline
  Invoice, Confirmation, Nothing  \* what a message that is no reminder is about

ASSUME DaysAreNumbers == Triggers \subseteq Nat /\ Arrivals \subseteq Nat /\ Horizon \in Nat
ASSUME BoundsAreNumbers == MaxMoves \in Nat /\ MaxReceipts \in Nat /\ Never > Horizon + 1

\* Time starts at 0: a reminder due by then is in the past for every booking.
Planned == {j \in [before : Triggers, arr : Arrivals] : j.arr > j.before}
Jobs == Planned \cup Manual
ASSUME ManualHasNoPlan == Manual \cap Planned = {}
Mails == {Invoice, Confirmation} \cup Resends \cup Jobs

VARIABLES
  today,
  res,       \* the reservation: status, hold deadline, arrival; history: the moves so far,
             \* whether its hold ran out, whether a receipt planned for an older arrival
  chat,      \* a conversation is linked to the request and its reservation
  invoice,   \* payment_requests: status, and whether it names a conversation
  receipts,  \* guest_payments recorded for the request
  job,       \* scheduled_outbound_messages
  row,       \* messages, by idempotency key: the delivery status
  guest,     \* messages the provider has shown to the guest
  worker     \* the requests in flight

vars == <<today, res, chat, invoice, receipts, job, row, guest, worker>>
booking == <<today, res, chat, receipts>>

Unread == [status |-> "none", arr |-> 0, day |-> 0]
Idle == [at |-> "idle", mail |-> Nothing, ok |-> FALSE, seen |-> Unread]

Init ==
  /\ today = 0
  /\ res = [status |-> "none", hold |-> Never, arr |-> 0, moves |-> 0, expired |-> FALSE, stale |-> FALSE]
  /\ chat \in BOOLEAN
  /\ invoice = [status |-> "none", chat |-> FALSE]
  /\ receipts = 0
  /\ job = [j \in Jobs |-> "none"]
  /\ row = [m \in Mails |-> "none"]
  /\ guest = {}
  /\ worker = [w \in Workers |-> Idle]

-----------------------------------------------------------------------------
(* Rows and reminders *)

Lapsed == res.hold < today

\* A message with this key is used again; the key is unique in the table.
Written(w, mail) ==
  /\ row' = [row EXCEPT ![mail] = IF @ = "none" THEN "pending" ELSE @]
  /\ worker' = [worker EXCEPT ![w] = [Idle EXCEPT !.at = "read", !.mail = mail]]

\* Reminders of this arrival that are not past on that day and were never planned.
WithPlan(jobs, arr, day) == [j \in Jobs |->
  IF j \in Planned /\ j.arr = arr /\ j.arr - j.before > day /\ jobs[j] = "none"
    THEN "pending" ELSE jobs[j]]

Withdrawn(jobs) == [j \in Jobs |-> IF jobs[j] = "pending" THEN "cancelled" ELSE jobs[j]]

\* A receipt in flight holds the row of the payment request.
InvoiceIsFree == \A w \in Workers : worker[w].at # "receiving"

-----------------------------------------------------------------------------
(* The reservation *)

Book(arr, deposit) ==
  /\ res.status = "none"
  /\ arr > today
  /\ IF deposit
       THEN /\ res' = [res EXCEPT !.status = "pending_payment", !.hold = today + 1, !.arr = arr]
            /\ invoice' = [invoice EXCEPT !.status = "draft"]
            /\ UNCHANGED job
       ELSE /\ res' = [res EXCEPT !.status = "confirmed", !.arr = arr]
            /\ job' = WithPlan(job, arr, today)
            /\ UNCHANGED invoice
  /\ UNCHANGED <<today, chat, receipts, row, guest, worker>>

Cancel ==
  /\ res.status \in {"pending_payment", "confirmed"}
  /\ res' = [res EXCEPT !.status = "cancelled", !.hold = Never, !.stale = FALSE]
  /\ job' = Withdrawn(job)
  /\ UNCHANGED <<today, chat, invoice, receipts, row, guest, worker>>

\* A no-show by PATCH, and the sales journey's cancellation, leave the reminders.
EndElsewhere(status) ==
  /\ res.status \in {"pending_payment", "confirmed"}
  /\ res' = [res EXCEPT !.status = status]
  /\ UNCHANGED <<today, chat, invoice, receipts, job, row, guest, worker>>

\* Mutant: the reminders of the old arrival stay.
MoveKeepingReminders(arr) ==
  /\ res.status \in {"pending_payment", "confirmed"}
  /\ arr # res.arr
  /\ res.moves < MaxMoves
  /\ res' = [res EXCEPT !.arr = arr, !.moves = @ + 1]
  /\ job' = IF res.status = "confirmed" THEN WithPlan(job, arr, today) ELSE job
  /\ UNCHANGED <<today, chat, invoice, receipts, row, guest, worker>>

Move(arr) ==
  /\ res.status \in {"pending_payment", "confirmed"}
  /\ arr # res.arr
  /\ res.moves < MaxMoves
  /\ res' = [res EXCEPT !.arr = arr, !.moves = @ + 1, !.stale = FALSE]
  /\ job' = IF res.status = "confirmed" THEN WithPlan(Withdrawn(job), arr, today) ELSE Withdrawn(job)
  /\ UNCHANGED <<today, chat, invoice, receipts, row, guest, worker>>

\* It locks the reservation and then writes the payment request, a receipt the other
\* way round: of two in flight Postgres stops one (Crash, when it is the receipt).
ExpireHold ==
  /\ res.status = "pending_payment"
  /\ res.hold <= today
  /\ InvoiceIsFree
  /\ res' = [res EXCEPT !.status = "cancelled", !.expired = TRUE, !.stale = FALSE]
  /\ invoice' = [invoice EXCEPT !.status = IF @ \in {"draft", "sent"} THEN "expired" ELSE @]
  /\ job' = Withdrawn(job)
  /\ UNCHANGED <<today, chat, receipts, row, guest, worker>>

\* Mutant: the request's own status is thought to be enough.
PayableByStatus(desk) ==
  invoice.status = "sent" \/ (desk /\ invoice.status = "draft" /\ ~invoice.chat)

\* A request is paid once it was sent; a desk receipt settles a draft nobody has
\* sent.  The reservation must still be there.
Payable(desk) ==
  /\ invoice.status = "sent" \/ (desk /\ invoice.status = "draft" /\ ~invoice.chat)
  /\ res.status # "cancelled"
  /\ ~Lapsed

\* receivePaymentRequest reads the reservation, without locking it.
StartReceipt(w, desk) ==
  /\ worker[w] = Idle
  /\ InvoiceIsFree
  /\ Payable(desk)
  /\ receipts < MaxReceipts
  /\ worker' = [worker EXCEPT ![w].at = "receiving",
                              ![w].seen = [status |-> res.status, arr |-> res.arr, day |-> today]]
  /\ UNCHANGED <<today, res, chat, invoice, receipts, job, row, guest>>

\* It records the payment.  A reservation that it read waiting for its deposit is
\* confirmed, whatever became of it meanwhile, gets the reminders of the arrival that
\* was read, and one confirmation, which the request sends after its commit.
FinishReceipt(w) ==
  LET seen == worker[w].seen IN
  /\ worker[w].at = "receiving"
  /\ receipts' = receipts + 1
  /\ invoice' = [invoice EXCEPT !.status = "paid"]
  /\ IF seen.status = "pending_payment"
       THEN /\ res' = [res EXCEPT !.status = "confirmed", !.hold = Never, !.stale = @ \/ seen.arr # res.arr]
            /\ job' = WithPlan(job, seen.arr, seen.day)
       ELSE UNCHANGED <<res, job>>
  /\ IF seen.status = "pending_payment" /\ chat
       THEN Written(w, Confirmation)
       ELSE worker' = [worker EXCEPT ![w] = Idle] /\ UNCHANGED row
  /\ UNCHANGED <<today, chat, guest>>

NextDay ==
  /\ today < Horizon
  /\ today' = today + 1
  /\ UNCHANGED <<res, chat, invoice, receipts, job, row, guest, worker>>

-----------------------------------------------------------------------------
(* Writing a message *)

\* POST /payment-requests/:id/send; a resend of a sent request writes a new row.
SendInvoice(w, key) ==
  /\ worker[w] = Idle
  /\ InvoiceIsFree
  /\ invoice.status \in {"draft", "sent"}
  /\ chat
  /\ ~Lapsed
  /\ key \in Resends => invoice.status = "sent"
  /\ Written(w, key)
  /\ invoice' = IF row[key] = "none" THEN [invoice EXCEPT !.chat = TRUE] ELSE invoice
  /\ UNCHANGED <<today, res, chat, receipts, job, guest>>

\* POST /reservations/:id/remind-now: the job is due at once.
RemindNow(key) ==
  /\ res.status = "confirmed"
  /\ job[key] = "none"
  /\ job' = [job EXCEPT ![key] = "pending"]
  /\ UNCHANGED <<today, res, chat, invoice, receipts, row, guest, worker>>

\* Mutant: a reminder that failed once is not due any more.
DueOnce(j) ==
  /\ job[j] = "pending"
  /\ j \in Planned => j.arr - j.before <= today

\* GET /due, what n8n asks for.
Due(j) ==
  /\ job[j] \in {"pending", "failed"}
  /\ j \in Planned => j.arr - j.before <= today

\* deliverScheduledMessage up to its commit.
DeliverJob(w, j) ==
  /\ worker[w] = Idle
  /\ Due(j)
  /\ res.status = "confirmed" /\ chat
  /\ Written(w, j)
  /\ UNCHANGED <<today, res, chat, invoice, receipts, job, guest>>

-----------------------------------------------------------------------------
(* sendConversationMessage, and what its caller does with the answer *)

Answer(w, ok) == worker' = [worker EXCEPT ![w].at = "answered", ![w].ok = ok]

ReadRow(w) ==
  /\ worker[w].at = "read"
  /\ IF row[worker[w].mail] = "sent"
       THEN Answer(w, TRUE)
       ELSE worker' = [worker EXCEPT ![w].at = "called"]
  /\ UNCHANGED <<booking, invoice, job, row, guest>>

Accept(w) ==
  /\ worker[w].at = "called"
  /\ guest' = guest \cup {worker[w].mail}
  /\ worker' = [worker EXCEPT ![w].at = "accepted"]
  /\ UNCHANGED <<booking, invoice, job, row>>

MarkSent(w) ==
  /\ worker[w].at = "accepted"
  /\ row' = [row EXCEPT ![worker[w].mail] = "sent"]
  /\ Answer(w, TRUE)
  /\ UNCHANGED <<booking, invoice, job, guest>>

\* Mutant: no answer within the timeout is taken for a delivery.
MarkUnheard(w) ==
  /\ worker[w].at \in {"called", "accepted"}
  /\ row' = [row EXCEPT ![worker[w].mail] = "sent"]
  /\ Answer(w, TRUE)
  /\ UNCHANGED <<booking, invoice, job, guest>>

\* An error, or no answer in time.
MarkFailed(w) ==
  /\ worker[w].at \in {"called", "accepted"}
  /\ row' = [row EXCEPT ![worker[w].mail] = "failed"]
  /\ Answer(w, FALSE)
  /\ UNCHANGED <<booking, invoice, job, guest>>

Finish(w) ==
  LET mail == worker[w].mail  ok == worker[w].ok IN
  /\ worker[w].at = "answered"
  /\ mail \in {Invoice} \cup Resends /\ ok => InvoiceIsFree
  /\ worker' = [worker EXCEPT ![w] = Idle]
  /\ invoice' = IF mail \in {Invoice} \cup Resends /\ ok THEN [invoice EXCEPT !.status = "sent"] ELSE invoice
  /\ job' = IF mail \in Jobs THEN [job EXCEPT ![mail] = IF ok THEN "sent" ELSE "failed"] ELSE job
  /\ UNCHANGED <<booking, row, guest>>

\* The process stops: what is committed stays, the rest is never done.  A receipt is
\* rolled back.
Crash(w) ==
  /\ worker[w] # Idle
  /\ worker' = [worker EXCEPT ![w] = Idle]
  /\ UNCHANGED <<booking, invoice, job, row, guest>>

-----------------------------------------------------------------------------
(* Specification *)

WorkerStep(w) ==
  \/ \E desk \in BOOLEAN : StartReceipt(w, desk)
  \/ FinishReceipt(w)
  \/ \E key \in {Invoice} \cup Resends : SendInvoice(w, key)
  \/ \E j \in Jobs : DeliverJob(w, j)
  \/ ReadRow(w) \/ Accept(w) \/ MarkSent(w) \/ MarkFailed(w) \/ Finish(w) \/ Crash(w)

Next ==
  \/ \E arr \in Arrivals : Move(arr) \/ \E deposit \in BOOLEAN : Book(arr, deposit)
  \/ Cancel \/ ExpireHold \/ NextDay
  \/ \E status \in {"no_show", "cancelled"} : EndElsewhere(status)
  \/ \E key \in Manual : RemindNow(key)
  \/ \E w \in Workers : WorkerStep(w)

\* n8n polls again and again, a request that runs goes on, and a provider that is
\* called over and over accepts and answers in the end.  Nothing obliges the
\* guest, the desk or the clock.
Fairness ==
  /\ \A j \in Jobs : SF_vars(\E w \in Workers : DeliverJob(w, j))
  /\ \A w \in Workers : /\ WF_vars(FinishReceipt(w))
                        /\ SF_vars(ReadRow(w)) /\ SF_vars(Accept(w)) /\ SF_vars(MarkSent(w)) /\ SF_vars(Finish(w))

Spec == Init /\ [][Next]_vars /\ Fairness

-----------------------------------------------------------------------------
(* Properties *)

\* CRM records only confirmed delivery: a message that is marked as sent, and a
\* reminder that is, has been shown to the guest, whatever timeouts, crashes and
\* late answers came before.
RecordsOnlyConfirmedDelivery ==
  /\ \A m \in Mails : row[m] = "sent" => m \in guest
  /\ \A j \in Jobs : job[j] = "sent" => j \in guest

\* What docs/commercial-journey.md:25 says of a reschedule: no reminder of an older
\* arrival waits to be sent.
RescheduleLeavesNoOldReminder == \A j \in Planned : job[j] = "pending" => j.arr = res.arr

\* A reminder that waits to be sent is about the arrival the reservation has now,
\* whenever and in whatever status it was moved, unless a receipt had read the older
\* arrival before the change and planned for it afterwards; the next change, the
\* cancellation and the expiry of the hold clear that too.
WaitingReminderIsCurrent == res.stale \/ RescheduleLeavesNoOldReminder

\* A reservation whose hold ran out takes no money any more and stays cancelled: of
\* expiry and receipt in flight only one commits, and an answer of the provider that
\* comes late, and sets the expired payment request back to sent, opens no way for
\* the next receipt.
ExpiredTakesNoMoney == [][res.expired => receipts' = receipts /\ res'.status = "cancelled"]_vars

\* A reminder that is due for a guest with a conversation is delivered, unless the
\* reservation or the reminder is given up.
DueIsDelivered == \A j \in Jobs :
  /\ job[j] \in {"pending", "failed"}
  /\ j \in Planned => j.arr - j.before <= today
  /\ res.status = "confirmed" /\ chat
  ~> job[j] \in {"sent", "cancelled"} \/ res.status # "confirmed"

\* docs/commercial-journey.md: receiving "records a single ledger payment".
SinglePayment == receipts <= 1

=============================================================================
