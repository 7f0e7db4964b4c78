------------------------------ MODULE PmsBridge ------------------------------
(***************************************************************************)
(* The durable exchange with Guestra PMS (server/integration/): commands   *)
(* that the assistant's confirmed bookings leave in integration_operations *)
(* and events that PMS publishes, each kept in integration_inbox until an  *)
(* authoritative read-back has been projected.                             *)
(*                                                                         *)
(* Every remote call is a step of its own: between two steps of a worker   *)
(* the other workers, the hotel's PMS desk and a crash of the process can  *)
(* come in.  A worker is a request of the API, a webhook, a reconcile or   *)
(* the recovery tick; each runs one operation or consumes one receipt, and *)
(* the tick also polls the event feed, page by page.                       *)
(*                                                                         *)
(* PMS itself is external: `feed' is the log of its committed changes, and *)
(* a revision is an index of the log.  It answers a known key with the     *)
(* reservation it made for it, and a key it refused it goes on refusing.   *)
(***************************************************************************)
EXTENDS Integers, Sequences, FiniteSetsExt

CONSTANTS Recovery,       \* the recovery timer: one tick runs at a time (`running')
          Handlers,       \* requests, webhooks and reconciles in flight
          Commands,       \* book_accommodation operations, one per confirmed proposal
          Requests,       \* the leads they book for
          RequestOf,      \* [Commands -> Requests]
          Natives,        \* stays booked at the PMS front desk
          None,           \* no command, no reservation, no commercial stage
          Page,           \* events per page of the feed (100 in the code)
          Since,          \* GUESTRA_STAFF_SYNC_SINCE: the first change that is mirrored,
                          \* beyond MaxFeed when staff sync is off
          MaxFeed,        \* bound: changes PMS commits in a run
          MaxRefusals     \* bound: commands that meet a revoked key

ASSUME CommandAssumption == RequestOf \in [Commands -> Requests]
ASSUME NoneAssumption == None \notin Commands \cup Natives \cup {"cancelled", "completed"}
ASSUME NativeAssumption == Commands \cap Natives = {}
ASSUME PageAssumption == Page \in Nat \ {0} /\ MaxFeed \in Nat
ASSUME SinceAssumption == Since \in Nat

Workers == Handlers \cup {Recovery}
Stays == Commands \cup Natives
Statuses == {"assigned", "cancelled", "checked_out"}
Revisions == 1 .. MaxFeed

VARIABLES feed,        \* PMS: the changes it committed, in order
          refused,     \* PMS: keys whose booking it turned down
          operation,   \* [Commands -> status of the integration_operations row]
          confirming,  \* commands whose confirmation has asked for the lead's mapping
          overtaken,   \* history: commands written when their lead had got a mapping since
          receipt,     \* [Revisions -> status of the integration_inbox row]
          cursor,      \* integration_cursors.sequence
          projection,  \* [Stays -> revision projected, 0 for none]
          bookedBy,    \* [Requests -> the reservation mapped to the lead, or None]
          stage,       \* [Requests -> the lead's stage as PMS last set it]
          known,       \* stays whose guest has a customer mapping
          unauthorized,\* history: commands that met a 401 or 403
          task         \* [Workers -> what the worker is in the middle of]

pms == <<feed, refused, unauthorized>>
ledger == <<operation, confirming, overtaken, projection, bookedBy, stage>>
intake == <<receipt, cursor, known>>
vars == <<pms, ledger, intake, task>>

-----------------------------------------------------------------------------
(* PMS *)

RevisionsOf(e) == {n \in DOMAIN feed : feed[n].stay = e}
InPms(e) == RevisionsOf(e) # {}
Current(e) == Max(RevisionsOf(e))

Final == {"cancelled", "checked_out"}

PmsBooks(e) == feed' = Append(feed, [stay |-> e, status |-> "assigned"])

\* The PMS desk books a stay of its own, cancels one or checks its guest out.
FrontDesk(e) ==
    /\ Len(feed) < MaxFeed
    /\ IF InPms(e)
       THEN /\ feed[Current(e)].status \notin Final
            /\ \E s \in Final : feed' = Append(feed, [stay |-> e, status |-> s])
       ELSE e \in Natives /\ PmsBooks(e)
    /\ UNCHANGED <<refused, unauthorized, ledger, intake, task>>

-----------------------------------------------------------------------------
(* Workers *)

Idle == [do |-> "idle", on |-> None, snap |-> 0, event |-> 0, deferred |-> FALSE,
         next |-> 0, last |-> 0]

Tasks == [do : {"idle", "lookup", "post", "read", "complete",
                "accept", "readback", "apply", "keep"},
          on : Commands \cup {None}, snap : 0 .. MaxFeed, event : 0 .. MaxFeed,
          deferred : BOOLEAN, next : 0 .. MaxFeed + 1, last : 0 .. MaxFeed]

\* A consumed event hands a polling worker back to its page and ends any other.
Ended(t) == IF t.next > 0 THEN [Idle EXCEPT !.do = "accept", !.next = t.next, !.last = t.last]
            ELSE Idle

Goes(w, t) == task' = [task EXCEPT ![w] = t]
Does(w, step) == task[w].do = step

-----------------------------------------------------------------------------
(* projectSnapshot: one transaction under the property's row lock *)

StageOf(status) == CASE status = "assigned" -> "confirmed"
                     [] status = "cancelled" -> "cancelled"
                     [] status = "checked_out" -> "completed"

\* verifiedMapping refuses a second reservation for a lead (IDENTITY_CONFLICT).
MapsElsewhere(e) == e \in Commands /\ bookedBy[RequestOf[e]] \notin {None, e}

\* Mutant: the projection takes whatever snapshot comes last.
AnySnapshot(e, n) == TRUE

\* Only a higher revision is projected.
Newer(e, n) == projection[e] < n

Project(e, n) ==
    IF Newer(e, n)
    THEN /\ projection' = [projection EXCEPT ![e] = n]
         /\ IF e \in Commands
            THEN /\ bookedBy' = [bookedBy EXCEPT ![RequestOf[e]] = e]
                 /\ stage' = [stage EXCEPT ![RequestOf[e]] = StageOf(feed[n].status)]
            ELSE UNCHANGED <<bookedBy, stage>>
    ELSE UNCHANGED <<projection, bookedBy, stage>>

-----------------------------------------------------------------------------
(* Commands: POST /v2/accommodations/book, then runOperation *)

\* executeConfirmedAgentAction holds the row of the conversation, a lead has one, and
\* the first of two statements finds no reservation mapped to the lead.
StartBooking(c) ==
    /\ operation[c] = "none"
    /\ \A d \in confirming : RequestOf[d] # RequestOf[c]
    /\ bookedBy[RequestOf[c]] = None
    /\ confirming' = confirming \cup {c}
    /\ UNCHANGED <<pms, operation, overtaken, projection, bookedBy, stage, intake, task>>

\* Mutant: the pending command of another proposal is overlooked.
MappingDecides(q) == bookedBy[q] = None

\* The second statement, at its own time: no command for the lead is pending.
NonePending(q) == \A c \in Commands : RequestOf[c] = q => operation[c] # "pending"

\* The confirmed action and its command are one transaction.
Confirm(c) ==
    /\ c \in confirming
    /\ NonePending(RequestOf[c])
    /\ operation' = [operation EXCEPT ![c] = "pending"]
    /\ confirming' = confirming \ {c}
    /\ overtaken' = IF bookedBy[RequestOf[c]] = None THEN overtaken ELSE overtaken \cup {c}
    /\ UNCHANGED <<pms, projection, bookedBy, stage, intake, task>>

\* REQUEST_BOOKING_IN_PROGRESS, or the request's transaction is rolled back otherwise.
BookingFails(c) ==
    /\ c \in confirming
    /\ confirming' = confirming \ {c}
    /\ UNCHANGED <<pms, operation, overtaken, projection, bookedBy, stage, intake, task>>

\* The request that confirmed it, the recovery tick or a reconcile runs a pending command.
RunOperation(w, c) ==
    /\ Does(w, "idle")
    /\ operation[c] = "pending"
    /\ Goes(w, [Idle EXCEPT !.do = "lookup", !.on = c])
    /\ UNCHANGED <<pms, ledger, intake>>

Carries(w, step, c) == Does(w, step) /\ task[w].on = c

\* GET v2/operations/:key first: a lost answer may have been a booking.
Lookup(w, c) ==
    /\ Carries(w, "lookup", c)
    /\ IF InPms(c)
       THEN \E n \in RevisionsOf(c) : Goes(w, [task[w] EXCEPT !.do = "complete", !.snap = n])
       ELSE Goes(w, [task[w] EXCEPT !.do = "post"])
    /\ UNCHANGED <<pms, ledger, intake>>

\* POST v2/book reaches PMS, which books once per key; the answer may be lost.
Post(w, c, answered) ==
    /\ Carries(w, "post", c)
    /\ c \notin refused
    /\ IF InPms(c) THEN UNCHANGED feed ELSE Len(feed) < MaxFeed /\ PmsBooks(c)
    /\ Goes(w, IF answered THEN [task[w] EXCEPT !.do = "read"] ELSE Idle)
    /\ UNCHANGED <<refused, unauthorized, ledger, intake>>

\* GET v2/entities/reservation/:id, the authoritative read-back.
Read(w, c) ==
    /\ Carries(w, "read", c)
    /\ Goes(w, [task[w] EXCEPT !.do = "complete", !.snap = Current(c)])
    /\ UNCHANGED <<pms, ledger, intake>>

\* The projection and the command's completion are one transaction.
Complete(w, c) ==
    /\ Carries(w, "complete", c)
    /\ operation[c] = "completed" \/ ~MapsElsewhere(c)
    /\ IF operation[c] = "completed" THEN UNCHANGED ledger
       ELSE /\ Project(c, task[w].snap)
            /\ operation' = [operation EXCEPT ![c] = "completed"]
            /\ UNCHANGED <<confirming, overtaken>>
    /\ Goes(w, Idle)
    /\ UNCHANGED <<pms, intake>>

\* A timeout or a 5xx leaves the command pending.
Unavailable(w) ==
    /\ task[w].do \in {"lookup", "post", "read"}
    /\ Goes(w, Idle)
    /\ UNCHANGED <<pms, ledger, intake>>

\* Any other failure rejects it, if it is still pending.
Reject(w, c) ==
    /\ operation' = [operation EXCEPT ![c] = IF @ = "pending" THEN "rejected" ELSE @]
    /\ Goes(w, Idle)
    /\ UNCHANGED <<confirming, overtaken, projection, bookedBy, stage, intake>>

\* PMS turns the booking down: the price changed or the quote expired.
Refuse(w, c) ==
    /\ Carries(w, "post", c)
    /\ ~InPms(c)
    /\ refused' = refused \cup {c}
    /\ Reject(w, c)
    /\ UNCHANGED <<feed, unauthorized>>

\* The lead is booked by another reservation: the transaction is rolled back.
Conflict(w, c) ==
    /\ Carries(w, "complete", c)
    /\ operation[c] # "completed"
    /\ MapsElsewhere(c)
    /\ Reject(w, c)
    /\ UNCHANGED pms

\* PMS no longer accepts the CRM's key: 401 and 403 are not retried.
Unauthorized(w, c) ==
    /\ task[w].do \in {"lookup", "post", "read"} /\ task[w].on = c
    /\ Cardinality(unauthorized) < MaxRefusals
    /\ unauthorized' = unauthorized \cup {c}
    /\ Reject(w, c)
    /\ UNCHANGED <<feed, refused>>

-----------------------------------------------------------------------------
(* Events: acceptEvent, consumeEvent and the recovery's poll of the feed *)

\* Mutant: the webhook's answer is taken for the event's application.
AppliedOnReceipt(n) == [receipt EXCEPT ![n] = "applied"]

Received(n) == [receipt EXCEPT ![n] = IF @ = "absent" THEN "pending" ELSE @]

\* Changes from the switch-on instant are mirrored first.
Mirrored(n) == Since <= n

\* consumeEvent up to the read-back.  An applied event is done.  The staff mirror
\* (module StaffSync) may fail, which defers the receipt, and when it succeeds the
\* guest has a mapping.  Without one the receipt waits (MAPPING_PENDING).
Consume(w, t, n) ==
    IF receipt[n] = "applied" THEN Goes(w, Ended(t)) /\ UNCHANGED known
    ELSE \E deferred \in BOOLEAN :
            /\ deferred => Mirrored(n)
            /\ known' = IF deferred \/ ~Mirrored(n) THEN known ELSE known \cup {feed[n].stay}
            /\ Goes(w, IF feed[n].stay \in Commands \cup known'
                       THEN [t EXCEPT !.do = "readback", !.event = n, !.deferred = deferred]
                       ELSE Ended(t))

\* The webhook: at least once, in any order, or never.
Webhook(w, n) ==
    /\ w # Recovery /\ Does(w, "idle")
    /\ n \in DOMAIN feed
    /\ receipt' = Received(n)
    /\ Consume(w, Idle, n)
    /\ UNCHANGED <<pms, ledger, cursor>>

\* The recovery tick or a reconcile takes up a receipt that is still pending.
Retry(w, n) ==
    /\ Does(w, "idle")
    /\ receipt[n] = "pending"
    /\ Consume(w, Idle, n)
    /\ UNCHANGED <<pms, ledger, receipt, cursor>>

\* GET v2/events after the cursor.
Poll(w) ==
    /\ w = Recovery /\ Does(w, "idle")
    /\ Len(feed) > cursor
    /\ Goes(w, [Idle EXCEPT !.do = "accept", !.next = cursor + 1,
                            !.last = Min({cursor + Page, Len(feed)})])
    /\ UNCHANGED <<pms, ledger, intake>>

\* The next envelope of the page becomes a receipt and is consumed.
Accept(w) ==
    /\ Does(w, "accept")
    /\ task[w].next <= task[w].last
    /\ LET n == task[w].next IN
          /\ receipt' = Received(n)
          /\ Consume(w, [task[w] EXCEPT !.next = n + 1], n)
    /\ UNCHANGED <<pms, ledger, cursor>>

\* Mutant: an envelope that could not be stored is passed over.
SkipsEnvelope(w) ==
    /\ Does(w, "accept")
    /\ task[w].next <= task[w].last
    /\ Goes(w, [task[w] EXCEPT !.next = @ + 1])
    /\ UNCHANGED <<pms, ledger, intake>>

\* An envelope could not be stored: the poll ends where it is.
ReceiptFails(w) ==
    /\ Does(w, "accept")
    /\ task[w].next <= task[w].last
    /\ Goes(w, Idle)
    /\ UNCHANGED <<pms, ledger, intake>>

\* After the last envelope of the page the cursor moves on, never back.
Advance(w) ==
    /\ Does(w, "accept")
    /\ task[w].next > task[w].last
    /\ cursor' = Max({cursor, task[w].last})
    /\ Goes(w, Idle)
    /\ UNCHANGED <<pms, ledger, receipt, known>>

Handles(w, step, n) == Does(w, step) /\ task[w].event = n

\* The authoritative snapshot is read; it cannot be behind the event.
Readback(w, n) ==
    /\ Handles(w, "readback", n)
    /\ Goes(w, [task[w] EXCEPT !.do = "apply", !.snap = Current(feed[n].stay)])
    /\ UNCHANGED <<pms, ledger, intake>>

\* The projection and the receipt's status are one transaction.
Apply(w, n) ==
    /\ Handles(w, "apply", n)
    /\ ~MapsElsewhere(feed[n].stay)
    /\ Project(feed[n].stay, task[w].snap)
    /\ receipt' = [receipt EXCEPT ![n] = "applied"]
    /\ known' = known \cup {feed[n].stay}
    /\ Goes(w, IF task[w].deferred THEN [task[w] EXCEPT !.do = "keep", !.snap = 0]
               ELSE Ended(task[w]))
    /\ UNCHANGED <<pms, operation, confirming, overtaken, cursor>>

\* PMS does not answer, or the lead is booked by another reservation.
ApplyFails(w, n) ==
    /\ \/ Handles(w, "readback", n)
       \/ Handles(w, "apply", n) /\ MapsElsewhere(feed[n].stay)
    /\ Goes(w, Ended(task[w]))
    /\ UNCHANGED <<pms, ledger, intake>>

\* keepPending: a deferred mirror takes the receipt back, after the commit.
Keep(w, n) ==
    /\ Handles(w, "keep", n)
    /\ receipt' = [receipt EXCEPT ![n] = "pending"]
    /\ Goes(w, Ended(task[w]))
    /\ UNCHANGED <<pms, ledger, cursor, known>>

\* The process stops: every execution is gone, the tables stay.
Crash ==
    /\ confirming # {} \/ \E w \in Workers : ~Does(w, "idle")
    /\ task' = [w \in Workers |-> Idle]
    /\ confirming' = {}
    /\ UNCHANGED <<pms, operation, overtaken, projection, bookedBy, stage, intake>>

-----------------------------------------------------------------------------
Init ==
    /\ feed = <<>>
    /\ refused = {}
    /\ unauthorized = {}
    /\ operation = [c \in Commands |-> "none"]
    /\ confirming = {}
    /\ overtaken = {}
    /\ receipt = [n \in Revisions |-> "absent"]
    /\ cursor = 0
    /\ projection = [e \in Stays |-> 0]
    /\ bookedBy = [q \in Requests |-> None]
    /\ stage = [q \in Requests |-> None]
    /\ known = {}
    /\ task = [w \in Workers |-> Idle]

\* The steps of a worker in the middle of something, but for the outages.
Continues(w) ==
    \/ \E c \in Commands :
          \/ Lookup(w, c) \/ Post(w, c, TRUE) \/ Read(w, c) \/ Complete(w, c)
          \/ Refuse(w, c) \/ Conflict(w, c)
    \/ \E n \in Revisions : Readback(w, n) \/ Apply(w, n) \/ Keep(w, n)
    \/ Accept(w) \/ Advance(w)

Next ==
    \/ \E e \in Stays : FrontDesk(e)
    \/ \E c \in Commands : StartBooking(c) \/ Confirm(c) \/ BookingFails(c)
    \/ \E w \in Workers :
          \/ Continues(w) \/ Poll(w)
          \/ \E c \in Commands : RunOperation(w, c) \/ Post(w, c, FALSE) \/ Unauthorized(w, c)
          \/ \E n \in Revisions : Webhook(w, n) \/ Retry(w, n) \/ ApplyFails(w, n)
          \/ Unavailable(w) \/ ReceiptFails(w)
    \/ Crash

Spec == Init /\ [][Next]_vars

\* An outage takes a worker out of its work: a call without an answer, a write that
\* failed, a restart, a mirror put off.
GivesUp(t, u) ==
    \/ t.do \in {"lookup", "post", "read"} /\ u.do = "idle" /\ operation' = operation
    \/ t.do = "accept" /\ u.do = "idle" /\ cursor' = cursor
    \/ t.do = "readback" /\ u.do \notin {"readback", "apply"}
    \/ t.do = "apply" /\ u.do # "apply" /\ receipt' = receipt
    \/ t.do = "keep" /\ u.do # "keep" /\ receipt' = receipt
    \/ u.deferred /\ ~t.deferred

Trouble == \E w \in Workers : GivesUp(task[w], task'[w])

\* The outages end; every request ends by its timeouts; and the interval timer keeps
\* coming back to the feed and to each pending receipt.
Fairness ==
    /\ <>[][~Trouble]_vars
    /\ \A w \in Workers : WF_vars(Continues(w))
    /\ SF_vars(Poll(Recovery))
    /\ \A n \in Revisions : SF_vars(Retry(Recovery, n))

FairSpec == Spec /\ Fairness
-----------------------------------------------------------------------------
\* However often a confirmed booking is retried, and whoever retries it, PMS holds
\* at most one reservation for a lead, unless a command met a revoked key or was
\* confirmed while the other one completed, between the two questions of its
\* confirmation.  Even then only one of them is the lead's: a command marked
\* completed is in PMS and is the booking of its lead.
OneStayPerRequest ==
    /\ \A c, d \in Commands : InPms(c) /\ InPms(d) /\ RequestOf[c] = RequestOf[d]
                                  => c = d \/ {c, d} \cap (unauthorized \cup overtaken) # {}
    /\ \A c \in Commands : operation[c] = "completed" => InPms(c) /\ bookedBy[RequestOf[c]] = c

\* The cursor of the event feed passes only events with a durable receipt.
CursorCoversReceipts == \A n \in 1 .. cursor : receipt[n] # "absent"

\* A cancellation or a departure that PMS reported is not taken back from the lead
\* by an older snapshot that arrives later.
LeadStaysClosed ==
    [][\A q \in Requests : stage[q] \in {"cancelled", "completed"} => stage'[q] = stage[q]]_vars

\* Every change PMS committed is projected, or a newer one of the same stay is:
\* lost webhooks, timeouts, deferred mirrors and restarts only delay it.  A stay whose
\* lead is booked by another reservation is one exception; a stay of a guest CRM has
\* never heard of, changed before staff sync was switched on, is the other, until a
\* later change makes the guest known.
ChangesArrive ==
    \A n \in Revisions :
        n \in DOMAIN feed /\ (Mirrored(n) \/ feed[n].stay \in Commands \cup known) ~>
            /\ n \in DOMAIN feed
            /\ projection[feed[n].stay] >= n \/ MapsElsewhere(feed[n].stay)

=============================================================================
