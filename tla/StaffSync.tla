------------------------------ MODULE StaffSync ------------------------------
(***************************************************************************)
(* The staff two-way sync of one stay (server/integration/staff-sync.ts):  *)
(* the reservation and its ledger rows (charges and payments) live in CRM  *)
(* and in PMS, each row is entered in one of the two systems and must      *)
(* appear in the other, and the status follows.                            *)
(*                                                                         *)
(* A mirror (PMS to CRM) fetches a snapshot and then writes it in one      *)
(* transaction; a push (CRM to PMS) reads the CRM tables, calls PMS,       *)
(* remembers what it sent and mirrors the answer.  Desks of both hotels    *)
(* work between any two of these steps.  Which events trigger a mirror is  *)
(* PmsBridge's concern; here `due' says that PMS has news, in a receipt    *)
(* that is pending.  One mirror takes all of it, so a retry that is lost   *)
(* here may have been covered by a second pending event of the same stay.  *)
(***************************************************************************)
EXTENDS Integers, FiniteSets

CONSTANTS Recovery,     \* the recovery timer, the only worker that pushes
          Handlers,     \* webhooks in flight
          CrmRows,      \* charges and payments entered in CRM
          PmsRows       \* charges and payments entered in PMS

ASSUME RowsAssumption == CrmRows \cap PmsRows = {}

Workers == Handlers \cup {Recovery}
Rows == CrmRows \cup PmsRows
Ended == {"checked_out", "cancelled"}
Statuses == {"pending", "confirmed", "checked_in"} \cup Ended

VARIABLES origin,     \* where the stay was booked
          copies,     \* CRM: reservations that stand for the stay
          status,     \* CRM: the reservation and its stay, in PMS's words
          local,      \* CRM: [Rows -> folio lines or payments standing for the row]
          remote,     \* PMS: [Rows -> charges or payments standing for the row]
          pms,        \* PMS: the reservation's status, or "none"
          link,       \* guestra_staff_sync: the status PMS was last known to have, or "none"
          known,      \* guestra_staff_sync: ledger rows known to be in both systems
          due,        \* an event of PMS waits for a mirror
          lost,       \* history: a failed mirror was never put back, and no event has come since
          task        \* [Workers -> what the worker is in the middle of]

crm == <<copies, status, local>>
sync == <<link, known>>
news == <<due, lost>>
vars == <<origin, crm, remote, pms, sync, news, task>>

Idle == [do |-> "idle", target |-> "none", snap |-> "none", rows |-> {}, seen |-> {},
         found |-> FALSE, event |-> FALSE]
Goes(w, t) == task' = [task EXCEPT ![w] = t]
Does(w, step) == task[w].do = step

-----------------------------------------------------------------------------
(* Status between the systems *)

\* crmStatusFor: whatever has not arrived and has not ended is a confirmed stay.
CrmStatusFor(s) == IF s = "pending" THEN "confirmed" ELSE s

\* pmsTargetFor gives the words of CRM back.  PMS only moves a status forward.
Rank(s) == CASE s = "none" -> 0 [] s = "pending" -> 1 [] s = "confirmed" -> 2
             [] s = "checked_in" -> 3 [] s \in Ended -> 4
Forward(s, target) == IF Rank(target) > Rank(s) THEN target ELSE s

-----------------------------------------------------------------------------
(* The two desks *)

Follows(s) == CASE s = "pending" -> {"cancelled"}
                [] s = "confirmed" -> {"checked_in", "cancelled"}
                [] s = "checked_in" -> {"checked_out"}
                [] OTHER -> {}

\* CRM: check-in, check-out or cancellation.
CrmDesk ==
    /\ copies > 0
    /\ \E s \in Follows(status) : status' = s
    /\ UNCHANGED <<origin, copies, local, remote, pms, sync, news, task>>

\* CRM: a charge or a payment; the deposit of a hold confirms it.
CrmPosts(r) ==
    /\ copies > 0 /\ status \notin Ended
    /\ r \in CrmRows /\ local[r] = 0
    /\ local' = [local EXCEPT ![r] = 1]
    /\ status' = IF status = "pending" THEN "confirmed" ELSE status
    /\ UNCHANGED <<origin, copies, remote, pms, sync, news, task>>

\* Every change in PMS is an event.
Publishes == due' = TRUE /\ lost' = FALSE

\* PMS: the same, at its own desk.
PmsDesk ==
    /\ pms # "none"
    /\ \E s \in Follows(pms) : pms' = s
    /\ Publishes
    /\ UNCHANGED <<origin, crm, remote, sync, task>>

PmsPosts(r) ==
    /\ pms \notin Ended \cup {"none"}
    /\ r \in PmsRows /\ remote[r] = 0
    /\ remote' = [remote EXCEPT ![r] = 1]
    /\ Publishes
    /\ UNCHANGED <<origin, crm, pms, sync, task>>

-----------------------------------------------------------------------------
(* PMS -> CRM: mirrorPmsEntity, mirrorReservation, mirrorFolio *)

InPms(quantity) == {r \in Rows : quantity[r] > 0}

Mirroring(w) == task[w].do \in {"mirror", "write"} /\ task[w].event

\* The staff snapshot of the stay is fetched for an event, or for its repetition while
\* the receipt is not applied.
Resolve(w) ==
    /\ Does(w, "idle")
    /\ pms # "none" /\ (due \/ \E v \in Workers : Mirroring(v))
    /\ due' = FALSE
    /\ Goes(w, [Idle EXCEPT !.do = "mirror", !.snap = pms, !.rows = InPms(remote), !.event = TRUE])
    /\ UNCHANGED <<origin, crm, remote, pms, sync, lost>>

\* The reservation is found by its link, by the CRM id PMS holds, or by PMS's id.
Found == copies > 0

\* The transaction begins: which reservation stands for the stay, and which rows are known.
MirrorReads(w) ==
    /\ Does(w, "mirror")
    /\ Goes(w, [task[w] EXCEPT !.do = "write", !.found = Found, !.seen = known])
    /\ UNCHANGED <<origin, crm, remote, pms, sync, news>>

\* Mutant: rows that CRM sent to PMS come back as PMS rows.
AllRows(t) == t.rows \ t.seen

\* Rows of PMS that CRM does not have; its own come back with a "crm:" key.
NewRows(t) == (t.rows \cap PmsRows) \ t.seen

\* The unique index on (entity, remote id): another mirror was faster.
Collides(t) == (~t.found /\ link # "none") \/ NewRows(t) \cap known # {}

\* Mutant: the receipt of an event whose mirror failed is marked as applied.
AppliedAnyway(w) == Goes(w, Idle) /\ UNCHANGED news

\* The mirror of an event failed: the receipt stays pending if the projection fails too,
\* and is applied by the projection otherwise; a later statement is to put it back.
\* A mirror of a push's answer has no receipt: the failure of the push is remembered.
Deferred(w) ==
    IF ~task[w].event THEN Goes(w, Idle) /\ UNCHANGED news
    ELSE \/ Goes(w, Idle) /\ due' = TRUE /\ UNCHANGED lost
         \/ Goes(w, [Idle EXCEPT !.do = "keep"]) /\ UNCHANGED news

\* One transaction writes the stay; PMS is told its CRM id afterwards, which may fail.
Mirror(w, linked) ==
    /\ Does(w, "write")
    /\ ~Collides(task[w])
    /\ LET t == task[w] IN
          /\ status' = CrmStatusFor(t.snap)
          /\ copies' = IF t.found THEN copies ELSE copies + 1
          /\ local' = [r \in Rows |-> IF r \in NewRows(t) THEN local[r] + 1 ELSE local[r]]
          /\ known' = known \cup NewRows(t)
          /\ link' = CrmStatusFor(t.snap)
    /\ IF linked THEN Goes(w, Idle) /\ UNCHANGED news ELSE Deferred(w)
    /\ UNCHANGED <<origin, remote, pms>>

\* The transaction is rolled back: another mirror was faster, or the call or the
\* database failed.
RolledBack(w) == Deferred(w) /\ UNCHANGED <<origin, crm, remote, pms, sync>>
MirrorCollides(w) == Does(w, "write") /\ Collides(task[w]) /\ RolledBack(w)
MirrorFails(w) == task[w].do \in {"mirror", "write"} /\ RolledBack(w)

\* keepPending: the receipt of the failed mirror is put back.
KeepPending(w) ==
    /\ Does(w, "keep")
    /\ due' = TRUE
    /\ Goes(w, Idle)
    /\ UNCHANGED <<origin, crm, remote, pms, sync, lost>>

\* The statement fails: what its error handler writes leaves the receipt applied.
KeepFails(w) ==
    /\ Does(w, "keep")
    /\ lost' = (lost \/ ~due)
    /\ Goes(w, Idle)
    /\ UNCHANGED <<origin, crm, remote, pms, sync, due>>

-----------------------------------------------------------------------------
(* CRM -> PMS: pushCrmChanges, pushReservation *)

InCrm == {r \in Rows : local[r] > 0}

\* The reservation, its status and its ledger rows are read. A stay PMS does not have
\* yet is sent if it was booked in CRM and is still open.
PushReads(w) ==
    /\ w = Recovery /\ Does(w, "idle")
    /\ copies > 0
    /\ link # "none" \/ (origin = "crm" /\ status \notin Ended)
    /\ Goes(w, [Idle EXCEPT !.do = "known", !.rows = InCrm, !.target = status,
                            !.found = link = status])
    /\ UNCHANGED <<origin, crm, remote, pms, sync, news>>

\* Then the rows PMS is known to have; with nothing new the push is over.
PushCompares(w) ==
    /\ Does(w, "known")
    /\ LET t == [task[w] EXCEPT !.seen = known] IN
          Goes(w, IF t.found /\ t.rows \subseteq t.seen THEN Idle
                  ELSE [t EXCEPT !.do = "apply", !.found = FALSE])
    /\ UNCHANGED <<origin, crm, remote, pms, sync, news>>

\* PMS takes each CRM id once; a row of its own, sent back, would be a new one.
Applied(t) == [r \in Rows |->
    IF r \in t.rows \ t.seen THEN (IF r \in CrmRows THEN 1 ELSE 2) ELSE remote[r]]

\* v2/sync/apply; PMS publishes the change, and the answer may be lost.
PushApplies(w, answered) ==
    /\ Does(w, "apply")
    /\ pms' = Forward(pms, task[w].target)
    /\ remote' = Applied(task[w])
    /\ Publishes
    /\ Goes(w, IF answered
               THEN [task[w] EXCEPT !.do = "remember", !.snap = pms', !.rows = InPms(remote'),
                                       !.seen = {}]
               ELSE Idle)
    /\ UNCHANGED <<origin, crm, sync>>

\* What the answer shows of CRM's rows is remembered, then the answer is mirrored.
PushRemembers(w) ==
    /\ Does(w, "remember")
    /\ link' = task[w].target
    /\ known' = known \cup (task[w].rows \cap CrmRows)
    /\ Goes(w, [task[w] EXCEPT !.do = "mirror", !.target = "none"])
    /\ UNCHANGED <<origin, crm, remote, pms, news>>

\* PMS rejects the push or does not answer: staff_sync_failures, and a later retry.
PushFails(w) ==
    /\ task[w].do \in {"known", "apply", "remember"}
    /\ Goes(w, Idle)
    /\ UNCHANGED <<origin, crm, remote, pms, sync, news>>

\* The process stops; the receipt of an event whose mirror was under way is still
\* pending, and that of one whose mirror had failed is applied.
Crash ==
    /\ \E w \in Workers : ~Does(w, "idle")
    /\ due' = (due \/ \E w \in Workers : Mirroring(w))
    /\ lost' = (lost \/ (~due' /\ \E w \in Workers : Does(w, "keep")))
    /\ task' = [w \in Workers |-> Idle]
    /\ UNCHANGED <<origin, crm, remote, pms, sync>>

-----------------------------------------------------------------------------
\* The stay was booked at one of the two desks and is not yet known to the other.
Init ==
    /\ \/ /\ origin = "crm" /\ copies = 1 /\ status \in {"pending", "confirmed"}
          /\ pms = "none" /\ due = FALSE
       \/ /\ origin = "pms" /\ copies = 0 /\ status = "none"
          /\ pms = "confirmed" /\ due = TRUE
    /\ local = [r \in Rows |-> 0] /\ remote = [r \in Rows |-> 0]
    /\ link = "none" /\ known = {} /\ lost = FALSE
    /\ task = [w \in Workers |-> Idle]

Desks == CrmDesk \/ PmsDesk \/ \E r \in Rows : CrmPosts(r) \/ PmsPosts(r)

Mirrors(w) == MirrorReads(w) \/ Mirror(w, TRUE) \/ MirrorCollides(w) \/ KeepPending(w)
Pushes(w) == PushCompares(w) \/ PushApplies(w, TRUE) \/ PushRemembers(w)
Fails(w) == MirrorFails(w) \/ Mirror(w, FALSE) \/ KeepFails(w) \/ PushApplies(w, FALSE) \/ PushFails(w)

Next ==
    \/ Desks
    \/ \E w \in Workers : Resolve(w) \/ PushReads(w) \/ Mirrors(w) \/ Pushes(w) \/ Fails(w)
    \/ Crash

Spec == Init /\ [][Next]_vars

\* Outages end, requests do, and the timer goes on pushing and taking up events.  A
\* failure that changes what a success would have changed is no trouble.
Trouble ==
    \/ Crash
    \/ \E w \in Workers : Fails(w) /\ ~(Mirrors(w) \/ Pushes(w))

Fairness ==
    /\ <>[][~Trouble]_vars
    /\ \A w \in Workers : WF_vars(Mirrors(w) \/ Pushes(w))
    /\ SF_vars(due /\ Resolve(Recovery))
    /\ SF_vars(PushReads(Recovery))

FairSpec == Spec /\ Fairness
-----------------------------------------------------------------------------
\* "Applied to PMS exactly once", and without echo: whatever is repeated, overtaken or
\* lost between a push and the mirrors around it, no charge and no payment stands twice
\* in either system, and the stay has one reservation in CRM.
EachRowOnce == copies <= 1 /\ \A r \in Rows : local[r] <= 1 /\ remote[r] <= 1

\* Every charge and payment reaches the other system, once the stay is linked: an event
\* whose mirror failed is taken up again, unless the retry was lost between the
\* projection and the statement that puts the receipt back.  Even then the next event
\* of the stay brings everything.
RowsReachBoth ==
    /\ \A r \in CrmRows : (local[r] > 0 /\ link # "none") ~> remote[r] > 0
    /\ \A r \in PmsRows : remote[r] > 0 ~> local[r] > 0 \/ lost

=============================================================================
