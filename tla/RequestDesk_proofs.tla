------------------------- MODULE RequestDesk_proofs -------------------------
(***************************************************************************)
(* What holds of a request for any number of handlers at the same time:    *)
(* the lock of the lead's row orders the writers of the funnel, "won" has  *)
(* a reservation, and a cancellation by the journey ends every one.        *)
(***************************************************************************)
EXTENDS RequestDesk, TLAPS

Shape ==
  /\ booking \in [Sources -> {"none", "pending_payment", "confirmed", "cancelled"}]
  /\ handler = [h \in Handlers |-> handler[h]]

\* The row of the lead has one owner, and what the owner has read is still so.
LeadLock ==
  /\ \A g, h \in Handlers : handler[g].op = "funnel" /\ handler[h].op = "funnel" => g = h
  /\ \A h \in Handlers : handler[h].op = "funnel" =>
       InWork /\ (handler[h].to = "won" => Booked)

RequestInv == Shape /\ LeadLock /\ WonHasReservation

-----------------------------------------------------------------------------

LEMMA Initially == Init => RequestInv
  BY DEF Init, RequestInv, Shape, LeadLock, WonHasReservation, Idle

LEMMA ShapeKept == Shape /\ [Next]_vars => Shape'
<1> SUFFICES ASSUME Shape, [Next]_vars PROVE Shape'
  OBVIOUS
<1> USE DEF Shape
<1>1. ASSUME NEW h \in Handlers, NEW job, Begin(h, job) PROVE Shape'
  BY <1>1 DEF Begin, rows
<1>2. ASSUME NEW h \in Handlers, FinishJourney(h) PROVE Shape'
  <2>1. booking' = booking \/ Reserve(h) \/ CancelReservations(h)
    BY <1>2 DEF FinishJourney
  <2>2. booking' \in [Sources -> {"none", "pending_payment", "confirmed", "cancelled"}]
    BY <2>1 DEF Reserve, CancelReservations, Sources
  <2> QED BY <1>2, <2>2 DEF FinishJourney, End
<1>3. ASSUME NEW h \in Handlers, FinishRollback(h) PROVE Shape'
  BY <1>3 DEF FinishRollback, End, rows
<1>4. ASSUME NEW h \in Handlers, FinishFunnel(h) PROVE Shape'
  BY <1>4 DEF FinishFunnel, End, rows
<1>5. ASSUME NEW h \in Handlers, NEW due \in BOOLEAN, FinishBook(h, due) PROVE Shape'
  <2>1. booking' = booking \/ booking' = [booking EXCEPT !["desk"] = BookedStatus(due)]
    BY <1>5 DEF FinishBook
  <2>2. booking' \in [Sources -> {"none", "pending_payment", "confirmed", "cancelled"}]
    BY <2>1 DEF BookedStatus
  <2> QED BY <1>5, <2>2 DEF FinishBook, End
<1>6. ASSUME NEW h \in Handlers, LoseBook(h) PROVE Shape'
  BY <1>6 DEF LoseBook, End, rows
<1>7. ASSUME NEW h \in Handlers, NEW due \in BOOLEAN, FinishAssistantBook(h, due) PROVE Shape'
  <2>1. booking' = [booking EXCEPT !["assistant"] = BookedStatus(due)]
    BY <1>7 DEF FinishAssistantBook
  <2>2. booking' \in [Sources -> {"none", "pending_payment", "confirmed", "cancelled"}]
    BY <2>1 DEF BookedStatus
  <2> QED BY <1>7, <2>2 DEF FinishAssistantBook, End
<1>8. ASSUME NEW h \in Handlers, NEW due \in BOOLEAN, FinishOffer(h, due) PROVE Shape'
  BY <1>8 DEF FinishOffer, End, rows
<1>9. ASSUME NEW s \in Sources, NEW to \in Live \cup {"cancelled"},
             ReceiveDeposit(s) \/ PatchReservation(s, to)
      PROVE  Shape'
  BY <1>9 DEF ReceiveDeposit, PatchReservation, Live
<1>10. CASE EndFollowUp \/ ChangeDeposit \/ AskForRoom
  BY <1>10 DEF EndFollowUp, ChangeDeposit, AskForRoom, rows
<1>11. ASSUME NEW to \in {"none", "open", "accepted"}, NEW due \in BOOLEAN, AnswerOffer(to, due)
       PROVE  Shape'
  BY <1>11 DEF AnswerOffer, rows
<1>12. CASE UNCHANGED vars
  BY <1>12 DEF vars, rows
<1>13. ASSUME NEW h \in Handlers, JourneyStep(h) PROVE Shape'
  BY <1>13, <1>1, <1>2, <1>3 DEF JourneyStep, StartAdvance, StartLose, StartCancel, StartRollback
<1>14. ASSUME NEW h \in Handlers, FunnelStep(h) PROVE Shape'
  BY <1>14, <1>1, <1>4 DEF FunnelStep, StartFunnelByStaff, StartFunnelByAssistant
<1>15. ASSUME NEW h \in Handlers, BookingStep(h) PROVE Shape'
  BY <1>15, <1>1, <1>5, <1>6, <1>7 DEF BookingStep, StartBook, StartAssistantBook
<1>16. ASSUME NEW h \in Handlers, OfferStep(h) PROVE Shape'
  BY <1>16, <1>1, <1>8 DEF OfferStep, StartOffer
<1> QED
  BY <1>9, <1>10, <1>11, <1>12, <1>13, <1>14, <1>15, <1>16 DEF Next

\* A reservation is never deleted.
LEMMA BookedStays ==
  ASSUME Shape, [Next]_vars, Booked
  PROVE  Booked'
<1>1. PICK s \in Sources : booking[s] # "none"
  BY DEF Booked
<1>2. SUFFICES booking'[s] # "none"
  BY DEF Booked
<1> USE <1>1 DEF Shape
<1>3. CASE booking' = booking
  BY <1>3
<1>4. ASSUME NEW h \in Handlers, FinishJourney(h) PROVE <1>2!1
  <2>1. booking' = booking \/ Reserve(h) \/ CancelReservations(h)
    BY <1>4 DEF FinishJourney
  <2> QED BY <2>1 DEF Reserve, CancelReservations
<1>5. ASSUME NEW h \in Handlers, NEW due \in BOOLEAN, FinishBook(h, due) PROVE <1>2!1
  BY <1>5 DEF FinishBook, BookedStatus, Booked
<1>6. ASSUME NEW h \in Handlers, NEW due \in BOOLEAN, FinishAssistantBook(h, due)
      PROVE <1>2!1
  BY <1>6 DEF FinishAssistantBook, BookedStatus
<1>7. ASSUME NEW q \in Sources, NEW to \in Live \cup {"cancelled"},
             ReceiveDeposit(q) \/ PatchReservation(q, to)
      PROVE  <1>2!1
  BY <1>7 DEF ReceiveDeposit, PatchReservation, Live
<1>8. ASSUME NEW h \in Handlers, JourneyStep(h) PROVE <1>2!1
  BY <1>8, <1>3, <1>4 DEF JourneyStep, StartAdvance, StartLose, StartCancel, StartRollback,
     FinishRollback, Begin, rows
<1>9. ASSUME NEW h \in Handlers, FunnelStep(h) PROVE <1>2!1
  BY <1>9, <1>3 DEF FunnelStep, StartFunnelByStaff, StartFunnelByAssistant, FinishFunnel, Begin, rows
<1>10. ASSUME NEW h \in Handlers, BookingStep(h) PROVE <1>2!1
  BY <1>10, <1>3, <1>5, <1>6 DEF BookingStep, StartBook, StartAssistantBook, LoseBook, Begin, rows
<1>11. ASSUME NEW h \in Handlers, OfferStep(h) PROVE <1>2!1
  BY <1>11, <1>3 DEF OfferStep, StartOffer, FinishOffer, Begin, rows
<1>12. CASE \/ EndFollowUp \/ ChangeDeposit \/ AskForRoom \/ UNCHANGED vars
            \/ \E to \in {"none", "open", "accepted"}, due \in BOOLEAN : AnswerOffer(to, due)
  BY <1>12, <1>3 DEF EndFollowUp, ChangeDeposit, AskForRoom, AnswerOffer, vars, rows
<1> QED
  BY <1>7, <1>8, <1>9, <1>10, <1>11, <1>12 DEF Next
\* Who writes the funnel holds the row of the lead or waits until nobody does.
LEMMA FunnelStepCases ==
  ASSUME Shape, [Next]_vars
  PROVE  \/ /\ funnel' = funnel
            /\ \A h \in Handlers : handler'[h].op = "funnel" => handler'[h] = handler[h]
         \/ \E h \in Handlers :
              /\ LeadIsFree(h) /\ handler[h] = Idle /\ InWork /\ funnel' = funnel
              /\ handler'[h].to = "won" => Booked
              /\ \A g \in Handlers \ {h} : handler'[g] = handler[g]
         \/ \E h \in Handlers :
              /\ handler[h].op = "funnel" /\ funnel' = handler[h].to /\ handler'[h] = Idle
              /\ booking' = booking
              /\ \A g \in Handlers \ {h} : handler'[g] = handler[g]
         \/ /\ funnel' \in {"won", "definite"}
            /\ funnel' = "won" => Booked'
            /\ \A h \in Handlers : handler'[h].op # "funnel"
<1> DEFINE Quiet == /\ funnel' = funnel
                    /\ \A h \in Handlers : handler'[h].op = "funnel" => handler'[h] = handler[h]
<1> USE DEF Shape
<1>1. ASSUME NEW h \in Handlers, NEW job, Begin(h, job), job.op # "funnel" PROVE Quiet
  BY <1>1 DEF Begin, lead
<1>2. ASSUME NEW h \in Handlers, End(h), funnel' = funnel PROVE Quiet
  BY <1>2 DEF End, Idle
<1>3. ASSUME NEW h \in Handlers, NEW to, StartFunnelByStaff(h, to) \/ StartFunnelByAssistant(h, to)
      PROVE  /\ LeadIsFree(h) /\ handler[h] = Idle /\ InWork /\ funnel' = funnel
             /\ handler'[h].to = "won" => Booked
             /\ \A g \in Handlers \ {h} : handler'[g] = handler[g]
  BY <1>3 DEF StartFunnelByStaff, StartFunnelByAssistant, Begin, lead, Booked
<1>4. ASSUME NEW h \in Handlers, FinishFunnel(h)
      PROVE  /\ handler[h].op = "funnel" /\ funnel' = handler[h].to /\ handler'[h] = Idle
             /\ booking' = booking
             /\ \A g \in Handlers \ {h} : handler'[g] = handler[g]
  BY <1>4 DEF FinishFunnel, End, rows
<1> DEFINE Decided == /\ funnel' \in {"won", "definite"}
                      /\ funnel' = "won" => Booked'
                      /\ \A h \in Handlers : handler'[h].op # "funnel"
<1>5. ASSUME NEW h \in Handlers, NEW due \in BOOLEAN, FinishBook(h, due) PROVE Decided
  <2>1. \A g \in Handlers : handler'[g].op # "funnel"
    BY <1>5 DEF FinishBook, LeadIsFree, End, Idle
  <2>2. funnel' \in {"won", "definite"}
    BY <1>5 DEF FinishBook, BookedFunnel
  <2>3. CASE Booked
    BY <1>5, <2>1, <2>2, <2>3 DEF FinishBook, Booked
  <2>4. CASE ~Booked
    <3>1. booking'["desk"] = BookedStatus(due)
      BY <1>5, <2>4 DEF FinishBook, Sources
    <3>2. Booked'
      BY <3>1 DEF Booked, BookedStatus, Sources
    <3> QED BY <2>1, <2>2, <3>2
  <2> QED BY <2>3, <2>4
<1>6. ASSUME NEW h \in Handlers, NEW due \in BOOLEAN, FinishAssistantBook(h, due) PROVE Decided
  <2>1. \A g \in Handlers : handler'[g].op # "funnel"
    BY <1>6 DEF FinishAssistantBook, LeadIsFree, End, Idle
  <2>2. funnel' \in {"won", "definite"}
    BY <1>6 DEF FinishAssistantBook, BookedFunnel
  <2>3. booking'["assistant"] = BookedStatus(due)
    BY <1>6 DEF FinishAssistantBook, Sources
  <2>4. Booked'
    BY <2>3 DEF Booked, BookedStatus, Sources
  <2> QED BY <2>1, <2>2, <2>4
<1>7. ASSUME NEW s \in Sources, ReceiveDeposit(s) PROVE Decided
  BY <1>7 DEF ReceiveDeposit, Booked
<1>8. ASSUME NEW s \in Sources, NEW to \in Live \cup {"cancelled"}, PatchReservation(s, to)
      PROVE  Quiet
  BY <1>8 DEF PatchReservation, lead
<1>9. ASSUME NEW h \in Handlers, JourneyStep(h) PROVE Quiet
  BY <1>9, <1>1, <1>2 DEF JourneyStep, StartAdvance, StartLose, StartCancel, StartRollback,
     FinishJourney, FinishRollback
<1>10. ASSUME NEW h \in Handlers, StartBook(h) \/ StartAssistantBook(h) \/ LoseBook(h) PROVE Quiet
  BY <1>10, <1>1, <1>2 DEF StartBook, StartAssistantBook, LoseBook, lead
<1>11. ASSUME NEW h \in Handlers, OfferStep(h) PROVE Quiet
  BY <1>11, <1>1, <1>2 DEF OfferStep, StartOffer, FinishOffer
<1>12. ASSUME \/ EndFollowUp \/ ChangeDeposit \/ AskForRoom \/ UNCHANGED vars
              \/ \E to \in {"none", "open", "accepted"}, due \in BOOLEAN : AnswerOffer(to, due)
       PROVE  Quiet
  BY <1>12 DEF EndFollowUp, ChangeDeposit, AskForRoom, AnswerOffer, vars, lead
<1> QED
  <2>1. ASSUME NEW h \in Handlers, FunnelStep(h)
        PROVE  \/ Quiet
               \/ /\ LeadIsFree(h) /\ handler[h] = Idle /\ InWork /\ funnel' = funnel
                  /\ handler'[h].to = "won" => Booked
                  /\ \A g \in Handlers \ {h} : handler'[g] = handler[g]
               \/ /\ handler[h].op = "funnel" /\ funnel' = handler[h].to /\ handler'[h] = Idle
                  /\ booking' = booking
                  /\ \A g \in Handlers \ {h} : handler'[g] = handler[g]
    BY <2>1, <1>3, <1>4 DEF FunnelStep
  <2>2. ASSUME NEW h \in Handlers, BookingStep(h) PROVE Quiet \/ Decided
    BY <2>2, <1>5, <1>6, <1>10 DEF BookingStep
  <2> HIDE DEF Quiet, Decided
  <2>3. \/ Quiet \/ Decided \/ \E h \in Handlers : FunnelStep(h)
    <3>1. ASSUME NEW h \in Handlers,
                 JourneyStep(h) \/ FunnelStep(h) \/ BookingStep(h) \/ OfferStep(h)
          PROVE  Quiet \/ Decided \/ FunnelStep(h)
      BY <3>1, <2>2, <1>9, <1>11
    <3>2. ASSUME NEW s \in Sources,
                 ReceiveDeposit(s) \/ \E to \in Live \cup {"cancelled"} : PatchReservation(s, to)
          PROVE  Quiet \/ Decided
      BY <3>2, <1>7, <1>8
    <3> QED BY <3>1, <3>2, <1>12 DEF Next
  <2> QED BY <2>1, <2>3 DEF Quiet, Decided

LEMMA LockKept == RequestInv /\ [Next]_vars => LeadLock' /\ WonHasReservation'
<1> SUFFICES ASSUME RequestInv, [Next]_vars PROVE LeadLock' /\ WonHasReservation'
  OBVIOUS
<1> USE DEF RequestInv, LeadLock, WonHasReservation, InWork
<1>1. CASE /\ funnel' = funnel
           /\ \A h \in Handlers : handler'[h].op = "funnel" => handler'[h] = handler[h]
  BY <1>1, BookedStays
<1>2. ASSUME NEW h \in Handlers, LeadIsFree(h), handler[h] = Idle, InWork, funnel' = funnel,
             handler'[h].to = "won" => Booked,
             \A g \in Handlers \ {h} : handler'[g] = handler[g]
      PROVE  LeadLock' /\ WonHasReservation'
  BY <1>2, BookedStays DEF LeadIsFree
<1>3. ASSUME NEW h \in Handlers, handler[h].op = "funnel", funnel' = handler[h].to,
             handler'[h] = Idle, booking' = booking,
             \A g \in Handlers \ {h} : handler'[g] = handler[g]
      PROVE  LeadLock' /\ WonHasReservation'
  <2>1. \A g \in Handlers : handler'[g].op # "funnel"
    BY <1>3 DEF Idle
  <2>2. funnel' = "won" => Booked'
    BY <1>3 DEF Booked
  <2> QED BY <2>1, <2>2
<1>4. CASE /\ funnel' \in {"won", "definite"}
           /\ funnel' = "won" => Booked'
           /\ \A h \in Handlers : handler'[h].op # "funnel"
  BY <1>4
<1> QED
  BY <1>1, <1>2, <1>3, <1>4, FunnelStepCases

LEMMA ClosedKept ==
  ASSUME RequestInv, [Next]_vars, funnel \in {"lost", "closed"}
  PROVE  funnel' \notin {"enquire", "tentative"}
BY FunnelStepCases DEF RequestInv, LeadLock, InWork, ClosedFunnel

\* Only the transaction that cancels ends a cancellation.
LEMMA CancellationStep ==
  ASSUME Shape, Next, NEW h \in Handlers, handler[h].op = "journey", handler'[h] = Idle
  PROVE  FinishJourney(h)
<1> USE DEF Shape
<1>1. ASSUME NEW g \in Handlers, NEW job, Begin(g, job) PROVE handler'[h] = handler[h] \/ job = handler'[h]
  BY <1>1 DEF Begin
<1>2. ASSUME NEW g \in Handlers, g # h, End(g) PROVE handler'[h] = handler[h]
  BY <1>2 DEF End
<1>3. handler'[h] # handler[h]
  BY DEF Idle
<1>4. ASSUME NEW g \in Handlers, NEW job, job.op # "idle", Begin(g, job) PROVE FALSE
  BY <1>1, <1>3, <1>4 DEF Idle
<1>5. ASSUME NEW g \in Handlers, handler[g].op # "journey", End(g) PROVE FALSE
  BY <1>2, <1>3, <1>5
<1>6. ASSUME NEW g \in Handlers, JourneyStep(g) PROVE FinishJourney(h)
  <2>1. FinishJourney(g) \/ FinishRollback(g)
    BY <1>6, <1>4 DEF JourneyStep, StartAdvance, StartLose, StartCancel, StartRollback
  <2>2. ~FinishRollback(g)
    BY <1>5 DEF FinishRollback
  <2>3. FinishJourney(g)
    BY <2>1, <2>2
  <2>4. g = h
    BY <2>3, <1>2, <1>3 DEF FinishJourney
  <2> QED BY <2>3, <2>4
<1>7. ASSUME NEW g \in Handlers, FunnelStep(g) PROVE FALSE
  BY <1>7, <1>4, <1>5 DEF FunnelStep, StartFunnelByStaff, StartFunnelByAssistant, FinishFunnel
<1>8. ASSUME NEW g \in Handlers, BookingStep(g) PROVE FALSE
  BY <1>8, <1>4, <1>5 DEF BookingStep, StartBook, StartAssistantBook, LoseBook, FinishBook,
     FinishAssistantBook
<1>9. ASSUME NEW g \in Handlers, OfferStep(g) PROVE FALSE
  BY <1>9, <1>4, <1>5 DEF OfferStep, StartOffer, FinishOffer
<1>10. CASE \/ EndFollowUp \/ ChangeDeposit \/ AskForRoom
            \/ \E to \in {"none", "open", "accepted"}, due \in BOOLEAN : AnswerOffer(to, due)
            \/ \E s \in Sources : ReceiveDeposit(s) \/ \E to \in Live \cup {"cancelled"} : PatchReservation(s, to)
  BY <1>10, <1>3 DEF EndFollowUp, ChangeDeposit, AskForRoom, AnswerOffer, ReceiveDeposit,
     PatchReservation
<1> QED
  BY <1>6, <1>7, <1>8, <1>9, <1>10 DEF Next

LEMMA CancellationEndsAll ==
  ASSUME Shape, [Next]_vars, NEW h \in Handlers,
         handler[h].op = "journey", handler[h].to = "cancelled", handler'[h] = Idle
  PROVE  \A s \in Sources : booking'[s] \notin Live
<1>1. Next
  BY DEF vars, Idle
<1>2. FinishJourney(h)
  BY <1>1, CancellationStep
<1>3. CancelReservations(h)
  BY <1>2 DEF FinishJourney
<1> QED
  BY <1>3 DEF CancelReservations, Live

-----------------------------------------------------------------------------
(* Theorems *)

\* The inductive invariant: the lead's row has one owner, whose reading is current.
THEOREM RequestInvariant == Spec => []RequestInv
<1>1. RequestInv /\ [Next]_vars => RequestInv'
  BY ShapeKept, LockKept DEF RequestInv
<1> QED
  BY Initially, <1>1, PTL DEF Spec

\* "Won" always has a reservation, with any number of handlers.
THEOREM WonIsBooked == Spec => []WonHasReservation
<1>1. RequestInv => WonHasReservation
  BY DEF RequestInv
<1> QED
  BY RequestInvariant, <1>1, PTL

\* No handler takes a request that is closed back to work through the funnel.
THEOREM ClosedStaysOutOfWork == Spec => ClosedIsNotWorkedAgain
<1>1. RequestInv /\ [Next]_vars =>
        [(funnel \in {"lost", "closed"}) => (funnel' \notin {"enquire", "tentative"})]_vars
  BY ClosedKept
<1> QED
  BY RequestInvariant, <1>1, PTL DEF Spec, ClosedIsNotWorkedAgain

\* The journey's cancellation leaves nothing live, whatever was booked meanwhile.
THEOREM CancellationIsComplete == Spec => CancellationLeavesNothing
<1>1. RequestInv /\ [Next]_vars =>
        [(\E h \in Handlers : handler[h].op = "journey" /\ handler[h].to = "cancelled" /\ handler'[h] = Idle)
            => \A s \in Sources : booking'[s] \notin Live]_vars
  BY CancellationEndsAll DEF RequestInv
<1> QED
  BY RequestInvariant, <1>1, PTL DEF Spec, CancellationLeavesNothing

=============================================================================
