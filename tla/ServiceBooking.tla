---------------------------- MODULE ServiceBooking ----------------------------
(***************************************************************************)
(* Booking of services (sauna, boat, massage ...) against shared resources.*)
(*                                                                         *)
(* A handler is a transaction of several statements: it takes row locks    *)
(* one after the other, reads what is allocated and blocked, and writes    *)
(* later.  Others run in between.  Two handlers exclude each other only    *)
(* where they lock the same row: a reservation, an entitlement, a service  *)
(* or a resource group.  Handlers whose reads and writes all lie under     *)
(* locks they take at once are one action.                                 *)
(*                                                                         *)
(* Abstractions.  Quantity and number of participants are one number, the  *)
(* size.  A reservation and its stay share an identifier.  Prices, folio   *)
(* lines, opening hours and the clock are left out.  An allocation that is *)
(* released is absent.  What a handler checks between two locks it checks  *)
(* here after the last one: the locks it holds by then keep the answer.    *)
(***************************************************************************)
EXTENDS Integers, SequencesExt

CONSTANTS
  Services,    \* service reservations, by the idempotency key of their booking
  Stays,       \* reservations with their stays
  Handlers,    \* bound: transactions in flight at the same time
  UnitGroups,  \* resource groups given out piece by piece
  PoolGroups,  \* resource groups that only have a capacity
  Resources,   \* the pieces, numbered in the order of their codes
  GroupOf,     \* GroupOf[u]: the unit group of a piece
  Seats,       \* Seats[u]: the capacity of a piece
  Capacity,    \* Capacity[g]: the capacity of a pool
  Items,       \* the service catalog
  IdOf,        \* IdOf[g]: the place of group g in the order of the groups' ids
  Requires,    \* Requires[i]: the groups that service i needs, {} for a manual one
  PerPerson,   \* <<i, g>> whose demand is the size, others need one
  BySeats,     \* <<i, g>> whose piece must seat everybody
  Slots,       \* <<start, end>> pairs of bookings and blocks
  Moves,       \* new times that are asked for: [slot, pick]
  Asks,        \* bookings that are asked for: a service record with a picked piece
  Included,    \* quantity of the entitlement of a stay's package
  MaxBlocks,   \* bound: resource blocks active at the same time
  Entitlement, \* the lock of the entitlement row
  None

Groups == UnitGroups \cup PoolGroups

ASSUME PiecesInGroups ==
  /\ Resources \subseteq Nat /\ IsFiniteSet(Resources) /\ None \notin Resources
  /\ GroupOf \in [Resources -> UnitGroups]
ASSUME GroupsInOrder ==
  /\ IsFiniteSet(Groups) /\ UnitGroups \cap PoolGroups = {}
  /\ IdOf \in [Groups -> Nat] /\ \A f, g \in Groups : IdOf[f] = IdOf[g] => f = g
ASSUME RowsOfTables ==
  /\ Groups \cap (Stays \cup Services \cup {Entitlement}) = {}
  /\ Entitlement \notin Stays \cup Services
ASSUME Supply == Seats \in [Resources -> Nat] /\ Capacity \in [PoolGroups -> Nat]
ASSUME Demands == Requires \in [Items -> SUBSET Groups] /\ Included \in Nat
ASSUME AsksOfCatalog == \A a \in Asks :
  /\ a.item \in Items /\ a.size \in Nat \ {0} /\ a.stay \in Stays \cup {None}
  /\ a.slot \in Slots /\ a.pick \in Resources \cup {None}
  /\ a.entitled \in BOOLEAN /\ (a.entitled => a.stay # None)
ASSUME MovesInSlots == Moves \subseteq [slot : Slots, pick : Resources \cup {None}]
ASSUME SlotsForward == \A s \in Slots : s[1] \in Nat /\ s[2] \in Nat /\ s[1] < s[2]

VARIABLES
  service,  \* service_reservations
  alloc,    \* service_resource_allocations with status active
  block,    \* service_resource_blocks with status active
  stay,     \* the reservation's state, as far as services ask for it
  handler   \* the transactions in flight: request, locks wanted and held, plan

vars == <<service, alloc, block, stay, handler>>

-----------------------------------------------------------------------------
(* State *)

Absent == [status |-> "none", item |-> None, slot |-> None, size |-> 0,
           stay |-> None, entitled |-> FALSE]
Idle == [op |-> "idle", key |-> None, ask |-> Absent, pick |-> None,
         wants |-> <<>>, held |-> {}, plan |-> None]

Init ==
  /\ service = [k \in Services |-> Absent]
  /\ alloc = {}
  /\ block = {}
  /\ stay = [r \in Stays |-> "open"]
  /\ handler = [h \in Handlers |-> Idle]

-----------------------------------------------------------------------------
(* Availability: shared/service-availability.ts *)

Meets(s, t) == s[1] < t[2] /\ s[2] > t[1]

DemandFor(i, g, size) == IF <<i, g>> \in PerPerson THEN size ELSE 1

Blocked(g, u, slot) == \E b \in block :
  b.group = g /\ b.piece = u /\ Meets(b.slot, slot)

\* Allocations a booking of service k has to respect: its own are being replaced.
Others(k, slot) == {a \in alloc : a.key # k /\ Meets(a.slot, slot)}

Quantity(as) == MapThenSumSet(LAMBDA a : a.qty, as)

\* Mutant: the last place of a pool is given away once more.
PoolLeftPlusOne(g, k, slot) ==
  Capacity[g] + 1 - Quantity({a \in Others(k, slot) : a.group = g /\ a.piece = None})

\* Everything that overlaps the slot counts, whether or not it overlaps each other.
PoolLeft(g, k, slot) ==
  Capacity[g] - Quantity({a \in Others(k, slot) : a.group = g /\ a.piece = None})

FreePieces(i, g, k, slot, size) == {u \in Resources :
  /\ GroupOf[u] = g
  /\ <<i, g>> \in BySeats => Seats[u] >= size
  /\ ~Blocked(g, u, slot)
  /\ \A a \in Others(k, slot) : a.piece # u}

\* A preferred piece leaves no other choice in its group.
Candidates(i, g, k, slot, size, pick) ==
  LET free == FreePieces(i, g, k, slot, size)
  IN IF pick \in Resources /\ GroupOf[pick] = g THEN free \cap {pick} ELSE free

FirstByCode(n, us) == {u \in us : Cardinality({v \in us : v < u}) < n}

Available(i, k, slot, size, pick) == \A g \in Requires[i] :
  /\ ~Blocked(g, None, slot)
  /\ DemandFor(i, g, size) <=
       IF g \in PoolGroups THEN PoolLeft(g, k, slot)
       ELSE Cardinality(Candidates(i, g, k, slot, size, pick))

\* The assignments evaluateServiceAvailability proposes when the slot is available.
Assignments(i, k, slot, size, pick) == UNION {
  IF g \in PoolGroups
    THEN {[key |-> k, group |-> g, piece |-> None, slot |-> slot, qty |-> DemandFor(i, g, size)]}
    ELSE {[key |-> k, group |-> g, piece |-> u, slot |-> slot, qty |-> 1] :
            u \in FirstByCode(DemandFor(i, g, size), Candidates(i, g, k, slot, size, pick))}
  : g \in Requires[i]}

-----------------------------------------------------------------------------
(* Transactions *)

LockFree(lock) == \A j \in Handlers : lock \notin handler[j].held

\* Mutant: the groups are locked in the order in which the requirements are stored.
GroupLocksUnsorted(i) ==
  IF i = CHOOSE j \in Items : Cardinality(Requires[j]) > 1
    THEN Reverse(SetToSeq(Requires[i])) ELSE SetToSeq(Requires[i])

\* lockServiceGroups sorts the ids: the n-th group has n - 1 before it.
GroupLocks(i) == [n \in 1 .. Cardinality(Requires[i]) |->
  CHOOSE g \in Requires[i] : Cardinality({f \in Requires[i] : IdOf[f] < IdOf[g]}) = n - 1]

\* The desk's booking locks reservation, entitlement, groups; the agent's takes
\* the groups before it asks for the same booking, and before the reservation.
BookLocks(ask) ==
  (IF ask.stay = None THEN <<>> ELSE <<ask.stay>>)
  \o (IF ask.entitled THEN <<Entitlement>> ELSE <<>>) \o GroupLocks(ask.item)

AgentBookLocks(ask) ==
  GroupLocks(ask.item) \o (IF ask.stay = None THEN <<>> ELSE <<ask.stay>>)

Begin(h, op, key, ask, pick, wants) ==
  /\ handler[h] = Idle
  /\ handler' = [handler EXCEPT ![h] = [op |-> op, key |-> key, ask |-> ask, pick |-> pick,
                                        wants |-> wants, held |-> {}, plan |-> None]]
  /\ UNCHANGED <<service, alloc, block, stay>>

Asked(ask) == [status |-> "scheduled", item |-> ask.item, slot |-> ask.slot,
               size |-> ask.size, stay |-> ask.stay, entitled |-> ask.entitled]

\* A key that is known already is answered with its service and changes nothing.
Book(h, k, ask) ==
  /\ service[k] = Absent
  /\ Begin(h, "book", k, Asked(ask), ask.pick, BookLocks(ask))

\* The agent books services that have resources, for the guest's open stay.
AgentBook(h, k, ask) ==
  /\ service[k] = Absent
  /\ Requires[ask.item] # {} /\ ask.pick = None /\ ~ask.entitled
  /\ ask.stay # None => stay[ask.stay] = "open"
  /\ Begin(h, "book", k, Asked(ask), None, AgentBookLocks(ask))

\* What a move needs of its service: the rest is read when it is assessed.
Moved(k, slot) == [Asked([service[k] EXCEPT !.stay = None, !.entitled = FALSE]) EXCEPT !.slot = slot]

Reschedule(h, k, move) ==
  /\ service[k] # Absent
  /\ Begin(h, "move", k, Moved(k, move.slot), move.pick, <<k>> \o GroupLocks(service[k].item))

AgentReschedule(h, k, move) ==
  /\ service[k].status = "scheduled"
  /\ move.pick = None
  /\ Begin(h, "move", k, Moved(k, move.slot), None, GroupLocks(service[k].item) \o <<k>>)

AcquireLock(h) ==
  /\ handler[h].wants # <<>>
  /\ LockFree(Head(handler[h].wants))
  /\ handler' = [handler EXCEPT ![h].held = @ \cup {Head(handler[h].wants)},
                                ![h].wants = Tail(@)]
  /\ UNCHANGED <<service, alloc, block, stay>>

\* Included quantity the stay has used up; a moved service keeps its share.
Consumed(r) == MapThenSumSet(LAMBDA k : service[k].size,
  {k \in Services : /\ service[k].stay = r
                    /\ service[k].entitled
                    /\ service[k].status \in {"scheduled", "completed"}})

Granted(req) ==
  /\ req.op = "book" =>
       /\ req.ask.stay # None => stay[req.ask.stay] = "open"
       /\ req.ask.entitled => Consumed(req.ask.stay) + req.ask.size <= Included
  /\ req.op = "move" => service[req.key].status = "scheduled"
  /\ Available(req.ask.item, req.key, req.ask.slot, req.ask.size, req.pick)

Ready(h) == handler[h].op # "idle" /\ handler[h].wants = <<>> /\ handler[h].plan = None

Assess(h) ==
  LET req == handler[h] IN
  /\ Ready(h)
  /\ Granted(req)
  /\ handler' = [handler EXCEPT ![h].plan =
       Assignments(req.ask.item, req.key, req.ask.slot, req.ask.size, req.pick)]
  /\ UNCHANGED <<service, alloc, block, stay>>

\* Mutant: a booking does not notice that its key was taken in the meantime.
WrittenTwice(req) ==
  /\ service' = [service EXCEPT ![req.key] =
                   IF req.op = "book" THEN req.ask ELSE [@ EXCEPT !.slot = req.ask.slot]]
  /\ alloc' = {a \in alloc : req.op = "move" => a.key # req.key} \cup req.plan

\* The rows are written under the locks; a second booking of a key meets the
\* unique index instead.
Written(req) ==
  /\ req.op = "book" => service[req.key] = Absent
  /\ service' = [service EXCEPT ![req.key] =
                   IF req.op = "book" THEN req.ask ELSE [@ EXCEPT !.slot = req.ask.slot]]
  /\ alloc' = {a \in alloc : a.key # req.key} \cup req.plan

Commit(h) ==
  /\ handler[h].plan # None
  /\ Written(handler[h])
  /\ handler' = [handler EXCEPT ![h] = Idle]
  /\ UNCHANGED <<block, stay>>

GiveUp(h) ==
  /\ handler' = [handler EXCEPT ![h] = Idle]
  /\ UNCHANGED <<service, alloc, block, stay>>

Refuse(h) ==
  /\ \/ Ready(h) /\ ~Granted(handler[h])
     \/ handler[h].plan # None /\ handler[h].op = "book" /\ service[handler[h].key] # Absent
  /\ GiveUp(h)

\* Handlers that wait for one another.
Deadlocked(hs) == hs # {} /\ \A h \in hs :
  /\ handler[h].wants # <<>>
  /\ \E j \in hs \ {h} : Head(handler[h].wants) \in handler[j].held

\* PostgreSQL ends one transaction of a deadlock.
BreakDeadlock(h) == (\E hs \in SUBSET Handlers : h \in hs /\ Deadlocked(hs)) /\ GiveUp(h)

\* The connection is lost, or the process stops, before the commit.
Rollback(h) == handler[h].op # "idle" /\ GiveUp(h)

-----------------------------------------------------------------------------
(* Handlers that read and write under the locks they take at once *)

ChangeServiceStatus(k, status) ==
  /\ LockFree(k)
  /\ service[k].status = "scheduled"
  /\ service' = [service EXCEPT ![k].status = status]
  /\ alloc' = IF status = "cancelled" THEN {a \in alloc : a.key # k} ELSE alloc
  /\ UNCHANGED <<block, stay, handler>>

LinkServiceToReservation(k, r) ==
  /\ LockFree(k) /\ LockFree(r)
  /\ service[k].status \in {"scheduled", "completed"}
  /\ service[k].stay # r
  /\ stay[r] = "open"
  /\ service' = [service EXCEPT ![k].stay = r]
  /\ UNCHANGED <<alloc, block, stay, handler>>

\* A block is refused over a confirmed service: any of the group, or of the piece.
CreateBlock(g, u, slot) ==
  /\ LockFree(g)
  /\ Cardinality(block) < MaxBlocks
  /\ u # None => GroupOf[u] = g
  /\ \A a \in alloc : a.group = g /\ Meets(a.slot, slot) => u # None /\ a.piece # u
  /\ block' = block \cup {[group |-> g, piece |-> u, slot |-> slot]}
  /\ UNCHANGED <<service, alloc, stay, handler>>

CancelBlock(b) ==
  /\ block' = block \ {b}
  /\ UNCHANGED <<service, alloc, stay, handler>>

\* Mutant: departure does not ask for the reservation's lock.
CheckOutUnlocked(r) ==
  /\ stay[r] = "open"
  /\ ~\E k \in Services : service[k].stay = r /\ service[k].status = "scheduled"
  /\ stay' = [stay EXCEPT ![r] = "checked_out"]
  /\ UNCHANGED <<service, alloc, block, handler>>

CheckOut(r) ==
  /\ LockFree(r)
  /\ stay[r] = "open"
  /\ ~\E k \in Services : service[k].stay = r /\ service[k].status = "scheduled"
  /\ stay' = [stay EXCEPT ![r] = "checked_out"]
  /\ UNCHANGED <<service, alloc, block, handler>>

\* Cancelling a reservation leaves its services alone.
CancelReservation(r) ==
  /\ LockFree(r)
  /\ stay[r] = "open"
  /\ stay' = [stay EXCEPT ![r] = "cancelled"]
  /\ UNCHANGED <<service, alloc, block, handler>>

-----------------------------------------------------------------------------
(* Specification *)

Transaction(h) ==
  \/ \E k \in Services, ask \in Asks : Book(h, k, ask) \/ AgentBook(h, k, ask)
  \/ \E k \in Services, move \in Moves : Reschedule(h, k, move) \/ AgentReschedule(h, k, move)
  \/ AcquireLock(h) \/ Assess(h) \/ Commit(h)
  \/ Refuse(h) \/ BreakDeadlock(h) \/ Rollback(h)

Next ==
  \/ \E h \in Handlers : Transaction(h)
  \/ \E k \in Services, status \in {"completed", "cancelled"} : ChangeServiceStatus(k, status)
  \/ \E k \in Services, r \in Stays : LinkServiceToReservation(k, r)
  \/ \E g \in Groups, u \in Resources \cup {None}, slot \in Slots : CreateBlock(g, u, slot)
  \/ \E b \in block : CancelBlock(b)
  \/ \E r \in Stays : CheckOut(r) \/ CancelReservation(r)

Spec == Init /\ [][Next]_vars

-----------------------------------------------------------------------------
(* Properties *)

PiecesGivenOnce == \A a, b \in alloc :
  a # b /\ a.piece # None /\ a.piece = b.piece => ~Meets(a.slot, b.slot)

PoolsSuffice == \A g \in PoolGroups : \A s \in Slots :
  Quantity({a \in alloc : a.group = g /\ a.slot[1] <= s[1] /\ s[1] < a.slot[2]}) <= Capacity[g]

BlockedStaysFree == \A a \in alloc, b \in block :
  a.group = b.group /\ Meets(a.slot, b.slot) => b.piece # None /\ b.piece # a.piece

\* Booking never gives the same piece to two services at the same time, never
\* more of a pool than it has, and never anything that is blocked, in whatever
\* order the desk, the agent and the blocks of the resource calendar come.
NoOverbooking == PiecesGivenOnce /\ PoolsSuffice /\ BlockedStaysFree

\* A service that is scheduled or done holds exactly what its catalog item asks
\* for, at the time the service says, and a cancelled one holds nothing: also
\* after a lost race for the same key and after moves.
AllocationsFollowService == \A k \in Services :
  LET own(g) == {a \in alloc : a.key = k /\ a.group = g}
  IN \A g \in Groups :
       IF service[k].status \in {"scheduled", "completed"} /\ g \in Requires[service[k].item]
         THEN /\ Quantity(own(g)) = DemandFor(service[k].item, g, service[k].size)
              /\ \A a \in own(g) : a.slot = service[k].slot
         ELSE own(g) = {}

\* A guest who has checked out has no service left to receive: a booking that
\* found the stay open cannot be written after the departure.
CheckedOutOwesNothing == \A k \in Services :
  service[k].status = "scheduled" /\ service[k].stay # None
    => stay[service[k].stay] # "checked_out"

\* The desk's handlers take their locks in one order, so that they never block
\* one another for good: a deadlock needs a handler of the agent.
DeskNeverDeadlocks == \A hs \in SUBSET Handlers : Deadlocked(hs) =>
  \E h \in hs : handler[h].held \cap Groups # {} /\ Head(handler[h].wants) \notin Groups

=============================================================================
