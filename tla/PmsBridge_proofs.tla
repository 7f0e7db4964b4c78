-------------------------- MODULE PmsBridge_proofs --------------------------
(***************************************************************************)
(* What the exchange with PMS keeps for any number of workers, commands,   *)
(* stays and changes, through lost answers, refusals and restarts: the     *)
(* cursor passes only what was received, a lead has one reservation, and   *)
(* what PMS has closed stays closed.                                       *)
(***************************************************************************)
EXTENDS PmsBridge, WellFoundedInduction, TLAPS

-----------------------------------------------------------------------------
(* The largest of some numbers *)

LEMMA MaxOf ==
  ASSUME NEW S, NEW n \in Nat, S \subseteq 1 .. n, S # {}
  PROVE  Max(S) \in S /\ \A y \in S : Max(S) >= y
<1> DEFINE T == {n - s : s \in S}
<1>1. T \subseteq Nat /\ T # {}
  OBVIOUS
<1>2. PICK x \in T : \A y \in T : ~(<<y, x>> \in OpToRel(<, Nat))
  BY <1>1, NatLessThanWellFounded, WFMin
<1>3. \A y \in T : ~(y < x)
  BY <1>1, <1>2 DEF OpToRel
<1>4. PICK m \in S : x = n - m
  BY <1>2
<1>5. \A y \in S : m >= y
  <2> SUFFICES ASSUME NEW y \in S PROVE m >= y
    OBVIOUS
  <2>1. n - y \in T
    OBVIOUS
  <2> QED BY <1>3, <1>4, <2>1
<1>6. \E z \in S : \A y \in S : z >= y
  BY <1>5
<1> QED
  BY <1>6 DEF Max

\* Of two numbers.
LEMMA OfTwo ==
  ASSUME NEW a \in Int, NEW b \in Int
  PROVE  /\ Min({a, b}) = IF a <= b THEN a ELSE b
         /\ Max({a, b}) = IF a >= b THEN a ELSE b
<1>1. \E x \in {a, b} : \A y \in {a, b} : x <= y
  OBVIOUS
<1>2. \E x \in {a, b} : \A y \in {a, b} : x >= y
  OBVIOUS
<1>3. Min({a, b}) \in {a, b} /\ \A y \in {a, b} : Min({a, b}) <= y
  BY <1>1 DEF Min
<1>4. Max({a, b}) \in {a, b} /\ \A y \in {a, b} : Max({a, b}) >= y
  BY <1>2 DEF Max
<1> QED
  BY <1>3, <1>4

-----------------------------------------------------------------------------
(* The invariant *)

Changes == [stay : Stays, status : Statuses]

RevisionsIn(log, e) == {n \in DOMAIN log : log[n].stay = e}

\* After the last revision of a stay, a cancellation or a departure, there is no other.
FinalIsLast == \A m, n \in DOMAIN feed :
  feed[m].stay = feed[n].stay /\ feed[m].status \in Final => n <= m

\* PMS commits what it is asked to book, and it is asked only by a command.
FeedInv ==
  /\ feed \in Seq(Changes) /\ Len(feed) <= MaxFeed
  /\ FinalIsLast
  /\ \A c \in Commands : InPms(c) => operation[c] # "none" /\ c \notin refused
  /\ refused \subseteq Commands

\* What a worker has in its hands, of the log, the commands and the receipts.
Holds(t, log, ops, rec) ==
  /\ t \in Tasks
  /\ t.do \in {"lookup", "post", "read", "complete"} => t.on \in Commands /\ ops[t.on] # "none"
  /\ t.do = "read" => RevisionsIn(log, t.on) # {}
  /\ t.do = "complete" => t.snap \in RevisionsIn(log, t.on)
  /\ t.do \in {"readback", "apply", "keep"} => t.event \in DOMAIN log
  /\ t.do = "apply" => t.snap \in RevisionsIn(log, log[t.event].stay)
  /\ t.do = "accept" => t.next > 0
  /\ t.next > 0 => /\ t.next <= t.last + 1 /\ t.last <= Len(log)
                   /\ \A n \in 1 .. t.next - 1 : rec[n] # "absent"

TasksHold ==
  /\ task = [w \in Workers |-> task[w]]
  /\ \A w \in Workers : Holds(task[w], feed, operation, receipt)

ReceiptInv ==
  /\ receipt \in [Revisions -> {"absent", "pending", "applied"}]
  /\ \A n \in Revisions : receipt[n] # "absent" => n \in DOMAIN feed
  /\ cursor \in 0 .. Len(feed)
  /\ CursorCoversReceipts

\* The lead shows the revision that is projected of the one reservation it is mapped to.
ProjectionInv ==
  /\ projection \in [Stays -> 0 .. MaxFeed]
  /\ bookedBy \in [Requests -> Commands \cup {None}]
  /\ stage = [q \in Requests |-> stage[q]]
  /\ \A e \in Stays : projection[e] # 0 => projection[e] \in RevisionsOf(e)
  /\ \A c \in Commands : projection[c] # 0 => bookedBy[RequestOf[c]] = c
  /\ \A q \in Requests :
       IF bookedBy[q] = None THEN stage[q] = None
       ELSE LET c == bookedBy[q]
            IN  /\ RequestOf[c] = q /\ projection[c] # 0
                /\ stage[q] = StageOf(feed[projection[c]].status)

\* A second command for a lead needs a first one that failed for good, unless it was
\* overtaken, and a first one that failed for good without the lead being booked met a
\* refusal.
CommandInv ==
  /\ operation \in [Commands -> {"none", "pending", "completed", "rejected"}]
  /\ \A c \in Commands : operation[c] = "completed" => InPms(c) /\ bookedBy[RequestOf[c]] = c
  /\ \A c \in Commands : operation[c] = "rejected" =>
       c \in unauthorized \cup refused \/ bookedBy[RequestOf[c]] # None
  /\ \A c, d \in Commands : /\ c # d /\ RequestOf[c] = RequestOf[d]
                            /\ operation[c] # "none" /\ operation[d] # "none"
                            => {c, d} \cap (unauthorized \cup refused \cup overtaken) # {}

BridgeInv == FeedInv /\ TasksHold /\ ReceiptInv /\ ProjectionInv /\ CommandInv

-----------------------------------------------------------------------------
(* The log of PMS *)

LEMMA RevisionsAgree == \A e : RevisionsOf(e) = RevisionsIn(feed, e)
  BY DEF RevisionsOf, RevisionsIn

\* The last revision of a stay that is in PMS.
LEMMA CurrentRevision ==
  ASSUME FeedInv, NEW e, InPms(e)
  PROVE  Current(e) \in RevisionsOf(e) /\ \A n \in RevisionsOf(e) : n <= Current(e)
<1>1. RevisionsOf(e) \subseteq 1 .. Len(feed) /\ Len(feed) \in Nat
  BY DEF RevisionsOf, FeedInv
<1>2. RevisionsOf(e) # {}
  BY DEF InPms
<1>3. /\ Max(RevisionsOf(e)) \in RevisionsOf(e)
      /\ \A n \in RevisionsOf(e) : Max(RevisionsOf(e)) >= n
  BY <1>1, <1>2, MaxOf
<1> QED
  BY <1>1, <1>3 DEF Current

\* The log only grows.
Grown ==
  /\ DOMAIN feed \subseteq DOMAIN feed' /\ Len(feed) <= Len(feed')
  /\ \A n \in DOMAIN feed : feed'[n] = feed[n]

LEMMA AppendGrows ==
  ASSUME feed \in Seq(Changes), NEW x \in Changes, feed' = Append(feed, x)
  PROVE  /\ feed' \in Seq(Changes) /\ Len(feed') = Len(feed) + 1 /\ Len(feed) \in Nat
         /\ DOMAIN feed = 1 .. Len(feed) /\ DOMAIN feed' = 1 .. Len(feed) + 1
         /\ feed'[Len(feed) + 1] = x
         /\ Grown
  BY DEF Grown

\* A stay of which PMS has committed no end may be changed, and so may one it does not have.
LEMMA CommitKeepsOrder ==
  ASSUME FeedInv, NEW e \in Stays, NEW s \in Statuses,
         feed' = Append(feed, [stay |-> e, status |-> s]),
         \A m \in RevisionsOf(e) : feed[m].status \notin Final
  PROVE  FinalIsLast' /\ Grown /\ feed' \in Seq(Changes) /\ Len(feed') = Len(feed) + 1
<1> DEFINE x == [stay |-> e, status |-> s]
<1>1. x \in Changes /\ x.stay = e
  BY DEF Changes
<1>2. /\ feed' \in Seq(Changes) /\ Len(feed') = Len(feed) + 1 /\ Len(feed) \in Nat
      /\ DOMAIN feed = 1 .. Len(feed) /\ DOMAIN feed' = 1 .. Len(feed) + 1
      /\ feed'[Len(feed) + 1] = x
      /\ Grown
  BY <1>1, AppendGrows DEF FeedInv
<1> HIDE DEF x
<1>3. ASSUME NEW m \in DOMAIN feed', NEW n \in DOMAIN feed',
             feed'[m].stay = feed'[n].stay, feed'[m].status \in Final
      PROVE  n <= m
  <2>1. CASE m = Len(feed) + 1
    BY <1>2, <2>1
  <2>2. CASE m \in DOMAIN feed /\ n \in DOMAIN feed
    BY <1>2, <1>3, <2>2 DEF Grown, FeedInv, FinalIsLast
  <2>3. CASE m \in DOMAIN feed /\ n = Len(feed) + 1
    BY <1>1, <1>2, <1>3, <2>3 DEF Grown, RevisionsOf
  <2> QED BY <1>2, <2>1, <2>2, <2>3
<1>4. FinalIsLast'
  BY <1>3 DEF FinalIsLast
<1> QED
  BY <1>2, <1>4

LEMMA FinalOnlyLast ==
  ASSUME FeedInv, NEW e, InPms(e), feed[Current(e)].status \notin Final
  PROVE  \A m \in RevisionsOf(e) : feed[m].status \notin Final
<1> SUFFICES ASSUME NEW m \in RevisionsOf(e), feed[m].status \in Final PROVE FALSE
  OBVIOUS
<1>1. Current(e) \in RevisionsOf(e) /\ m <= Current(e)
  BY CurrentRevision
<1>2. Current(e) <= m
  BY <1>1 DEF FeedInv, FinalIsLast, RevisionsOf
<1>3. m \in Int /\ Current(e) \in Int
  BY <1>1 DEF RevisionsOf, FeedInv
<1> QED
  BY <1>1, <1>2, <1>3

\* What is in the log stays in it.
LEMMA GrownKeeps ==
  ASSUME Grown
  PROVE  /\ \A e : RevisionsOf(e) \subseteq RevisionsOf(e)'
         /\ \A e : InPms(e) => InPms(e)'
  BY DEF Grown, RevisionsOf, InPms

-----------------------------------------------------------------------------
(* What the workers have in their hands *)

\* Nothing is taken back: the log, the commands that were given, the receipts.
Lasting ==
  /\ Grown
  /\ \A c \in Commands : operation[c] # "none" => operation'[c] # "none"
  /\ \A n \in Revisions : receipt[n] # "absent" => receipt'[n] # "absent"

LEMMA HoldsOn ==
  ASSUME FeedInv, Lasting, NEW t, Holds(t, feed, operation, receipt)
  PROVE  Holds(t, feed', operation', receipt')
<1>1. Len(feed) \in Nat /\ DOMAIN feed = 1 .. Len(feed) /\ Len(feed) <= MaxFeed /\ MaxFeed \in Nat
  BY PageAssumption DEF FeedInv
<1>2. t \in Tasks
  BY DEF Holds
<1>3. \A e : RevisionsIn(feed, e) \subseteq RevisionsIn(feed', e)
  BY DEF Lasting, Grown, RevisionsIn
<1>4. t.event \in DOMAIN feed => feed'[t.event] = feed[t.event] /\ t.event \in DOMAIN feed'
  BY DEF Lasting, Grown
<1>5. t.next > 0 => /\ t.next <= t.last + 1 /\ t.last <= Len(feed')
                    /\ \A n \in 1 .. t.next - 1 : receipt'[n] # "absent"
  <2> SUFFICES ASSUME t.next > 0
               PROVE  /\ t.next <= t.last + 1 /\ t.last <= Len(feed')
                      /\ \A n \in 1 .. t.next - 1 : receipt'[n] # "absent"
    OBVIOUS
  <2>1. t.next \in Int /\ t.last \in Int
    BY <1>2 DEF Tasks
  <2>2. t.next <= t.last + 1 /\ t.last <= Len(feed) /\ \A n \in 1 .. t.next - 1 : receipt[n] # "absent"
    BY DEF Holds
  <2>3. Len(feed) <= Len(feed') /\ Len(feed') \in Int
    BY DEF Lasting, Grown
  <2>4. \A n \in 1 .. t.next - 1 : n \in Revisions
    BY <1>1, <2>1, <2>2 DEF Revisions
  <2> QED BY <1>1, <2>1, <2>2, <2>3, <2>4 DEF Lasting
<1> QED
  BY <1>2, <1>3, <1>4, <1>5 DEF Holds, Lasting

LEMMA TasksStay == FeedInv /\ TasksHold /\ Lasting /\ task' = task => TasksHold'
  BY HoldsOn DEF TasksHold

LEMMA TasksGo ==
  ASSUME FeedInv, TasksHold, Lasting, NEW w \in Workers, NEW u,
         Goes(w, u), Holds(u, feed', operation', receipt')
  PROVE  TasksHold'
<1>1. task' = [task EXCEPT ![w] = u]
  BY DEF Goes
<1>2. \A v \in Workers : task'[v] = IF v = w THEN u ELSE task[v]
  BY <1>1 DEF TasksHold
<1>3. \A v \in Workers : Holds(task'[v], feed', operation', receipt')
  BY <1>2, HoldsOn DEF TasksHold
<1> QED
  BY <1>1, <1>3 DEF TasksHold

LEMMA IdleHolds == \A log, ops, rec : Holds(Idle, log, ops, rec)
  BY PageAssumption DEF Holds, Idle, Tasks

LEMMA EndedHolds ==
  ASSUME NEW t, NEW log, NEW ops, NEW rec, Holds(t, log, ops, rec)
  PROVE  Holds(Ended(t), log, ops, rec)
<1>1. CASE t.next > 0
  <2> DEFINE u == [Idle EXCEPT !.do = "accept", !.next = t.next, !.last = t.last]
  <2>1. t \in Tasks
    BY DEF Holds
  <2>2. u \in Tasks /\ u.do = "accept" /\ u.next = t.next /\ u.last = t.last
    <3>1. t.next \in 0 .. MaxFeed + 1 /\ t.last \in 0 .. MaxFeed
      BY <2>1 DEF Tasks
    <3>2. Idle \in Tasks
      BY PageAssumption DEF Tasks, Idle
    <3> QED BY <3>1, <3>2 DEF Tasks
  <2>3. Ended(t) = u
    BY <1>1 DEF Ended
  <2> HIDE DEF u
  <2> QED BY <1>1, <2>2, <2>3 DEF Holds
<1>2. CASE ~(t.next > 0)
  BY <1>2, IdleHolds DEF Ended
<1> QED
  BY <1>1, <1>2

\* An event that is consumed is in the log, and its read-back comes next.
LEMMA ConsumeHolds ==
  ASSUME NEW w \in Workers, NEW t, NEW n \in DOMAIN feed, n \in Revisions,
         Holds(t, feed, operation, receipt'), Consume(w, t, n)
  PROVE  /\ \E u : Goes(w, u) /\ Holds(u, feed, operation, receipt')
         /\ known' = known \/ known' = known \cup {feed[n].stay}
<1>1. t \in Tasks
  BY DEF Holds
<1>2. Holds(Ended(t), feed, operation, receipt')
  BY EndedHolds
<1>3. ASSUME NEW deferred \in BOOLEAN
      PROVE  Holds([t EXCEPT !.do = "readback", !.event = n, !.deferred = deferred], feed, operation, receipt')
  <2> DEFINE u == [t EXCEPT !.do = "readback", !.event = n, !.deferred = deferred]
  <2>1. u \in Tasks /\ u.do = "readback" /\ u.event = n /\ u.next = t.next /\ u.last = t.last
    BY <1>1, n \in 0 .. MaxFeed DEF Tasks, Revisions
  <2> HIDE DEF u
  <2>2. Holds(u, feed, operation, receipt')
    BY <2>1 DEF Holds
  <2> QED BY <2>2 DEF u
<1>4. \/ Goes(w, Ended(t)) /\ known' = known
      \/ \E deferred \in BOOLEAN :
           /\ known' = known \/ known' = known \cup {feed[n].stay}
           /\ \/ Goes(w, [t EXCEPT !.do = "readback", !.event = n, !.deferred = deferred])
              \/ Goes(w, Ended(t))
  BY DEF Consume
<1> QED
  BY <1>2, <1>3, <1>4

-----------------------------------------------------------------------------
(* Steps that only read, and restarts *)

LEMMA LastingWhenQuiet == UNCHANGED <<feed, operation, receipt>> => Lasting
  BY DEF Lasting, Grown

LEMMA QuietKeeps ==
  ASSUME BridgeInv, TasksHold',
         UNCHANGED <<pms, operation, overtaken, projection, bookedBy, stage, intake>>
  PROVE  BridgeInv'
<1> USE DEF BridgeInv, pms, intake
<1>1. FeedInv'
  BY DEF FeedInv, FinalIsLast, InPms, RevisionsOf
<1>2. ReceiptInv'
  BY DEF ReceiptInv, CursorCoversReceipts
<1>3. ProjectionInv'
  BY DEF ProjectionInv, RevisionsOf
<1>4. CommandInv'
  BY DEF CommandInv, InPms, RevisionsOf
<1> QED
  BY <1>1, <1>2, <1>3, <1>4

LEMMA PollHolds ==
  ASSUME BridgeInv, NEW w \in Workers, Poll(w)
  PROVE  \E u : Goes(w, u) /\ Holds(u, feed, operation, receipt)
<1> DEFINE end == Min({cursor + Page, Len(feed)})
           u == [Idle EXCEPT !.do = "accept", !.next = cursor + 1, !.last = end]
<1>1. /\ Len(feed) \in Nat /\ cursor \in Nat /\ Page \in Nat \ {0} /\ MaxFeed \in Nat
      /\ Len(feed) <= MaxFeed /\ cursor < Len(feed)
  BY PageAssumption DEF BridgeInv, FeedInv, ReceiptInv, Poll
<1>2. end = IF cursor + Page <= Len(feed) THEN cursor + Page ELSE Len(feed)
  <2>1. cursor + Page \in Int /\ Len(feed) \in Int
    BY <1>1
  <2> QED BY <2>1, OfTwo
<1>3. end \in 0 .. MaxFeed /\ cursor + 1 <= end + 1 /\ end <= Len(feed) /\ cursor + 1 \in 0 .. MaxFeed + 1
  BY <1>1, <1>2
<1> HIDE DEF end
<1>4. u \in Tasks /\ u.do = "accept" /\ u.next = cursor + 1 /\ u.last = end
  <2>1. Idle \in Tasks
    BY PageAssumption DEF Tasks, Idle
  <2> QED BY <1>3, <2>1 DEF Tasks
<1>5. Goes(w, u)
  BY DEF Poll, end
<1> HIDE DEF u
<1>6. \A n \in 1 .. u.next - 1 : receipt[n] # "absent"
  <2>1. u.next - 1 = cursor
    BY <1>1, <1>4
  <2> QED BY <2>1 DEF BridgeInv, ReceiptInv, CursorCoversReceipts
<1>7. Holds(u, feed, operation, receipt)
  BY <1>1, <1>3, <1>4, <1>6 DEF Holds
<1> QED
  BY <1>5, <1>7

LEMMA ReadsHold ==
  ASSUME BridgeInv, NEW w \in Workers,
         \/ \E c \in Commands : RunOperation(w, c) \/ Lookup(w, c) \/ Read(w, c)
         \/ \E n \in Revisions : Readback(w, n) \/ ApplyFails(w, n)
         \/ Unavailable(w) \/ ReceiptFails(w)
  PROVE  \E u : Goes(w, u) /\ Holds(u, feed, operation, receipt)
<1> DEFINE t == task[w]
<1>1. Holds(t, feed, operation, receipt) /\ t \in Tasks
  BY DEF BridgeInv, TasksHold, Holds
<1>2. ASSUME NEW c \in Commands, RunOperation(w, c)
      PROVE  \E u : Goes(w, u) /\ Holds(u, feed, operation, receipt)
  <2> DEFINE u == [Idle EXCEPT !.do = "lookup", !.on = c]
  <2>1. u \in Tasks /\ u.do = "lookup" /\ u.on = c /\ u.next = 0
    <3>1. Idle \in Tasks /\ Idle.next = 0
      BY PageAssumption DEF Tasks, Idle
    <3> QED BY <3>1 DEF Tasks
  <2>2. Goes(w, u) /\ operation[c] = "pending"
    BY <1>2 DEF RunOperation
  <2> HIDE DEF u
  <2> QED BY <2>1, <2>2 DEF Holds
<1>3. ASSUME NEW c \in Commands, Lookup(w, c)
      PROVE  \E u : Goes(w, u) /\ Holds(u, feed, operation, receipt)
  <2>1. t.do = "lookup" /\ t.on = c
    BY <1>3 DEF Lookup, Carries, Does
  <2>2. ASSUME NEW n \in RevisionsOf(c), Goes(w, [t EXCEPT !.do = "complete", !.snap = n])
        PROVE  \E u : Goes(w, u) /\ Holds(u, feed, operation, receipt)
    <3> DEFINE u == [t EXCEPT !.do = "complete", !.snap = n]
    <3>1. n \in 0 .. MaxFeed
      BY PageAssumption DEF RevisionsOf, BridgeInv, FeedInv
    <3>2. u \in Tasks /\ u.do = "complete" /\ u.on = c /\ u.snap = n /\ u.next = t.next /\ u.last = t.last
      BY <1>1, <2>1, <3>1 DEF Tasks
    <3> HIDE DEF u
    <3>3. Holds(u, feed, operation, receipt)
      BY <1>1, <2>1, <3>2, RevisionsAgree DEF Holds
    <3> QED BY <2>2, <3>3 DEF u
  <2>3. ASSUME Goes(w, [t EXCEPT !.do = "post"])
        PROVE  \E u : Goes(w, u) /\ Holds(u, feed, operation, receipt)
    <3> DEFINE u == [t EXCEPT !.do = "post"]
    <3>1. u \in Tasks /\ u.do = "post" /\ u.on = c /\ u.next = t.next /\ u.last = t.last
      BY <1>1, <2>1 DEF Tasks
    <3> HIDE DEF u
    <3>2. Holds(u, feed, operation, receipt)
      BY <1>1, <2>1, <3>1 DEF Holds
    <3> QED BY <2>3, <3>2 DEF u
  <2> QED BY <1>3, <2>2, <2>3 DEF Lookup
<1>4. ASSUME NEW c \in Commands, Read(w, c)
      PROVE  \E u : Goes(w, u) /\ Holds(u, feed, operation, receipt)
  <2> DEFINE u == [t EXCEPT !.do = "complete", !.snap = Current(c)]
  <2>1. t.do = "read" /\ t.on = c /\ Goes(w, u)
    BY <1>4 DEF Read, Carries, Does
  <2>2. Current(c) \in RevisionsOf(c)
    BY <1>1, <2>1, RevisionsAgree, CurrentRevision DEF Holds, InPms, BridgeInv
  <2>3. Current(c) \in 0 .. MaxFeed
    BY <2>2, PageAssumption DEF RevisionsOf, BridgeInv, FeedInv
  <2>4. u \in Tasks /\ u.do = "complete" /\ u.on = c /\ u.snap = Current(c) /\ u.next = t.next /\ u.last = t.last
    BY <1>1, <2>1, <2>3 DEF Tasks
  <2> HIDE DEF u
  <2>5. Holds(u, feed, operation, receipt)
    BY <1>1, <2>1, <2>2, <2>4, RevisionsAgree DEF Holds
  <2> QED BY <2>1, <2>5
<1>5. ASSUME NEW n \in Revisions, Readback(w, n)
      PROVE  \E u : Goes(w, u) /\ Holds(u, feed, operation, receipt)
  <2> DEFINE e == feed[n].stay
             u == [t EXCEPT !.do = "apply", !.snap = Current(e)]
  <2>1. t.do = "readback" /\ t.event = n /\ Goes(w, u)
    BY <1>5 DEF Readback, Handles, Does
  <2>2. n \in RevisionsOf(e)
    BY <1>1, <2>1 DEF Holds, RevisionsOf
  <2>3. Current(e) \in RevisionsOf(e)
    BY <2>2, CurrentRevision DEF InPms, BridgeInv
  <2>4. Current(e) \in 0 .. MaxFeed
    BY <2>3, PageAssumption DEF RevisionsOf, BridgeInv, FeedInv
  <2>5. u \in Tasks /\ u.do = "apply" /\ u.event = n /\ u.snap = Current(e) /\ u.next = t.next /\ u.last = t.last
    BY <1>1, <2>1, <2>4 DEF Tasks
  <2> HIDE DEF u
  <2>6. Holds(u, feed, operation, receipt)
    BY <1>1, <2>1, <2>3, <2>5, RevisionsAgree DEF Holds
  <2> QED BY <2>1, <2>6
<1>6. ASSUME NEW n \in Revisions, ApplyFails(w, n)
      PROVE  \E u : Goes(w, u) /\ Holds(u, feed, operation, receipt)
  BY <1>1, <1>6, EndedHolds DEF ApplyFails
<1>7. CASE Unavailable(w) \/ ReceiptFails(w)
  BY <1>7, IdleHolds DEF Unavailable, ReceiptFails
<1> QED
  BY <1>2, <1>3, <1>4, <1>5, <1>6, <1>7

LEMMA ReadsKeep ==
  ASSUME BridgeInv, NEW w \in Workers,
         \/ \E c \in Commands : RunOperation(w, c) \/ Lookup(w, c) \/ Read(w, c)
         \/ \E n \in Revisions : Readback(w, n) \/ ApplyFails(w, n)
         \/ Unavailable(w) \/ ReceiptFails(w) \/ Poll(w)
  PROVE  BridgeInv'
<1>1. UNCHANGED <<pms, ledger, intake>>
  BY DEF RunOperation, Lookup, Read, Readback, ApplyFails, Unavailable, ReceiptFails, Poll
<1>2. PICK u : Goes(w, u) /\ Holds(u, feed, operation, receipt)
  BY ReadsHold, PollHolds
<1>3. feed' = feed /\ operation' = operation /\ receipt' = receipt
  BY <1>1 DEF pms, ledger, intake
<1>4. TasksHold'
  BY <1>2, <1>3, LastingWhenQuiet, TasksGo DEF BridgeInv
<1> QED
  BY <1>1, <1>4, QuietKeeps DEF ledger

LEMMA CrashKeeps == BridgeInv /\ Crash => BridgeInv'
<1> SUFFICES ASSUME BridgeInv, Crash PROVE BridgeInv'
  OBVIOUS
<1>1. TasksHold'
  BY IdleHolds DEF TasksHold, Crash
<1> QED
  BY <1>1, QuietKeeps DEF Crash

LEMMA StutterKeeps == BridgeInv /\ UNCHANGED vars => BridgeInv'
<1> SUFFICES ASSUME BridgeInv, UNCHANGED vars PROVE BridgeInv'
  OBVIOUS
<1>1. UNCHANGED <<pms, ledger, intake>> /\ task' = task
  BY DEF vars
<1>2. TasksHold'
  BY <1>1, LastingWhenQuiet, TasksStay DEF BridgeInv, pms, ledger, intake
<1> QED
  BY <1>1, <1>2, QuietKeeps DEF ledger

\* A confirmation that has asked its first question, and one that fails.
LEMMA BookingKeeps ==
  ASSUME BridgeInv, NEW c \in Commands, StartBooking(c) \/ BookingFails(c)
  PROVE  BridgeInv'
<1>1. UNCHANGED <<pms, operation, overtaken, projection, bookedBy, stage, intake, task>>
  BY DEF StartBooking, BookingFails
<1>2. TasksHold'
  BY <1>1, LastingWhenQuiet, TasksStay DEF BridgeInv, pms, intake
<1> QED
  BY <1>1, <1>2, QuietKeeps

-----------------------------------------------------------------------------
(* Steps that PMS commits *)

LEMMA CommitKeeps ==
  ASSUME BridgeInv, NEW e \in Stays, NEW s \in Statuses,
         feed' = Append(feed, [stay |-> e, status |-> s]), Len(feed) < MaxFeed,
         \A m \in RevisionsOf(e) : feed[m].status \notin Final,
         InPms(e) \/ e \in Natives \/ (operation[e] # "none" /\ e \notin refused),
         UNCHANGED <<refused, unauthorized, ledger, intake>>
  PROVE  FeedInv' /\ ReceiptInv' /\ ProjectionInv' /\ CommandInv' /\ Lasting
<1> USE DEF BridgeInv, ledger, intake
<1>1. FinalIsLast' /\ Grown /\ feed' \in Seq(Changes) /\ Len(feed') = Len(feed) + 1
  BY CommitKeepsOrder
<1>2. /\ DOMAIN feed' = DOMAIN feed \cup {Len(feed) + 1}
      /\ feed'[Len(feed) + 1].stay = e
      /\ \A n \in DOMAIN feed : feed'[n] = feed[n]
  <2>1. [stay |-> e, status |-> s] \in Changes
    BY DEF Changes
  <2> QED BY <2>1, AppendGrows DEF FeedInv, Grown
<1>3. \A c : InPms(c)' => InPms(c) \/ c = e
  BY <1>2 DEF InPms, RevisionsOf
<1>4. \A c : InPms(c) => InPms(c)'
  BY <1>1, GrownKeeps
<1>5. FeedInv'
  <2>1. Len(feed') <= MaxFeed
    BY <1>1, PageAssumption DEF FeedInv
  <2>2. \A c \in Commands : InPms(c)' => operation'[c] # "none" /\ c \notin refused'
    BY <1>3, NativeAssumption DEF FeedInv
  <2> QED BY <1>1, <2>1, <2>2 DEF FeedInv
<1>6. ReceiptInv'
  <2>1. cursor' \in 0 .. Len(feed')
    BY <1>1 DEF ReceiptInv, FeedInv
  <2> QED BY <1>1, <2>1 DEF ReceiptInv, CursorCoversReceipts, Grown
<1>7. ProjectionInv'
  <2>1. \A c \in Stays : projection[c] # 0 =>
          projection[c] \in RevisionsOf(c)' /\ feed'[projection[c]] = feed[projection[c]]
    BY <1>1, GrownKeeps DEF ProjectionInv, RevisionsOf, Grown
  <2>2. \A q \in Requests : bookedBy[q] # None => bookedBy[q] \in Stays
    BY DEF ProjectionInv, Stays
  <2> QED BY <2>1, <2>2 DEF ProjectionInv
<1>8. CommandInv'
  BY <1>4 DEF CommandInv
<1>9. Lasting
  BY <1>1 DEF Lasting
<1> QED
  BY <1>5, <1>6, <1>7, <1>8, <1>9

LEMMA FrontDeskKeeps == ASSUME BridgeInv, NEW e \in Stays, FrontDesk(e) PROVE BridgeInv'
<1>1. Len(feed) < MaxFeed /\ UNCHANGED <<refused, unauthorized, ledger, intake, task>>
  BY DEF FrontDesk
<1>2. PICK s \in Statuses :
        /\ feed' = Append(feed, [stay |-> e, status |-> s])
        /\ \A m \in RevisionsOf(e) : feed[m].status \notin Final
        /\ InPms(e) \/ e \in Natives
  <2>1. CASE InPms(e)
    BY <2>1, FinalOnlyLast DEF FrontDesk, Final, Statuses, BridgeInv
  <2>2. CASE ~InPms(e)
    BY <2>2 DEF FrontDesk, PmsBooks, Statuses, InPms
  <2> QED BY <2>1, <2>2
<1>3. FeedInv' /\ ReceiptInv' /\ ProjectionInv' /\ CommandInv' /\ Lasting
  BY <1>1, <1>2, CommitKeeps
<1>4. TasksHold'
  BY <1>1, <1>3, TasksStay DEF BridgeInv
<1> QED
  BY <1>3, <1>4 DEF BridgeInv

LEMMA PostKeeps ==
  ASSUME BridgeInv, NEW w \in Workers, NEW c \in Commands, NEW answered \in BOOLEAN,
         Post(w, c, answered)
  PROVE  BridgeInv'
<1> DEFINE t == task[w]
           u == IF answered THEN [t EXCEPT !.do = "read"] ELSE Idle
<1>1. /\ t.do = "post" /\ t.on = c /\ c \notin refused /\ Goes(w, u)
      /\ UNCHANGED <<refused, unauthorized, ledger, intake>>
  BY DEF Post, Carries, Does
<1>2. Holds(t, feed, operation, receipt) /\ t \in Tasks
  BY DEF BridgeInv, TasksHold, Holds
<1>3. operation[c] # "none"
  BY <1>1, <1>2 DEF Holds
<1>4. FeedInv' /\ ReceiptInv' /\ ProjectionInv' /\ CommandInv' /\ Lasting /\ InPms(c)'
  <2>1. CASE InPms(c)
    <3>1. feed' = feed
      BY <2>1 DEF Post
    <3>2. FeedInv' /\ ReceiptInv' /\ ProjectionInv' /\ CommandInv'
      BY <1>1, <3>1 DEF BridgeInv, FeedInv, FinalIsLast, InPms, RevisionsOf, ReceiptInv,
         CursorCoversReceipts, ProjectionInv, CommandInv, ledger, intake
    <3> QED BY <1>1, <2>1, <3>1, <3>2, LastingWhenQuiet DEF ledger, intake, InPms, RevisionsOf
  <2>2. CASE ~InPms(c)
    <3>1. feed' = Append(feed, [stay |-> c, status |-> "assigned"]) /\ Len(feed) < MaxFeed
      BY <2>2 DEF Post, PmsBooks
    <3>2. FeedInv' /\ ReceiptInv' /\ ProjectionInv' /\ CommandInv' /\ Lasting
      BY <1>1, <1>3, <2>2, <3>1, CommitKeeps DEF InPms, Stays, Statuses
    <3>3. [stay |-> c, status |-> "assigned"] \in Changes
      BY DEF Changes, Stays, Statuses
    <3>4. InPms(c)'
      BY <3>1, <3>3, AppendGrows DEF InPms, RevisionsOf, BridgeInv, FeedInv
    <3> QED BY <3>2, <3>4
  <2> QED BY <2>1, <2>2
<1>5. Holds(u, feed', operation', receipt')
  <2>1. CASE answered
    <3> DEFINE r == [t EXCEPT !.do = "read"]
    <3>1. r \in Tasks /\ r.do = "read" /\ r.on = c /\ r.next = t.next /\ r.last = t.last
      BY <1>1, <1>2 DEF Tasks
    <3>2. Holds(t, feed', operation', receipt')
      BY <1>2, <1>4, HoldsOn DEF BridgeInv
    <3>3. RevisionsIn(feed', c) # {}
      BY <1>4 DEF InPms, RevisionsOf, RevisionsIn
    <3> HIDE DEF r
    <3>4. Holds(r, feed', operation', receipt')
      BY <1>1, <3>1, <3>2, <3>3 DEF Holds
    <3> QED BY <2>1, <3>4 DEF r
  <2>2. CASE ~answered
    BY <2>2, IdleHolds
  <2> QED BY <2>1, <2>2
<1>6. TasksHold'
  BY <1>1, <1>4, <1>5, TasksGo DEF BridgeInv
<1> QED
  BY <1>4, <1>6 DEF BridgeInv

-----------------------------------------------------------------------------
(* Projections and the ends of commands *)

\* A snapshot is projected for a lead that is nobody else's; a lead that was mapped
\* stays mapped, and what it shows as closed was the last revision.
LEMMA ProjectKeeps ==
  ASSUME BridgeInv, NEW e \in Stays, NEW n \in RevisionsOf(e), ~MapsElsewhere(e),
         Project(e, n), feed' = feed
  PROVE  /\ ProjectionInv'
         /\ \A q \in Requests : bookedBy[q] # None => bookedBy'[q] = bookedBy[q]
         /\ e \in Commands => bookedBy'[RequestOf[e]] = e
         /\ \A q \in Requests : stage[q] \in {"cancelled", "completed"} => stage'[q] = stage[q]
<1> USE DEF BridgeInv
<1>1. n \in 1 .. MaxFeed /\ n \in DOMAIN feed /\ feed[n].stay = e
  BY PageAssumption DEF RevisionsOf, FeedInv
<1>2. projection[e] \in Nat
  BY DEF ProjectionInv
<1>3. \A q \in Requests : bookedBy[q] # None => bookedBy[q] \in Commands /\ bookedBy[q] \in Stays
  BY DEF ProjectionInv, Stays
<1>4. CASE ~Newer(e, n)
  <2>1. UNCHANGED <<projection, bookedBy, stage>>
    BY <1>4 DEF Project
  <2>2. projection[e] # 0
    BY <1>1, <1>2, <1>4 DEF Newer
  <2> QED BY <2>1, <2>2 DEF ProjectionInv, RevisionsOf
<1>5. CASE Newer(e, n) /\ e \notin Commands
  <2>1. projection' = [projection EXCEPT ![e] = n] /\ UNCHANGED <<bookedBy, stage>>
    BY <1>5 DEF Project
  <2>2. projection' \in [Stays -> 0 .. MaxFeed]
    BY <1>1, <2>1, n \in 0 .. MaxFeed DEF ProjectionInv
  <2>3. /\ projection'[e] = n
        /\ \A c \in Stays \ {e} : projection'[c] = projection[c]
    BY <2>1 DEF ProjectionInv
  <2> QED BY <1>1, <1>3, <1>5, <2>1, <2>2, <2>3 DEF ProjectionInv, RevisionsOf, Stays
<1>6. CASE Newer(e, n) /\ e \in Commands
  <2> DEFINE lead == RequestOf[e]
  <2>1. lead \in Requests /\ bookedBy[lead] \in {None, e} /\ e # None
    BY <1>6, CommandAssumption, NoneAssumption DEF MapsElsewhere
  <2>2. /\ projection' = [projection EXCEPT ![e] = n]
        /\ bookedBy' = [bookedBy EXCEPT ![lead] = e]
        /\ stage' = [stage EXCEPT ![lead] = StageOf(feed[n].status)]
    BY <1>6 DEF Project
  <2> HIDE DEF lead
  <2>3. /\ projection' \in [Stays -> 0 .. MaxFeed] /\ projection'[e] = n
        /\ \A c \in Stays \ {e} : projection'[c] = projection[c]
    BY <1>1, <2>2, n \in 0 .. MaxFeed DEF ProjectionInv
  <2>4. /\ bookedBy' \in [Requests -> Commands \cup {None}] /\ bookedBy'[lead] = e
        /\ stage' = [q \in Requests |-> stage'[q]] /\ stage'[lead] = StageOf(feed[n].status)
        /\ \A q \in Requests \ {lead} : bookedBy'[q] = bookedBy[q] /\ stage'[q] = stage[q]
    BY <1>6, <2>1, <2>2 DEF ProjectionInv
  <2>5. n # 0 /\ n \in RevisionsOf(e)'
    BY <1>1 DEF RevisionsOf
  <2>6. \A c \in Stays : projection'[c] # 0 => projection'[c] \in RevisionsOf(c)'
    BY <2>3, <2>5 DEF ProjectionInv, RevisionsOf
  <2>7. \A c \in Commands : projection'[c] # 0 => bookedBy'[RequestOf[c]] = c
    <3> SUFFICES ASSUME NEW c \in Commands, projection'[c] # 0, c # e PROVE bookedBy'[RequestOf[c]] = c
      BY <2>4 DEF lead
    <3>1. bookedBy[RequestOf[c]] = c
      BY <2>3 DEF ProjectionInv, Stays
    <3>2. RequestOf[c] # lead /\ RequestOf[c] \in Requests
      BY <2>1, <3>1, CommandAssumption, NoneAssumption
    <3> QED BY <2>4, <3>1, <3>2
  <2>8. ASSUME NEW q \in Requests
        PROVE  IF bookedBy'[q] = None THEN stage'[q] = None
               ELSE /\ RequestOf[bookedBy'[q]] = q /\ projection'[bookedBy'[q]] # 0
                    /\ stage'[q] = StageOf(feed'[projection'[bookedBy'[q]]].status)
    <3>1. CASE q = lead
      BY <2>1, <2>3, <2>4, <2>5, <3>1 DEF lead
    <3>2. CASE q # lead
      <4>1. bookedBy'[q] = bookedBy[q] /\ stage'[q] = stage[q]
        BY <2>4, <3>2
      <4>2. bookedBy[q] # None => bookedBy[q] # e /\ bookedBy[q] \in Stays
        BY <1>3, <3>2 DEF ProjectionInv, lead
      <4> QED BY <2>3, <4>1, <4>2 DEF ProjectionInv
    <3> QED BY <3>1, <3>2
  <2>9. ProjectionInv'
    BY <2>3, <2>4, <2>6, <2>7, <2>8 DEF ProjectionInv
  <2>10. stage[lead] \notin {"cancelled", "completed"}
    <3> SUFFICES ASSUME stage[lead] \in {"cancelled", "completed"} PROVE FALSE
      OBVIOUS
    <3>1. bookedBy[lead] = e /\ projection[e] \in RevisionsOf(e) /\ stage[lead] = StageOf(feed[projection[e]].status)
      <4>1. bookedBy[lead] = e
        BY <2>1, NoneAssumption DEF ProjectionInv
      <4>2. projection[e] # 0 /\ stage[lead] = StageOf(feed[projection[e]].status)
        BY <2>1, <4>1 DEF ProjectionInv
      <4> QED BY <4>1, <4>2 DEF ProjectionInv
    <3>2. feed[projection[e]].status \in Statuses
      <4>1. projection[e] \in DOMAIN feed /\ feed \in Seq(Changes)
        BY <3>1 DEF RevisionsOf, FeedInv
      <4>2. feed[projection[e]] \in Changes
        BY <4>1
      <4> QED BY <4>2 DEF Changes
    <3>3. feed[projection[e]].status \in Final
      BY <3>1, <3>2 DEF StageOf, Statuses, Final
    <3>4. n <= projection[e]
      BY <1>1, <3>1, <3>3 DEF RevisionsOf, FeedInv, FinalIsLast
    <3> QED BY <1>1, <1>2, <1>6, <3>4 DEF Newer
  <2>11. \A q \in Requests : stage[q] \in {"cancelled", "completed"} => stage'[q] = stage[q]
    BY <2>4, <2>10
  <2>12. \A q \in Requests : bookedBy[q] # None => bookedBy'[q] = bookedBy[q]
    BY <2>1, <2>4
  <2> QED BY <2>4, <2>9, <2>11, <2>12 DEF lead
<1> QED
  BY <1>4, <1>5, <1>6

LEMMA ConfirmKeeps == ASSUME BridgeInv, NEW c \in Commands, Confirm(c) PROVE BridgeInv'
<1> USE DEF BridgeInv
<1>1. /\ NonePending(RequestOf[c])
      /\ operation' = [operation EXCEPT ![c] = "pending"]
      /\ overtaken' = IF bookedBy[RequestOf[c]] = None THEN overtaken ELSE overtaken \cup {c}
      /\ UNCHANGED <<pms, projection, bookedBy, stage, intake, task>>
  BY DEF Confirm
<1>2. /\ operation' \in [Commands -> {"none", "pending", "completed", "rejected"}]
      /\ operation'[c] = "pending"
      /\ \A d \in Commands \ {c} : operation'[d] = operation[d]
  BY <1>1 DEF CommandInv
<1>3. UNCHANGED <<feed, refused, unauthorized, projection, bookedBy, stage, receipt, cursor, known, task>>
  BY <1>1 DEF pms, intake
<1>4. FeedInv' /\ ReceiptInv' /\ ProjectionInv'
  BY <1>2, <1>3 DEF FeedInv, FinalIsLast, InPms, RevisionsOf, ReceiptInv, CursorCoversReceipts, ProjectionInv
<1>5. TasksHold'
  <2>1. Lasting
    BY <1>2, <1>3 DEF Lasting, Grown
  <2> QED BY <1>3, <2>1, TasksStay
<1>6. \A d \in Commands \ {c} : RequestOf[d] = RequestOf[c] /\ operation[d] # "none"
                                   => {c, d} \cap (unauthorized \cup refused \cup overtaken') # {}
  <2> SUFFICES ASSUME NEW d \in Commands \ {c}, RequestOf[d] = RequestOf[c], operation[d] # "none",
                      bookedBy[RequestOf[c]] = None
               PROVE  d \in unauthorized \cup refused
    BY <1>1
  <2>1. bookedBy[RequestOf[d]] = None /\ operation[d] # "pending"
    BY <1>1 DEF NonePending
  <2>2. operation[d] # "completed"
    BY <2>1, NoneAssumption DEF CommandInv
  <2>3. operation[d] = "rejected"
    BY <2>1, <2>2 DEF CommandInv
  <2> QED BY <2>1, <2>3 DEF CommandInv
<1>7. overtaken \subseteq overtaken'
  BY <1>1
<1>8. CommandInv'
  <2>1. \A d, e \in Commands : /\ d # e /\ RequestOf[d] = RequestOf[e]
                               /\ operation'[d] # "none" /\ operation'[e] # "none"
                               => {d, e} \cap (unauthorized \cup refused \cup overtaken') # {}
    <3> SUFFICES ASSUME NEW d \in Commands, NEW e \in Commands, d # e, RequestOf[d] = RequestOf[e],
                        operation'[d] # "none", operation'[e] # "none"
                 PROVE  {d, e} \cap (unauthorized \cup refused \cup overtaken') # {}
      OBVIOUS
    <3>1. CASE c \in {d, e}
      BY <1>2, <1>6, <3>1
    <3>2. CASE c \notin {d, e}
      BY <1>2, <1>7, <3>2 DEF CommandInv
    <3> QED BY <3>1, <3>2
  <2>2. /\ \A d \in Commands : operation'[d] = "completed" => InPms(d)' /\ bookedBy'[RequestOf[d]] = d
        /\ \A d \in Commands : operation'[d] = "rejected" =>
             d \in unauthorized \cup refused \/ bookedBy'[RequestOf[d]] # None
    BY <1>2, <1>3 DEF CommandInv, InPms, RevisionsOf
  <2> QED BY <1>2, <1>3, <2>1, <2>2 DEF CommandInv
<1> QED
  BY <1>4, <1>5, <1>8

LEMMA CompleteKeeps ==
  ASSUME BridgeInv, NEW w \in Workers, NEW c \in Commands, Complete(w, c)
  PROVE  /\ BridgeInv'
         /\ \A q \in Requests : stage[q] \in {"cancelled", "completed"} => stage'[q] = stage[q]
<1> USE DEF BridgeInv
<1>1. task[w].do = "complete" /\ task[w].on = c /\ Goes(w, Idle) /\ UNCHANGED <<pms, intake>>
  BY DEF Complete, Carries, Does
<1>2. UNCHANGED <<feed, refused, unauthorized, receipt, cursor, known>>
  BY <1>1 DEF pms, intake
<1>3. task[w].snap \in RevisionsOf(c) /\ operation[c] # "none"
  BY <1>1, RevisionsAgree DEF TasksHold, Holds
<1>4. CASE operation[c] = "completed"
  <2>1. UNCHANGED ledger
    BY <1>4 DEF Complete
  <2>2. TasksHold'
    BY <1>1, <1>2, <2>1, LastingWhenQuiet, TasksGo, IdleHolds DEF ledger
  <2> QED BY <1>1, <2>1, <2>2, QuietKeeps DEF ledger
<1>5. CASE operation[c] # "completed"
  <2>1. /\ ~MapsElsewhere(c) /\ Project(c, task[w].snap)
        /\ operation' = [operation EXCEPT ![c] = "completed"]
        /\ overtaken' = overtaken
    BY <1>5 DEF Complete
  <2>2. /\ ProjectionInv'
        /\ \A q \in Requests : bookedBy[q] # None => bookedBy'[q] = bookedBy[q]
        /\ bookedBy'[RequestOf[c]] = c
        /\ \A q \in Requests : stage[q] \in {"cancelled", "completed"} => stage'[q] = stage[q]
    BY <1>2, <1>3, <2>1, ProjectKeeps DEF Stays
  <2>3. /\ operation' \in [Commands -> {"none", "pending", "completed", "rejected"}]
        /\ operation'[c] = "completed"
        /\ \A d \in Commands \ {c} : operation'[d] = operation[d]
    BY <2>1 DEF CommandInv
  <2>4. FeedInv' /\ ReceiptInv'
    BY <1>2, <1>3, <2>3 DEF FeedInv, FinalIsLast, InPms, RevisionsOf, ReceiptInv, CursorCoversReceipts
  <2>5. TasksHold'
    <3>1. Lasting
      BY <1>2, <2>3 DEF Lasting, Grown
    <3> QED BY <1>1, <3>1, TasksGo, IdleHolds
  <2>6. CommandInv'
    <3>1. InPms(c)' /\ \A d \in Commands : InPms(d) => InPms(d)'
      BY <1>2, <1>3 DEF InPms, RevisionsOf
    <3>2. \A d \in Commands : RequestOf[d] \in Requests
      BY CommandAssumption
    <3>3. \A d \in Commands : operation'[d] = "completed" => InPms(d)' /\ bookedBy'[RequestOf[d]] = d
      <4> SUFFICES ASSUME NEW d \in Commands \ {c}, operation[d] = "completed"
                   PROVE  InPms(d)' /\ bookedBy'[RequestOf[d]] = d
        BY <2>2, <2>3, <3>1
      <4>1. InPms(d) /\ bookedBy[RequestOf[d]] = d /\ d # None
        BY NoneAssumption DEF CommandInv
      <4> QED BY <2>2, <3>1, <3>2, <4>1
    <3>4. \A d \in Commands : operation'[d] = "rejected" =>
            d \in unauthorized' \cup refused' \/ bookedBy'[RequestOf[d]] # None
      BY <1>2, <2>2, <2>3, <3>2 DEF CommandInv
    <3>5. \A d \in Commands : operation'[d] # "none" => operation[d] # "none"
      BY <1>3, <2>3
    <3> QED BY <1>2, <2>1, <2>3, <3>3, <3>4, <3>5 DEF CommandInv
  <2> QED BY <2>2, <2>4, <2>5, <2>6
<1> QED
  BY <1>4, <1>5

\* A command that fails for good met a refusal, or its lead is booked.
LEMMA RejectKeeps ==
  ASSUME BridgeInv, NEW w \in Workers, NEW c \in Commands, Reject(w, c), feed' = feed,
         refused' \subseteq Commands, refused \subseteq refused', unauthorized \subseteq unauthorized',
         operation[c] # "none",
         \A d \in refused' \ refused : ~InPms(d),
         c \in unauthorized' \cup refused' \/ bookedBy[RequestOf[c]] # None
  PROVE  BridgeInv'
<1> USE DEF BridgeInv
<1>1. /\ operation' = [operation EXCEPT ![c] = IF @ = "pending" THEN "rejected" ELSE @]
      /\ Goes(w, Idle)
      /\ UNCHANGED <<overtaken, projection, bookedBy, stage, receipt, cursor, known>>
  BY DEF Reject, intake
<1>2. /\ operation' \in [Commands -> {"none", "pending", "completed", "rejected"}]
      /\ operation'[c] = IF operation[c] = "pending" THEN "rejected" ELSE operation[c]
      /\ \A d \in Commands \ {c} : operation'[d] = operation[d]
  BY <1>1 DEF CommandInv
<1>3. /\ \A d \in Commands : operation'[d] # "none" <=> operation[d] # "none"
      /\ \A d \in Commands : operation'[d] = "completed" => operation[d] = "completed"
      /\ \A d \in Commands \ {c} : operation'[d] = "rejected" => operation[d] = "rejected"
  BY <1>2
<1>4. FeedInv'
  BY <1>3 DEF FeedInv, FinalIsLast, InPms, RevisionsOf
<1>5. ReceiptInv' /\ ProjectionInv'
  BY <1>1 DEF ReceiptInv, CursorCoversReceipts, ProjectionInv, RevisionsOf
<1>6. TasksHold'
  <2>1. Lasting
    BY <1>1, <1>3 DEF Lasting, Grown
  <2> QED BY <1>1, <2>1, TasksGo, IdleHolds
<1>7. CommandInv'
  <2>1. \A d \in Commands : operation'[d] = "completed" => InPms(d)' /\ bookedBy'[RequestOf[d]] = d
    BY <1>1, <1>3 DEF CommandInv, InPms, RevisionsOf
  <2>2. \A d \in Commands : operation'[d] = "rejected" =>
          d \in unauthorized' \cup refused' \/ bookedBy'[RequestOf[d]] # None
    BY <1>1, <1>3 DEF CommandInv
  <2> QED BY <1>1, <1>2, <1>3, <2>1, <2>2 DEF CommandInv
<1> QED
  BY <1>4, <1>5, <1>6, <1>7

LEMMA RejectionsKeep ==
  ASSUME BridgeInv, NEW w \in Workers, NEW c \in Commands,
         Refuse(w, c) \/ Conflict(w, c) \/ Unauthorized(w, c)
  PROVE  BridgeInv'
<1>1. operation[c] # "none"
  BY DEF Refuse, Conflict, Unauthorized, Carries, Does, BridgeInv, TasksHold, Holds
<1>2. CASE Refuse(w, c)
  <2>1. refused' = refused \cup {c} /\ ~InPms(c) /\ Reject(w, c) /\ UNCHANGED <<feed, unauthorized>>
    BY <1>2 DEF Refuse
  <2> QED BY <1>1, <2>1, RejectKeeps DEF BridgeInv, FeedInv
<1>3. CASE Conflict(w, c)
  <2>1. bookedBy[RequestOf[c]] # None /\ Reject(w, c) /\ UNCHANGED <<feed, refused, unauthorized>>
    BY <1>3 DEF Conflict, MapsElsewhere, pms
  <2> QED BY <1>1, <2>1, RejectKeeps DEF BridgeInv, FeedInv
<1>4. CASE Unauthorized(w, c)
  <2>1. unauthorized' = unauthorized \cup {c} /\ Reject(w, c) /\ UNCHANGED <<feed, refused>>
    BY <1>4 DEF Unauthorized
  <2> QED BY <1>1, <2>1, RejectKeeps DEF BridgeInv, FeedInv
<1> QED
  BY <1>2, <1>3, <1>4

-----------------------------------------------------------------------------
(* Receipts *)

\* A step that only receives: no receipt is lost, and the cursor passes only receipts.
LEMMA ReceiptKeeps ==
  ASSUME BridgeInv, NEW w \in Workers, NEW u, Goes(w, u), Holds(u, feed, operation, receipt'),
         UNCHANGED <<pms, ledger>>,
         receipt' \in [Revisions -> {"absent", "pending", "applied"}],
         \A n \in Revisions : receipt'[n] # "absent" => n \in DOMAIN feed,
         \A n \in Revisions : receipt[n] # "absent" => receipt'[n] # "absent",
         cursor' \in 0 .. Len(feed),
         \A n \in 1 .. cursor' : receipt'[n] # "absent"
  PROVE  BridgeInv'
<1> USE DEF BridgeInv, pms, ledger
<1>1. FeedInv'
  BY DEF FeedInv, FinalIsLast, InPms, RevisionsOf
<1>2. ReceiptInv'
  BY DEF ReceiptInv, CursorCoversReceipts
<1>3. ProjectionInv'
  BY DEF ProjectionInv, RevisionsOf
<1>4. CommandInv'
  BY DEF CommandInv, InPms, RevisionsOf
<1>5. TasksHold'
  <2>1. Lasting
    BY DEF Lasting, Grown
  <2> QED BY <2>1, TasksGo
<1> QED
  BY <1>1, <1>2, <1>3, <1>4, <1>5

\* A receipt that is made or set back, the cursor left where it is.
LEMMA ReceivedKeeps ==
  ASSUME BridgeInv, NEW n \in Revisions, n \in DOMAIN feed, NEW r \in {"pending", "applied"},
         receipt' = [receipt EXCEPT ![n] = r] \/ receipt' = Received(n), cursor' = cursor
  PROVE  /\ receipt' \in [Revisions -> {"absent", "pending", "applied"}]
         /\ \A m \in Revisions : receipt'[m] # "absent" => m \in DOMAIN feed
         /\ \A m \in Revisions : receipt[m] # "absent" => receipt'[m] # "absent"
         /\ cursor' \in 0 .. Len(feed)
         /\ \A m \in 1 .. cursor' : receipt'[m] # "absent"
         /\ receipt'[n] # "absent"
<1> USE DEF BridgeInv, ReceiptInv
<1>1. /\ receipt' \in [Revisions -> {"absent", "pending", "applied"}]
      /\ receipt'[n] # "absent"
      /\ \A m \in Revisions \ {n} : receipt'[m] = receipt[m]
  BY DEF Received
<1>2. 1 .. cursor \subseteq Revisions
  <2>1. Len(feed) \in Nat /\ Len(feed) <= MaxFeed
    BY DEF FeedInv
  <2> QED BY <2>1, PageAssumption DEF Revisions
<1> QED
  BY <1>1, <1>2 DEF CursorCoversReceipts

\* A task of a worker goes on holding when a receipt is made.
LEMMA HoldsAfterReceipt ==
  ASSUME BridgeInv, NEW t, Holds(t, feed, operation, receipt),
         \A m \in Revisions : receipt[m] # "absent" => receipt'[m] # "absent"
  PROVE  Holds(t, feed, operation, receipt')
<1>1. Len(feed) \in Nat /\ Len(feed) <= MaxFeed /\ MaxFeed \in Nat
  BY PageAssumption DEF BridgeInv, FeedInv
<1>2. t.next \in Int /\ t.last \in Int
  BY DEF Holds, Tasks
<1>3. t.next > 0 => \A n \in 1 .. t.next - 1 : n \in Revisions
  BY <1>1, <1>2 DEF Holds, Revisions
<1> QED
  BY <1>3 DEF Holds

LEMMA EventsKeep ==
  ASSUME BridgeInv, NEW w \in Workers, NEW n \in Revisions, Webhook(w, n) \/ Retry(w, n)
  PROVE  BridgeInv'
<1> USE DEF BridgeInv
<1>1. n \in DOMAIN feed /\ Consume(w, Idle, n) /\ UNCHANGED <<pms, ledger, cursor>>
  BY DEF Webhook, Retry, ReceiptInv
<1>2. receipt' = [receipt EXCEPT ![n] = "pending"] \/ receipt' = Received(n)
  BY DEF Webhook, Retry, ReceiptInv
<1>3. PICK u : Goes(w, u) /\ Holds(u, feed, operation, receipt')
  BY <1>1, ConsumeHolds, IdleHolds
<1> QED
  BY <1>1, <1>2, <1>3, ReceivedKeeps, ReceiptKeeps

LEMMA AcceptKeeps == ASSUME BridgeInv, NEW w \in Workers, Accept(w) PROVE BridgeInv'
<1> USE DEF BridgeInv
<1> DEFINE t == task[w]
           n == t.next
           r == [t EXCEPT !.next = n + 1]
<1>1. /\ t.do = "accept" /\ n <= t.last /\ receipt' = Received(n) /\ Consume(w, r, n)
      /\ UNCHANGED <<pms, ledger, cursor>>
  BY DEF Accept, Does
<1>2. Holds(t, feed, operation, receipt) /\ t \in Tasks
  BY DEF TasksHold, Holds
<1>3. /\ n \in DOMAIN feed /\ n \in Revisions /\ n \in Int /\ n > 0 /\ t.last \in Int
      /\ n + 1 \in 0 .. MaxFeed + 1 /\ t.last <= Len(feed)
  <2>1. n > 0 /\ t.last <= Len(feed) /\ n \in Int /\ t.last \in Int
    BY <1>1, <1>2 DEF Holds, Tasks
  <2>2. Len(feed) \in Nat /\ Len(feed) <= MaxFeed /\ DOMAIN feed = 1 .. Len(feed)
    BY DEF FeedInv
  <2> QED BY <1>1, <2>1, <2>2, PageAssumption DEF Revisions
<1>4. /\ receipt'[n] # "absent"
      /\ \A m \in Revisions : receipt[m] # "absent" => receipt'[m] # "absent"
  BY <1>1, <1>3, ReceivedKeeps
<1>5. Holds(t, feed, operation, receipt')
  BY <1>2, <1>4, HoldsAfterReceipt
<1>6. r \in Tasks /\ r.do = "accept" /\ r.next = n + 1 /\ r.last = t.last
  BY <1>1, <1>2, <1>3 DEF Tasks
<1> HIDE DEF r
<1>7. \A m \in 1 .. r.next - 1 : receipt'[m] # "absent"
  <2>1. r.next - 1 = n
    BY <1>3, <1>6
  <2>2. \A m \in 1 .. n : m = n \/ m \in 1 .. n - 1
    BY <1>3
  <2> QED BY <1>3, <1>4, <1>5, <2>1, <2>2 DEF Holds
<1>8. Holds(r, feed, operation, receipt')
  BY <1>1, <1>3, <1>6, <1>7 DEF Holds
<1>9. PICK u : Goes(w, u) /\ Holds(u, feed, operation, receipt')
  BY <1>1, <1>3, <1>8, ConsumeHolds
<1> QED
  BY <1>1, <1>3, <1>9, ReceivedKeeps, ReceiptKeeps

LEMMA AdvanceKeeps == ASSUME BridgeInv, NEW w \in Workers, Advance(w) PROVE BridgeInv'
<1> USE DEF BridgeInv
<1> DEFINE t == task[w]
<1>1. /\ t.do = "accept" /\ t.next > t.last /\ cursor' = Max({cursor, t.last}) /\ Goes(w, Idle)
      /\ UNCHANGED <<pms, ledger, receipt, known>>
  BY DEF Advance, Does
<1>2. Holds(t, feed, operation, receipt) /\ t \in Tasks
  BY DEF TasksHold, Holds
<1>3. /\ t.next = t.last + 1 /\ t.last \in Nat /\ t.last <= Len(feed)
      /\ \A n \in 1 .. t.last : receipt[n] # "absent"
  <2>1. t.last \in Nat /\ t.next \in Nat
    BY <1>2 DEF Tasks
  <2>2. t.next > 0 /\ t.next <= t.last + 1 /\ t.last <= Len(feed)
    BY <1>1, <1>2 DEF Holds
  <2>3. t.next = t.last + 1 /\ t.next - 1 = t.last
    BY <1>1, <2>1, <2>2
  <2> QED BY <1>2, <2>1, <2>2, <2>3 DEF Holds
<1>4. cursor' = IF cursor >= t.last THEN cursor ELSE t.last
  <2>1. cursor \in Int /\ t.last \in Int
    BY <1>3 DEF ReceiptInv
  <2> HIDE DEF t
  <2>2. Max({cursor, t.last}) = IF cursor >= t.last THEN cursor ELSE t.last
    BY <2>1, OfTwo
  <2> QED BY <1>1, <2>2
<1>5. cursor' \in 0 .. Len(feed) /\ \A n \in 1 .. cursor' : receipt'[n] # "absent"
  <2>1. Len(feed) \in Nat /\ cursor \in 0 .. Len(feed)
    BY DEF FeedInv, ReceiptInv
  <2>2. CASE cursor >= t.last
    BY <1>1, <1>4, <2>1, <2>2 DEF ReceiptInv, CursorCoversReceipts
  <2>3. CASE ~(cursor >= t.last)
    <3>1. cursor' = t.last
      BY <1>4, <2>3
    <3>2. t.last \in 0 .. Len(feed) /\ \A n \in 1 .. t.last : receipt'[n] # "absent"
      BY <1>1, <1>3, <2>1
    <3> QED BY <3>1, <3>2
  <2> QED BY <2>2, <2>3
<1> QED
  BY <1>1, <1>5, IdleHolds, ReceiptKeeps DEF ReceiptInv

LEMMA KeepKeeps == ASSUME BridgeInv, NEW w \in Workers, NEW n \in Revisions, Keep(w, n) PROVE BridgeInv'
<1> USE DEF BridgeInv
<1>1. /\ task[w].do = "keep" /\ task[w].event = n /\ receipt' = [receipt EXCEPT ![n] = "pending"]
      /\ Goes(w, Ended(task[w])) /\ UNCHANGED <<pms, ledger, cursor, known>>
  BY DEF Keep, Handles, Does
<1>2. Holds(task[w], feed, operation, receipt) /\ n \in DOMAIN feed
  BY <1>1 DEF TasksHold, Holds
<1>3. \A m \in Revisions : receipt[m] # "absent" => receipt'[m] # "absent"
  BY <1>1, <1>2, ReceivedKeeps
<1>4. Holds(Ended(task[w]), feed, operation, receipt')
  BY <1>2, <1>3, HoldsAfterReceipt, EndedHolds
<1> QED
  BY <1>1, <1>2, <1>4, ReceivedKeeps, ReceiptKeeps

LEMMA ApplyKeeps ==
  ASSUME BridgeInv, NEW w \in Workers, NEW n \in Revisions, Apply(w, n)
  PROVE  /\ BridgeInv'
         /\ \A q \in Requests : stage[q] \in {"cancelled", "completed"} => stage'[q] = stage[q]
<1> USE DEF BridgeInv
<1> DEFINE t == task[w]
           e == feed[n].stay
           k == [t EXCEPT !.do = "keep", !.snap = 0]
<1>1. /\ t.do = "apply" /\ t.event = n /\ ~MapsElsewhere(e) /\ Project(e, t.snap)
      /\ receipt' = [receipt EXCEPT ![n] = "applied"]
      /\ Goes(w, k) \/ Goes(w, Ended(t))
      /\ UNCHANGED <<feed, refused, unauthorized, operation, overtaken, cursor>>
  BY DEF Apply, Handles, Does, pms
<1>2. Holds(t, feed, operation, receipt) /\ t \in Tasks
  BY DEF TasksHold, Holds
<1>3. n \in DOMAIN feed /\ t.snap \in RevisionsOf(e)
  BY <1>1, <1>2, RevisionsAgree DEF Holds
<1>4. e \in Stays
  <2>1. feed[n] \in Changes
    BY <1>3 DEF FeedInv
  <2> QED BY <2>1 DEF Changes
<1> HIDE DEF e
<1>5. /\ ProjectionInv'
      /\ \A q \in Requests : bookedBy[q] # None => bookedBy'[q] = bookedBy[q]
      /\ \A q \in Requests : stage[q] \in {"cancelled", "completed"} => stage'[q] = stage[q]
  BY <1>1, <1>3, <1>4, ProjectKeeps
<1>6. /\ ReceiptInv'
      /\ \A m \in Revisions : receipt[m] # "absent" => receipt'[m] # "absent"
  BY <1>1, <1>3, ReceivedKeeps DEF ReceiptInv, CursorCoversReceipts
<1>7. FeedInv'
  BY <1>1 DEF FeedInv, FinalIsLast, InPms, RevisionsOf
<1>8. CommandInv'
  <2>1. \A c \in Commands : RequestOf[c] \in Requests /\ c # None
    BY CommandAssumption, NoneAssumption
  <2>2. \A c \in Commands : operation[c] = "completed" => bookedBy'[RequestOf[c]] = c
    BY <1>5, <2>1 DEF CommandInv
  <2>3. \A c \in Commands : operation[c] = "rejected" =>
          c \in unauthorized \cup refused \/ bookedBy'[RequestOf[c]] # None
    BY <1>5, <2>1 DEF CommandInv
  <2> QED BY <1>1, <2>2, <2>3 DEF CommandInv, InPms, RevisionsOf
<1>9. TasksHold'
  <2>1. Lasting
    BY <1>1, <1>6 DEF Lasting, Grown
  <2>2. Holds(t, feed', operation', receipt')
    BY <1>2, <2>1, HoldsOn
  <2>3. Holds(Ended(t), feed', operation', receipt')
    BY <2>2, EndedHolds
  <2>4. Holds(k, feed', operation', receipt')
    <3>1. k \in Tasks /\ k.do = "keep" /\ k.event = n /\ k.next = t.next /\ k.last = t.last
      <4>1. 0 \in 0 .. MaxFeed
        BY PageAssumption
      <4> QED BY <1>1, <1>2, <4>1 DEF Tasks
    <3> HIDE DEF k
    <3> QED BY <1>1, <1>3, <2>2, <3>1 DEF Holds
  <2> QED BY <1>1, <2>1, <2>3, <2>4, TasksGo
<1> QED
  BY <1>5, <1>6, <1>7, <1>8, <1>9

-----------------------------------------------------------------------------
(* The theorems *)

LEMMA InitHolds == Init => BridgeInv
<1> SUFFICES ASSUME Init PROVE BridgeInv
  OBVIOUS
<1> USE DEF Init
<1>1. Len(feed) = 0 /\ DOMAIN feed = {} /\ feed \in Seq(Changes)
  OBVIOUS
<1>2. FeedInv
  BY <1>1, PageAssumption DEF FeedInv, FinalIsLast, InPms, RevisionsOf
<1>3. TasksHold
  BY IdleHolds DEF TasksHold
<1>4. ReceiptInv
  BY <1>1 DEF ReceiptInv, CursorCoversReceipts
<1>5. ProjectionInv
  <2>1. 0 \in 0 .. MaxFeed
    BY PageAssumption
  <2>2. projection \in [Stays -> 0 .. MaxFeed] /\ bookedBy \in [Requests -> Commands \cup {None}]
    BY <2>1
  <2>3. \A c \in Commands : c \in Stays
    BY DEF Stays
  <2> QED BY <2>2, <2>3 DEF ProjectionInv
<1>6. CommandInv
  BY DEF CommandInv
<1> QED
  BY <1>2, <1>3, <1>4, <1>5, <1>6 DEF BridgeInv

\* Every step keeps the invariant, and no step takes a lead's end back.
LEMMA StepKeeps ==
  ASSUME BridgeInv, [Next]_vars
  PROVE  /\ BridgeInv'
         /\ \A q \in Requests : stage[q] \in {"cancelled", "completed"} => stage'[q] = stage[q]
<1> DEFINE Stable == \A q \in Requests : stage[q] \in {"cancelled", "completed"} => stage'[q] = stage[q]
<1>0. UNCHANGED stage => Stable
  OBVIOUS
<1> HIDE DEF Stable
<1>1. ASSUME NEW e \in Stays, FrontDesk(e) PROVE BridgeInv' /\ Stable
  BY <1>0, <1>1, FrontDeskKeeps DEF FrontDesk, ledger
<1>2. ASSUME NEW c \in Commands, StartBooking(c) \/ Confirm(c) \/ BookingFails(c)
      PROVE  BridgeInv' /\ Stable
  BY <1>0, <1>2, ConfirmKeeps, BookingKeeps DEF StartBooking, Confirm, BookingFails
<1>3. ASSUME NEW w \in Workers, NEW c \in Commands,
             RunOperation(w, c) \/ Lookup(w, c) \/ Read(w, c)
      PROVE  BridgeInv' /\ Stable
  BY <1>0, <1>3, ReadsKeep DEF RunOperation, Lookup, Read, ledger
<1>4. ASSUME NEW w \in Workers, NEW n \in Revisions, Readback(w, n) \/ ApplyFails(w, n)
      PROVE  BridgeInv' /\ Stable
  BY <1>0, <1>4, ReadsKeep DEF Readback, ApplyFails, ledger
<1>5. ASSUME NEW w \in Workers, Unavailable(w) \/ ReceiptFails(w) \/ Poll(w)
      PROVE  BridgeInv' /\ Stable
  BY <1>0, <1>5, ReadsKeep DEF Unavailable, ReceiptFails, Poll, ledger
<1>6. ASSUME NEW w \in Workers, NEW c \in Commands, NEW answered \in BOOLEAN, Post(w, c, answered)
      PROVE  BridgeInv' /\ Stable
  BY <1>0, <1>6, PostKeeps DEF Post, ledger
<1>7. ASSUME NEW w \in Workers, NEW c \in Commands, Complete(w, c) PROVE BridgeInv' /\ Stable
  BY <1>7, CompleteKeeps DEF Stable
<1>8. ASSUME NEW w \in Workers, NEW c \in Commands, Refuse(w, c) \/ Conflict(w, c) \/ Unauthorized(w, c)
      PROVE  BridgeInv' /\ Stable
  BY <1>0, <1>8, RejectionsKeep DEF Refuse, Conflict, Unauthorized, Reject
<1>9. ASSUME NEW w \in Workers, NEW n \in Revisions, Webhook(w, n) \/ Retry(w, n)
      PROVE  BridgeInv' /\ Stable
  BY <1>0, <1>9, EventsKeep DEF Webhook, Retry, ledger
<1>10. ASSUME NEW w \in Workers, Accept(w) \/ Advance(w) PROVE BridgeInv' /\ Stable
  BY <1>0, <1>10, AcceptKeeps, AdvanceKeeps DEF Accept, Advance, ledger
<1>11. ASSUME NEW w \in Workers, NEW n \in Revisions, Apply(w, n) PROVE BridgeInv' /\ Stable
  BY <1>11, ApplyKeeps DEF Stable
<1>12. ASSUME NEW w \in Workers, NEW n \in Revisions, Keep(w, n) PROVE BridgeInv' /\ Stable
  BY <1>0, <1>12, KeepKeeps DEF Keep, ledger
<1>13. ASSUME Crash PROVE BridgeInv' /\ Stable
  BY <1>0, <1>13, CrashKeeps DEF Crash, ledger
<1>14. ASSUME UNCHANGED vars PROVE BridgeInv' /\ Stable
  BY <1>0, <1>14, StutterKeeps DEF vars, ledger
<1>15. BridgeInv' /\ Stable
  <2>1. ASSUME NEW w \in Workers, Continues(w) PROVE BridgeInv' /\ Stable
    BY <1>3, <1>4, <1>6, <1>7, <1>8, <1>10, <1>11, <1>12, <2>1 DEF Continues
  <2>2. ASSUME NEW w \in Workers, NEW c \in Commands,
               RunOperation(w, c) \/ Post(w, c, FALSE) \/ Unauthorized(w, c)
        PROVE  BridgeInv' /\ Stable
    BY <1>3, <1>6, <1>8, <2>2
  <2>3. ASSUME NEW w \in Workers, NEW n \in Revisions,
               Webhook(w, n) \/ Retry(w, n) \/ ApplyFails(w, n)
        PROVE  BridgeInv' /\ Stable
    BY <1>4, <1>9, <2>3
  <2>4. ASSUME NEW w \in Workers,
               \/ Continues(w) \/ Poll(w)
               \/ \E c \in Commands : RunOperation(w, c) \/ Post(w, c, FALSE) \/ Unauthorized(w, c)
               \/ \E n \in Revisions : Webhook(w, n) \/ Retry(w, n) \/ ApplyFails(w, n)
               \/ Unavailable(w) \/ ReceiptFails(w)
        PROVE  BridgeInv' /\ Stable
    BY <1>5, <2>1, <2>2, <2>3, <2>4
  <2>5. ASSUME Next PROVE BridgeInv' /\ Stable
    BY <1>1, <1>2, <1>13, <2>4, <2>5 DEF Next
  <2> QED BY <1>14, <2>5
<1> QED
  BY <1>15 DEF Stable

\* The log of PMS, the tasks in flight, the receipts, the projections and the commands
\* stay consistent with each other through every interleaving, failure and restart.
THEOREM BridgeInvariant == Spec => []BridgeInv
<1>1. BridgeInv /\ [Next]_vars => BridgeInv'
  BY StepKeeps
<1> QED
  BY InitHolds, <1>1, PTL DEF Spec

\* The cursor never passes an event without a durable receipt, so that no change is
\* skipped by the poll whatever is lost on the way.
THEOREM CursorIsCovered == Spec => []CursorCoversReceipts
<1>1. BridgeInv => CursorCoversReceipts
  BY DEF BridgeInv, ReceiptInv
<1> QED
  BY BridgeInvariant, <1>1, PTL

\* Retries of a confirmed booking, by whoever and however often, leave one reservation
\* for the lead in PMS, unless a command met a revoked key or was confirmed while the
\* other completed; and a completed command is the booking of its lead without exception.
THEOREM OneStayForOneRequest == Spec => []OneStayPerRequest
<1>1. BridgeInv => OneStayPerRequest
  BY DEF BridgeInv, FeedInv, CommandInv, OneStayPerRequest
<1> QED
  BY BridgeInvariant, <1>1, PTL

\* An older snapshot does not reopen a lead that PMS has closed.
THEOREM ClosedLeadsStay == Spec => LeadStaysClosed
<1>1. BridgeInv /\ [Next]_vars =>
        [\A q \in Requests : stage[q] \in {"cancelled", "completed"} => stage'[q] = stage[q]]_vars
  BY StepKeeps
<1> QED
  BY BridgeInvariant, <1>1, PTL DEF Spec, LeadStaysClosed

=============================================================================
