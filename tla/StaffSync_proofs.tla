-------------------------- MODULE StaffSync_proofs --------------------------
(***************************************************************************)
(* No charge, payment or reservation is doubled by the two-way sync, for   *)
(* any number of rows and of mirrors that run at the same time, whatever   *)
(* fails between their steps.                                              *)
(***************************************************************************)
EXTENDS StaffSync, TLAPS

Tasks == [do : {"idle", "mirror", "write", "keep", "known", "apply", "remember"},
          target : Statuses \cup {"none"}, snap : Statuses \cup {"none"},
          rows : SUBSET Rows, seen : SUBSET Rows, found : BOOLEAN, event : BOOLEAN]

\* The tables keep the shape of the schema, and a reservation has a status in PMS's words.
Shape ==
  /\ copies \in {0, 1}
  /\ copies = 1 => status \in Statuses
  /\ local \in [Rows -> Nat] /\ remote \in [Rows -> Nat]
  /\ pms \in Statuses \cup {"none"}
  /\ link \in Statuses \cup {"none"}
  /\ known \subseteq Rows
  /\ task \in [Workers -> Tasks]

\* A charge of PMS stands in CRM exactly when its link is stored with it; one of CRM
\* stands there once from the start.
RowsInCrm ==
  /\ \A r \in CrmRows : local[r] \in {0, 1}
  /\ \A r \in PmsRows : local[r] = IF r \in known THEN 1 ELSE 0

RowsInPms == \A r \in Rows : remote[r] \in {0, 1}

\* A reservation that a mirror found is still there, and one that it did not find is
\* created only while none is linked.
MirrorsKnowTheStay == \A w \in Workers :
  /\ task[w].do \in {"mirror", "write"} => task[w].snap \in Statuses
  /\ task[w].do = "write" => IF task[w].found THEN copies = 1 ELSE copies = 0 \/ link # "none"

\* A push reads the rows first and the links afterwards, so no row that PMS has sent
\* looks like a row of CRM.
PushesSendOwnRows == \A w \in Workers :
  /\ task[w].do \in {"known", "apply", "remember"} => task[w].target \in Statuses /\ copies = 1
  /\ task[w].do = "known" => task[w].rows \cap PmsRows \subseteq known
  /\ task[w].do = "apply" => task[w].rows \cap PmsRows \subseteq task[w].seen
  /\ task[w].do = "remember" => task[w].snap \in Statuses

SyncInv == Shape /\ RowsInCrm /\ RowsInPms /\ MirrorsKnowTheStay /\ PushesSendOwnRows

-----------------------------------------------------------------------------

LEMMA IdleIsATask == Idle \in Tasks
  BY DEF Idle, Tasks

LEMMA NewTask ==
  ASSUME task \in [Workers -> Tasks], NEW w \in Workers, NEW t \in Tasks, Goes(w, t)
  PROVE  /\ task' \in [Workers -> Tasks]
         /\ task'[w] = t
         /\ \A v \in Workers \ {w} : task'[v] = task[v]
  BY DEF Goes

LEMMA Initially == Init => SyncInv
  BY RowsAssumption, IdleIsATask DEF Init, SyncInv, Shape, RowsInCrm, RowsInPms, MirrorsKnowTheStay,
     PushesSendOwnRows, Idle, Rows, Statuses, Ended

\* What a mirror writes is a status that CRM knows.
LEMMA MirroredStatus == \A s \in Statuses : CrmStatusFor(s) \in Statuses /\ CrmStatusFor(s) # "none"
  BY DEF CrmStatusFor, Statuses, Ended

LEMMA ForwardStatus ==
  ASSUME NEW s \in Statuses \cup {"none"}, NEW target \in Statuses
  PROVE  Forward(s, target) \in Statuses
<1>1. Rank(target) > Rank("none")
  BY DEF Rank, Statuses, Ended
<1> QED
  BY <1>1 DEF Forward, Statuses

LEMMA NextStatus == \A s, t : t \in Follows(s) => t \in Statuses
  BY DEF Follows, Statuses, Ended

\* A desk changes no row of the other system and takes nobody's work away.
LEMMA DesksKeep == SyncInv /\ Desks => SyncInv'
<1> SUFFICES ASSUME SyncInv, Desks PROVE SyncInv'
  OBVIOUS
<1> USE DEF SyncInv, Shape, RowsInCrm, RowsInPms, MirrorsKnowTheStay, PushesSendOwnRows
<1>1. CASE CrmDesk
  BY <1>1, NextStatus DEF CrmDesk, sync
<1>2. CASE PmsDesk
  BY <1>2, NextStatus DEF PmsDesk, sync, crm
<1>3. ASSUME NEW r \in Rows, CrmPosts(r) PROVE SyncInv'
  BY <1>3, RowsAssumption DEF CrmPosts, Statuses, Ended, sync, Rows
<1>4. ASSUME NEW r \in Rows, PmsPosts(r) PROVE SyncInv'
  BY <1>4 DEF PmsPosts, sync, crm
<1> QED
  BY <1>1, <1>2, <1>3, <1>4 DEF Desks

\* After a mirror the worker is idle, or has a receipt to put back.
AtRest(t) == t \in Tasks /\ t.do \in {"idle", "keep"}

LEMMA RestsAfterMirror ==
  ASSUME NEW w, Goes(w, Idle) \/ Deferred(w)
  PROVE  \E t : AtRest(t) /\ Goes(w, t)
<1> DEFINE k == [Idle EXCEPT !.do = "keep"]
<1>1. AtRest(Idle)
  BY IdleIsATask DEF AtRest, Idle
<1>2. AtRest(k)
  BY IdleIsATask DEF AtRest, Idle, Tasks
<1>3. Goes(w, Idle) \/ Goes(w, k)
  BY DEF Deferred
<1> QED
  BY <1>1, <1>2, <1>3

LEMMA MirrorKeeps ==
  ASSUME SyncInv, NEW w \in Workers, NEW linked \in BOOLEAN, Mirror(w, linked)
  PROVE  SyncInv'
<1> USE DEF SyncInv, Shape, RowsInCrm, RowsInPms, MirrorsKnowTheStay, PushesSendOwnRows
<1> DEFINE t == task[w]
           new == NewRows(t)
<1>0. PICK u : AtRest(u) /\ Goes(w, u)
  BY RestsAfterMirror DEF Mirror
<1>1. /\ task' = [task EXCEPT ![w] = u] /\ u \in Tasks /\ u.do \in {"idle", "keep"}
      /\ t.do = "write" /\ t.snap \in Statuses
      /\ status' = CrmStatusFor(t.snap) /\ link' = CrmStatusFor(t.snap)
      /\ known' = known \cup new
      /\ local' = [r \in Rows |-> IF r \in new THEN local[r] + 1 ELSE local[r]]
      /\ remote' = remote /\ pms' = pms
      /\ copies' = IF t.found THEN copies ELSE copies + 1
  BY <1>0 DEF Mirror, Does, Goes, AtRest
<1>2. status' \in Statuses /\ link' \in Statuses /\ link' # "none"
  BY <1>1, MirroredStatus
<1>3. new \subseteq PmsRows /\ new \cap known = {}
  BY DEF Mirror, Collides, NewRows
<1>4. copies' = 1
  <2>1. CASE t.found
    BY <1>1, <2>1 DEF Mirror
  <2>2. CASE ~t.found
    BY <1>1, <2>2 DEF Mirror, Collides
  <2> QED BY <2>1, <2>2
<1>5. Shape'
  BY <1>1, <1>2, <1>3, <1>4 DEF Rows
<1>6. RowsInCrm'
  BY <1>1, <1>3, RowsAssumption DEF Rows
<1>7. RowsInPms'
  BY <1>1
<1>8. MirrorsKnowTheStay'
  BY <1>1, <1>2, <1>4
<1>9. PushesSendOwnRows'
  BY <1>1, <1>4
<1> QED
  BY <1>5, <1>6, <1>7, <1>8, <1>9

LEMMA PushAppliesKeeps ==
  ASSUME SyncInv, NEW w \in Workers, NEW answered \in BOOLEAN, PushApplies(w, answered)
  PROVE  SyncInv'
<1> USE DEF SyncInv, Shape, RowsInCrm, RowsInPms, MirrorsKnowTheStay, PushesSendOwnRows
<1>1. task[w].do = "apply" /\ task[w].target \in Statuses
  BY DEF PushApplies, Does
<1>2. pms' \in Statuses
  BY <1>1, ForwardStatus DEF PushApplies
<1>3. remote' \in [Rows -> {0, 1}]
  BY <1>1 DEF PushApplies, Applied, Rows
<1> DEFINE sent == [task[w] EXCEPT !.do = "remember", !.snap = pms', !.rows = InPms(remote'),
                                  !.seen = {}]
<1>4. sent \in Tasks /\ sent.do = "remember" /\ sent.target = task[w].target /\ sent.snap = pms'
  <2>1. InPms(remote') \subseteq Rows
    BY DEF InPms
  <2>2. task[w] \in Tasks /\ pms' \in Statuses
    BY <1>2
  <2> QED BY <2>1, <2>2 DEF Tasks
<1>5. Goes(w, IF answered THEN sent ELSE Idle)
  BY DEF PushApplies
<1> HIDE DEF sent
<1>6. /\ task' \in [Workers -> Tasks]
      /\ task'[w] = IF answered THEN sent ELSE Idle
      /\ \A v \in Workers \ {w} : task'[v] = task[v]
  BY <1>4, <1>5, IdleIsATask, NewTask
<1>7. /\ copies' = copies /\ status' = status /\ local' = local /\ link' = link /\ known' = known
  BY DEF PushApplies, crm, sync
<1>8. Shape' /\ RowsInCrm' /\ RowsInPms'
  BY <1>2, <1>3, <1>6, <1>7
<1>9. MirrorsKnowTheStay' /\ PushesSendOwnRows'
  BY <1>1, <1>2, <1>4, <1>6, <1>7 DEF Idle
<1> QED
  BY <1>8, <1>9

LEMMA OtherStepsKeep ==
  ASSUME SyncInv, NEW w \in Workers,
         \/ Resolve(w) \/ MirrorReads(w) \/ MirrorCollides(w) \/ MirrorFails(w) \/ KeepPending(w)
         \/ KeepFails(w) \/ PushReads(w) \/ PushCompares(w) \/ PushRemembers(w) \/ PushFails(w)
  PROVE  SyncInv'
<1> USE DEF SyncInv, Shape, RowsInCrm, RowsInPms, MirrorsKnowTheStay, PushesSendOwnRows, Does
<1> DEFINE t == task[w]
<1>t. t \in Tasks
  OBVIOUS
<1>1. CASE Resolve(w)
  <2> DEFINE u == [Idle EXCEPT !.do = "mirror", !.snap = pms, !.rows = InPms(remote),
                               !.event = TRUE]
  <2>1. u \in Tasks /\ u.do = "mirror" /\ u.snap \in Statuses
    BY <1>1, InPms(remote) \subseteq Rows DEF Resolve, Idle, Tasks, InPms
  <2>2. Goes(w, u) /\ UNCHANGED <<crm, remote, pms, sync>>
    BY <1>1 DEF Resolve
  <2> HIDE DEF u
  <2> QED BY <2>1, <2>2, NewTask DEF crm, sync
<1>2. CASE MirrorReads(w)
  <2> DEFINE u == [t EXCEPT !.do = "write", !.found = Found, !.seen = known]
  <2>1. u \in Tasks /\ u.do = "write" /\ u.found = Found /\ u.snap = t.snap
    BY <1>t, Found \in BOOLEAN DEF Tasks, Found
  <2>2. Goes(w, u) /\ t.do = "mirror" /\ UNCHANGED <<crm, remote, pms, sync>>
    BY <1>2 DEF MirrorReads
  <2> HIDE DEF u
  <2>3. /\ task' \in [Workers -> Tasks] /\ task'[w] = u
        /\ \A v \in Workers \ {w} : task'[v] = task[v]
    BY <2>1, <2>2, NewTask
  <2>4. Shape' /\ RowsInCrm' /\ RowsInPms' /\ PushesSendOwnRows'
    BY <2>1, <2>2, <2>3 DEF crm, sync
  <2>5. IF u.found THEN copies = 1 ELSE copies = 0
    <3>1. CASE copies = 1
      <4>1. Found = TRUE
        BY <3>1 DEF Found
      <4> QED BY <3>1, <4>1, <2>1
    <3>2. CASE copies = 0
      <4>1. Found = FALSE
        BY <3>2 DEF Found
      <4> QED BY <3>2, <4>1, <2>1
    <3> QED BY <3>1, <3>2
  <2>6. MirrorsKnowTheStay'
    BY <2>1, <2>2, <2>3, <2>5 DEF crm, sync
  <2> QED BY <2>4, <2>6
<1>3. CASE MirrorCollides(w) \/ MirrorFails(w) \/ KeepPending(w) \/ KeepFails(w) \/ PushFails(w)
  <2>1. Goes(w, Idle) \/ Deferred(w)
    BY <1>3 DEF MirrorCollides, MirrorFails, RolledBack, KeepPending, KeepFails, PushFails
  <2>2. UNCHANGED <<crm, remote, pms, sync>>
    BY <1>3 DEF MirrorCollides, MirrorFails, RolledBack, KeepPending, KeepFails, PushFails
  <2>3. PICK u : AtRest(u) /\ Goes(w, u)
    BY <2>1, RestsAfterMirror
  <2> QED BY <2>2, <2>3, NewTask DEF crm, sync, AtRest
<1>4. CASE PushReads(w)
  <2> DEFINE u == [Idle EXCEPT !.do = "known", !.rows = InCrm, !.target = status,
                               !.found = link = status]
  <2>1. copies = 1 /\ status \in Statuses
    BY <1>4 DEF PushReads
  <2>2. u \in Tasks /\ u.do = "known" /\ u.rows = InCrm /\ u.target = status
    BY <2>1, InCrm \subseteq Rows DEF Idle, Tasks, InCrm
  <2>3. InCrm \cap PmsRows \subseteq known
    BY DEF InCrm, Rows
  <2>4. Goes(w, u) /\ UNCHANGED <<crm, remote, pms, sync>>
    BY <1>4 DEF PushReads
  <2> HIDE DEF u
  <2> QED BY <2>1, <2>2, <2>3, <2>4, NewTask DEF crm, sync
<1>5. CASE PushCompares(w)
  <2> DEFINE u == [t EXCEPT !.seen = known]
             v == [u EXCEPT !.do = "apply", !.found = FALSE]
  <2>1. u \in Tasks /\ u.rows = t.rows /\ u.target = t.target /\ u.seen = known
    BY <1>t DEF Tasks
  <2>2. v \in Tasks /\ v.do = "apply" /\ v.rows = t.rows /\ v.target = t.target /\ v.seen = known
    BY <2>1 DEF Tasks
  <2>3. /\ t.do = "known" /\ UNCHANGED <<crm, remote, pms, sync>>
        /\ Goes(w, Idle) \/ Goes(w, v)
    BY <1>5 DEF PushCompares
  <2> HIDE DEF u, v
  <2>4. CASE Goes(w, Idle)
    BY <2>3, <2>4, NewTask, IdleIsATask DEF crm, sync, Idle
  <2>5. CASE Goes(w, v)
    BY <2>2, <2>3, <2>5, NewTask DEF crm, sync
  <2> QED BY <2>3, <2>4, <2>5
<1>6. CASE PushRemembers(w)
  <2> DEFINE u == [t EXCEPT !.do = "mirror", !.target = "none"]
  <2>1. u \in Tasks /\ u.do = "mirror" /\ u.snap = t.snap
    BY <1>t DEF Tasks
  <2>2. /\ Goes(w, u) /\ t.do = "remember" /\ UNCHANGED <<crm, remote, pms>>
        /\ link' = t.target /\ known' = known \cup (t.rows \cap CrmRows)
    BY <1>6 DEF PushRemembers
  <2>3. \A r \in PmsRows : r \in known' <=> r \in known
    BY <2>2, RowsAssumption
  <2>4. link' \in Statuses /\ "none" \notin Statuses /\ known' \subseteq Rows
    BY <2>2, <1>t DEF Statuses, Ended, Tasks
  <2> HIDE DEF u
  <2>5. /\ task' \in [Workers -> Tasks] /\ task'[w] = u
        /\ \A v \in Workers \ {w} : task'[v] = task[v]
    BY <2>1, <2>2, NewTask
  <2>6. Shape' /\ RowsInCrm' /\ RowsInPms'
    BY <2>2, <2>3, <2>4, <2>5 DEF crm
  <2>7. MirrorsKnowTheStay' /\ PushesSendOwnRows'
    BY <2>1, <2>2, <2>3, <2>4, <2>5 DEF crm
  <2> QED BY <2>6, <2>7
<1> QED
  BY <1>1, <1>2, <1>3, <1>4, <1>5, <1>6

LEMMA CrashKeeps == SyncInv /\ Crash => SyncInv'
  BY IdleIsATask DEF SyncInv, Shape, RowsInCrm, RowsInPms, MirrorsKnowTheStay, PushesSendOwnRows, Crash, Idle,
     crm, sync

LEMMA StutterKeeps == SyncInv /\ UNCHANGED vars => SyncInv'
  BY DEF SyncInv, Shape, RowsInCrm, RowsInPms, MirrorsKnowTheStay, PushesSendOwnRows, vars, crm, sync

-----------------------------------------------------------------------------
(* Theorems *)

\* The inductive invariant: what a mirror and a push have read is still good for what
\* they will write.
THEOREM SyncInvariant == Spec => []SyncInv
<1>1. SyncInv /\ [Next]_vars => SyncInv'
  BY DesksKeep, MirrorKeeps, PushAppliesKeeps, OtherStepsKeep, CrashKeeps, StutterKeeps
     DEF Next, Mirrors, Pushes, Fails
<1> QED
  BY Initially, <1>1, PTL DEF Spec

\* Each charge and payment stands once in each system at most, and the stay has one
\* reservation in CRM.
THEOREM NothingIsDoubled == Spec => []EachRowOnce
<1>1. SyncInv => EachRowOnce
  BY DEF SyncInv, Shape, RowsInCrm, RowsInPms, EachRowOnce, Rows
<1> QED
  BY SyncInvariant, <1>1, PTL

=============================================================================
