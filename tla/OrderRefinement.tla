-------------------------- MODULE OrderRefinement --------------------------
(***************************************************************************)
(* OrderController implements OrderLife: each step of the controller and   *)
(* of its environment is a step in the life of an Order or of one of its   *)
(* ArtifactWorkflows, or invisible at the API server.                      *)
(***************************************************************************)
EXTENDS OrderProofs

-----------------------------------------------------------------------------
(* The inductive invariant *)

\* The controller creates ArtifactWorkflows for an Order that looks like this.
Live(order) == order # Absent /\ order.finalizer /\ ~order.deleting

\* The Order with UID u is there and does not go without the controller.
Protects(order, u) == order # Absent /\ order.finalizer /\ order.uid = u

\* However old a version with finalizer is that is not marked for deletion, the
\* Order it is a version of is still there: only a reconcile that has seen the
\* mark removes the finalizer, and it does so when no older version is cached.
Held(h) ==
  \A i \in 1..Len(h) : Live(h[i]) => \A j \in i..Len(h) : Protects(h[j], h[i].uid)

\* The Order a reconcile creates ArtifactWorkflows for is there.
ApplyHeld == rec # Idle /\ rec.pc = "apply" => Protects(Stored(orderLog), rec.order.uid)

\* UIDs are given out in turn.
Numbered ==
  /\ Exists(orderLog) => Stored(orderLog).uid <= userOps
  /\ \A s \in Shas : Exists(awLog[s]) => Stored(awLog[s]).owner <= userOps

\* What a reconcile compares the status with is what the spec of its copy asks
\* for, with the Endpoints and Secrets of some moment.
WantedInv ==
  rec # Idle /\ rec.pc \in {"apply", "updateStatus"} => rec.desired \in Wanted[rec.order.spec]

\* The status that is about to be written lists that, and has no phase for what
\* the status of the Order did not list.
StatusInv ==
  rec # Idle /\ rec.pc = "updateStatus" =>
    /\ DOMAIN rec.order.status = DOMAIN rec.desired
    /\ \A s \in DOMAIN rec.desired : rec.order.status[s].index = rec.desired[s]
    /\ rec.current => \A s \in DOMAIN rec.desired \ DOMAIN Cached(orderLog).status :
                        rec.order.status[s].phase = WorkflowUnknown

\* Owners are protected, and all that takes.
LifeInv ==
  Held(orderLog) /\ ApplyHeld /\ Numbered /\ OwnerProtected /\ WantedInv /\ StatusInv

-----------------------------------------------------------------------------
(* Histories whose live versions are held *)

\* An Order that looks live in the cache is there.
LEMMA HeldCached ==
  ASSUME NEW h, IsHistory(h, OrderVersions), Held(h), Live(Cached(h))
  PROVE  Protects(Stored(h), Cached(h).uid)
<1>1. Len(h) \in Nat \ {0}
  BY HistoryEnds
<1>2. 1 \in 1..Len(h) /\ Len(h) \in 1..Len(h)
  BY <1>1
<1> QED
  BY <1>2 DEF Held, Stored, Cached

\* A new version that protects what the last one protects.
LEMMA HeldAppend ==
  ASSUME NEW h, IsHistory(h, OrderVersions), Held(h), NEW v \in OrderVersions,
         \A u : Protects(Stored(h), u) => Protects(v, u)
  PROVE  Held(Append(h, v))
<1> DEFINE t == Append(h, v)
<1>1. /\ Len(h) \in Nat \ {0} /\ Len(t) = Len(h) + 1 /\ t[Len(t)] = v
      /\ \A i \in 1..Len(h) : t[i] = h[i]
  BY HistoryEnds, AppendVersion DEF Stored
<1> HIDE DEF t
<1>2. ASSUME NEW i \in 1..Len(t), Live(t[i]), NEW j \in i..Len(t)
      PROVE  Protects(t[j], t[i].uid)
  <2>1. CASE i = Len(t)
    <3>1. j = i
      BY <1>1, <2>1
    <3> QED
      BY <1>2, <3>1 DEF Live, Protects
  <2>2. CASE i # Len(t)
    <3>1. i \in 1..Len(h) /\ Len(h) \in i..Len(h)
      BY <1>1, <2>2
    <3>2. t[i] = h[i] /\ Live(h[i])
      BY <1>1, <1>2, <3>1
    <3>3. \A k \in i..Len(h) : Protects(h[k], h[i].uid)
      BY <3>1, <3>2 DEF Held
    <3>4. CASE j = Len(t)
      <4>1. Protects(Stored(h), h[i].uid)
        BY <3>1, <3>3 DEF Stored
      <4> QED
        BY <1>1, <3>2, <3>4, <4>1
    <3>5. CASE j # Len(t)
      <4>1. j \in i..Len(h) /\ j \in 1..Len(h)
        BY <1>1, <3>1, <3>5
      <4> QED
        BY <1>1, <3>2, <3>3, <4>1
    <3> QED
      BY <3>4, <3>5
  <2> QED
    BY <2>1, <2>2
<1>3. Held(t)
  BY <1>2 DEF Held
<1> QED
  BY <1>3 DEF t

\* Any version after a single one that is not live.
LEMMA HeldAfterMark ==
  ASSUME NEW h, IsHistory(h, OrderVersions), InSync(h), ~Live(Stored(h)),
         NEW v \in OrderVersions
  PROVE  Held(Append(h, v))
<1> DEFINE t == Append(h, v)
<1>1. /\ Len(h) = 1 /\ Len(t) = 2 /\ t[1] = Stored(h)
  <2>1. Len(h) = 1 /\ 1 \in 1..Len(h)
    BY DEF InSync
  <2>2. Len(t) = Len(h) + 1 /\ t[1] = h[1]
    <3>1. /\ Len(Append(h, v)) = Len(h) + 1
          /\ \A i \in 1..Len(h) : Append(h, v)[i] = h[i]
      BY AppendVersion
    <3> QED
      BY <2>1, <3>1
  <2> QED
    BY <2>1, <2>2 DEF Stored
<1> HIDE DEF t
<1>2. ASSUME NEW i \in 1..Len(t), Live(t[i]), NEW j \in i..Len(t)
      PROVE  Protects(t[j], t[i].uid)
  <2>1. i # 1
    BY <1>1, <1>2
  <2>2. j = i
    BY <1>1, <2>1
  <2> QED
    BY <1>2, <2>2 DEF Live, Protects
<1>3. Held(t)
  BY <1>2 DEF Held
<1> QED
  BY <1>3 DEF t

\* A delivered event.
LEMMA HeldTail ==
  ASSUME NEW h, IsHistory(h, OrderVersions), Held(h), ~InSync(h)
  PROVE  Held(Tail(h))
<1> DEFINE t == Tail(h)
<1>1. /\ Len(h) \in Nat \ {0} /\ Len(t) = Len(h) - 1
      /\ \A i \in 1..Len(t) : t[i] = h[i + 1]
  BY HistoryEnds, DeliverVersion
<1> HIDE DEF t
<1>2. ASSUME NEW i \in 1..Len(t), Live(t[i]), NEW j \in i..Len(t)
      PROVE  Protects(t[j], t[i].uid)
  <2>1. i + 1 \in 1..Len(h) /\ j + 1 \in (i + 1)..Len(h) /\ j \in 1..Len(t)
    BY <1>1
  <2>2. t[i] = h[i + 1] /\ t[j] = h[j + 1]
    BY <1>1, <2>1
  <2> QED
    BY <1>2, <2>1, <2>2 DEF Held
<1>3. Held(t)
  BY <1>2 DEF Held
<1> QED
  BY <1>3 DEF t

-----------------------------------------------------------------------------
(* What the steps write *)

\* The four updates of a reconcile, as the API server sees them: each is made
\* from the stored version and changes one field of it.
UpdateOf(order, new) ==
  \/ /\ order.deleting /\ order.finalizer
     /\ new = [order EXCEPT !.status = NoAWs]
  \/ /\ order.deleting /\ DOMAIN order.status = {}
     /\ new = Absent
  \/ /\ ~order.deleting
     /\ new = [order EXCEPT !.finalizer = TRUE]
  \/ /\ ~order.deleting /\ order.finalizer
     /\ rec.pc = "updateStatus" /\ rec.order = [order EXCEPT !.status = rec.order.status]
     /\ new = rec.order

\* An update that is not rejected writes one of these to the stored version.
LEMMA UpdateWrites ==
  ASSUME TypeOK, OrderInv, CleanupStatus \/ RemoveFinalizer \/ AddFinalizer \/ UpdateStatus,
         orderLog' # orderLog
  PROVE  /\ rec \in Busy /\ rec # Idle /\ rec.current /\ rec' = Idle
         /\ InSync(orderLog)
         /\ Stored(orderLog) \in Order /\ Stored(orderLog) = Cached(orderLog)
         /\ \E v \in OrderVersions : orderLog' = Append(orderLog, v) /\ UpdateOf(Stored(orderLog), v)
<1> DEFINE o == Stored(orderLog)
<1>1. rec \in Busy /\ rec # Idle /\ rec.order \in Order /\ rec.order # Absent
  <2>1. rec.pc \in {"cleanup", "removeFinalizer", "addFinalizer", "updateStatus"}
    BY DEF CleanupStatus, RemoveFinalizer, AddFinalizer, UpdateStatus
  <2>2. rec # Idle
    BY <2>1 DEF Idle
  <2>3. rec \in Busy
    BY <2>2 DEF TypeOK
  <2> QED
    BY <2>2, <2>3, AbsentAssumption DEF Busy
<1>2. ASSUME NEW obj \in Order, NEW again, Update(obj, again)
      PROVE  /\ rec.current /\ InSync(orderLog) /\ rec' = Idle
             /\ Purge(obj) \in OrderVersions
             /\ orderLog' = Append(orderLog, Purge(obj))
  BY <1>2, PurgeType DEF Update, Return, Write
<1>3. ASSUME rec.current, InSync(orderLog)
      PROVE  /\ o \in Order /\ o = Cached(orderLog)
             /\ rec.order = [o EXCEPT !.status = rec.order.status]
             /\ rec.pc # "updateStatus" => rec.order = o
  <2>1. o = Cached(orderLog) /\ o \in OrderVersions
    BY <1>3, Histories, HistoryEnds
  <2>2. /\ o # Absent /\ rec.order = [o EXCEPT !.status = rec.order.status]
        /\ rec.pc # "updateStatus" => rec.order = o
    BY <1>1, <1>3, <2>1 DEF OrderInv, CopyInv
  <2> QED
    BY <2>1, <2>2 DEF OrderVersions
<1>4. CallInv
  BY DEF OrderInv
<1> HIDE DEF o
<1>5. CASE CleanupStatus
  <2> DEFINE obj == [rec.order EXCEPT !.status = NoAWs]
  <2>1. rec.pc = "cleanup" /\ Update(obj, TRUE)
    BY <1>5 DEF CleanupStatus
  <2>2. rec.order.deleting /\ rec.order.finalizer
    BY <1>1, <1>4, <2>1 DEF CallInv, Version, Order
  <2>3. obj \in Order /\ obj.finalizer
    BY <1>1, <2>2, NoAWsType DEF Order
  <2>4. Purge(obj) = obj
    BY <2>3 DEF Purge
  <2>5. /\ rec.current /\ InSync(orderLog) /\ rec' = Idle /\ obj \in OrderVersions
        /\ orderLog' = Append(orderLog, obj)
    BY <1>2, <2>1, <2>3, <2>4
  <2>6. o \in Order /\ o = Cached(orderLog) /\ rec.order = o
    BY <1>3, <2>1, <2>5
  <2>7. UpdateOf(o, obj)
    BY <2>2, <2>6 DEF UpdateOf
  <2> QED
    BY <1>1, <2>5, <2>6, <2>7 DEF o
<1>6. CASE RemoveFinalizer
  <2> DEFINE obj == [rec.order EXCEPT !.finalizer = FALSE]
  <2>1. rec.pc = "removeFinalizer" /\ Update(obj, FALSE)
    BY <1>6 DEF RemoveFinalizer
  <2>2. rec.order.deleting /\ DOMAIN rec.order.status = {}
    BY <1>1, <1>4, <2>1 DEF CallInv
  <2>3. obj \in Order /\ ~obj.finalizer /\ obj.deleting
    BY <1>1, <2>2 DEF Order
  <2>4. Purge(obj) = Absent
    BY <2>3 DEF Purge
  <2>5. /\ rec.current /\ InSync(orderLog) /\ rec' = Idle /\ Absent \in OrderVersions
        /\ orderLog' = Append(orderLog, Absent)
    BY <1>2, <2>1, <2>3, <2>4
  <2>6. o \in Order /\ o = Cached(orderLog) /\ rec.order = o
    BY <1>3, <2>1, <2>5
  <2>7. UpdateOf(o, Absent)
    BY <2>2, <2>6 DEF UpdateOf
  <2> QED
    BY <1>1, <2>5, <2>6, <2>7 DEF o
<1>7. CASE AddFinalizer
  <2> DEFINE obj == [rec.order EXCEPT !.finalizer = TRUE]
  <2>1. rec.pc = "addFinalizer" /\ Update(obj, FALSE)
    BY <1>7 DEF AddFinalizer
  <2>2. ~rec.order.deleting
    BY <1>1, <1>4, <2>1 DEF CallInv
  <2>3. obj \in Order /\ obj.finalizer
    BY <1>1 DEF Order
  <2>4. Purge(obj) = obj
    BY <2>3 DEF Purge
  <2>5. /\ rec.current /\ InSync(orderLog) /\ rec' = Idle /\ obj \in OrderVersions
        /\ orderLog' = Append(orderLog, obj)
    BY <1>2, <2>1, <2>3, <2>4
  <2>6. o \in Order /\ o = Cached(orderLog) /\ rec.order = o
    BY <1>3, <2>1, <2>5
  <2>7. UpdateOf(o, obj)
    BY <2>2, <2>6 DEF UpdateOf
  <2> QED
    BY <1>1, <2>5, <2>6, <2>7 DEF o
<1>8. CASE UpdateStatus
  <2> DEFINE obj == rec.order
  <2>1. rec.pc = "updateStatus" /\ Update(obj, FALSE)
    BY <1>8 DEF UpdateStatus
  <2>2. ~obj.deleting /\ obj.finalizer
    BY <1>1, <1>4, <2>1 DEF CallInv
  <2>3. Purge(obj) = obj
    BY <2>2 DEF Purge
  <2>4. /\ rec.current /\ InSync(orderLog) /\ rec' = Idle /\ obj \in OrderVersions
        /\ orderLog' = Append(orderLog, obj)
    BY <1>1, <1>2, <2>1, <2>3
  <2>5. o \in Order /\ o = Cached(orderLog) /\ obj = [o EXCEPT !.status = obj.status]
    BY <1>3, <2>4
  <2>6. ~o.deleting /\ o.finalizer
    BY <2>2, <2>5 DEF Order
  <2>7. UpdateOf(o, obj)
    BY <2>1, <2>5, <2>6 DEF UpdateOf
  <2> QED
    BY <1>1, <2>4, <2>5, <2>7 DEF o
<1> QED
  BY <1>5, <1>6, <1>7, <1>8

\* What users write, as the API server sees it.
LEMMA UserWrites ==
  ASSUME TypeOK, OrderInv,
         DeleteOrder \/ \E spec \in OrderSpecs : CreateOrder(spec) \/ EditOrder(spec)
  PROVE  /\ UNCHANGED <<awLog, rec>>
         /\ \E v \in OrderVersions :
              /\ orderLog' = Append(orderLog, v)
              /\ \/ /\ Stored(orderLog) = Absent /\ userOps' = userOps + 1 /\ userOps' \in UIDs
                    /\ \E spec \in OrderSpecs :
                         v = [uid |-> userOps', deleting |-> FALSE, finalizer |-> FALSE,
                              spec |-> spec, status |-> NoAWs]
                 \/ /\ Stored(orderLog) \in Order
                    /\ \E spec \in OrderSpecs : v = [Stored(orderLog) EXCEPT !.spec = spec]
                 \/ /\ Stored(orderLog) \in Order /\ ~Stored(orderLog).deleting
                    /\ v = IF Stored(orderLog).finalizer
                           THEN [Stored(orderLog) EXCEPT !.deleting = TRUE] ELSE Absent
<1> DEFINE o == Stored(orderLog)
<1>1. o \in OrderVersions
  BY Histories, HistoryEnds
<1>2. Exists(orderLog) <=> o # Absent
  BY DEF Exists
<1>3. UNCHANGED <<awLog, rec>>
  BY DEF DeleteOrder, CreateOrder, EditOrder
<1>4. ASSUME NEW spec \in OrderSpecs, CreateOrder(spec)
      PROVE  \E v \in OrderVersions :
               /\ orderLog' = Append(orderLog, v)
               /\ o = Absent /\ userOps' = userOps + 1 /\ userOps' \in UIDs
               /\ v = [uid |-> userOps', deleting |-> FALSE, finalizer |-> FALSE,
                       spec |-> spec, status |-> NoAWs]
  <2> DEFINE new == [uid |-> userOps + 1, deleting |-> FALSE, finalizer |-> FALSE,
                     spec |-> spec, status |-> NoAWs]
  <2>1. userOps' = userOps + 1 /\ userOps + 1 \in UIDs
    BY <1>4, InstanceAssumption DEF CreateOrder, TypeOK, UIDs
  <2>2. new \in OrderVersions
    BY <2>1, NoAWsType DEF Order, OrderVersions
  <2>3. orderLog' = Append(orderLog, new) /\ o = Absent
    BY <1>2, <1>4 DEF CreateOrder
  <2> QED
    BY <2>1, <2>2, <2>3
<1> HIDE DEF o
<1>5. ASSUME NEW spec \in OrderSpecs, EditOrder(spec)
      PROVE  \E v \in OrderVersions :
               orderLog' = Append(orderLog, v) /\ o \in Order /\ v = [o EXCEPT !.spec = spec]
  <2>1. o \in Order /\ orderLog' = Append(orderLog, [o EXCEPT !.spec = spec])
    BY <1>1, <1>2, <1>5 DEF EditOrder, OrderVersions, o
  <2>2. [o EXCEPT !.spec = spec] \in OrderVersions
    BY <2>1 DEF Order, OrderVersions
  <2> QED
    BY <2>1, <2>2
<1>6. ASSUME DeleteOrder
      PROVE  \E v \in OrderVersions :
               /\ orderLog' = Append(orderLog, v) /\ o \in Order /\ ~o.deleting
               /\ v = IF o.finalizer THEN [o EXCEPT !.deleting = TRUE] ELSE Absent
  <2> DEFINE marked == [o EXCEPT !.deleting = TRUE]
  <2>1. o \in Order /\ ~o.deleting /\ orderLog' = Write(orderLog, Purge(marked))
    BY <1>1, <1>2, <1>6 DEF DeleteOrder, Delete, OrderVersions, o
  <2>2. marked \in Order /\ marked.deleting /\ marked.finalizer = o.finalizer
    BY <2>1 DEF Order
  <2>3. Purge(marked) = IF o.finalizer THEN marked ELSE Absent
    BY <2>2 DEF Purge
  <2>4. Purge(marked) \in OrderVersions
    BY <2>2, PurgeType
  <2>5. Purge(marked) # o
    BY <2>1, <2>2, <2>3, AbsentAssumption
  <2>6. orderLog' = Append(orderLog, Purge(marked))
    BY <2>1, <2>5 DEF Write, o
  <2> QED
    BY <2>1, <2>3, <2>4, <2>6
<1> QED
  BY <1>3, <1>4, <1>5, <1>6 DEF o

-----------------------------------------------------------------------------
(* The refinement *)

\* What the API server shows when the history of one ArtifactWorkflow changes.
LEMMA StoredAWStep ==
  ASSUME TypeOK, NEW s \in Shas, NEW h, awLog' = [awLog EXCEPT ![s] = h]
  PROVE  StoredAWs' = [StoredAWs EXCEPT ![s] = Stored(h)]
BY DEF TypeOK, StoredAWs

\* Histories that stay leave what is stored.
LEMMA StoredUnchanged ==
  /\ UNCHANGED awLog => UNCHANGED StoredAWs
  /\ UNCHANGED orderLog => UNCHANGED StoredOrder
BY DEF StoredAWs, StoredOrder

\* What is stored.
LEMMA StoredTypes ==
  ASSUME TypeOK
  PROVE  /\ StoredOrder = Stored(orderLog) /\ StoredOrder \in OrderVersions
         /\ \A s \in Shas : StoredAWs[s] = Stored(awLog[s]) /\ StoredAWs[s] \in AWVersions
BY Histories, HistoryEnds DEF StoredAWs, StoredOrder

\* The phases are the same in both specifications.
LEMMA SamePhases ==
  /\ Life!Phases = Phases /\ Life!WorkflowUnknown = WorkflowUnknown /\ Life!NoAWs = NoAWs
  /\ \A p : Life!Completed(p) <=> Completed(p)
BY DEF Life!Phases, Phases, Life!WorkflowUnknown, WorkflowUnknown, Life!NoAWs, NoAWs,
       Life!Completed, Completed

\* The new status is a report on the ArtifactWorkflows the stored spec asks for.
LEMMA ReportImplements ==
  ASSUME TypeOK, WantedInv, StatusInv, rec \in Busy, rec # Idle, rec.current,
         rec.pc = "updateStatus",
         StoredOrder \in Order, StoredOrder = Cached(orderLog), UNCHANGED StoredAWs,
         ~StoredOrder.deleting, StoredOrder.finalizer,
         rec.order = [StoredOrder EXCEPT !.status = rec.order.status],
         StoredOrder' = rec.order
  PROVE  Life!Next
<1> DEFINE o == StoredOrder
           desired == rec.desired
           status == rec.order.status
           phase == [s \in DOMAIN desired |-> status[s].phase]
<1>1. o # Absent /\ o.spec \in OrderSpecs /\ rec.order.spec = o.spec
  BY AbsentAssumption DEF Order
<1>2. desired \in Wanted[o.spec]
  BY <1>1 DEF WantedInv
<1>3. /\ DOMAIN status = DOMAIN desired
      /\ \A s \in DOMAIN desired : status[s].index = desired[s]
      /\ \A s \in DOMAIN desired \ DOMAIN o.status : status[s].phase = WorkflowUnknown
  BY DEF StatusInv
<1>4. PICK S \in SUBSET Shas : status \in [S -> StatusEntry]
  BY DEF Busy, Order, Statuses
<1>5. ASSUME NEW s \in DOMAIN desired
      PROVE  /\ status[s].phase \in Phases
             /\ status[s] = [index |-> desired[s], phase |-> status[s].phase]
  <2>1. status[s] \in StatusEntry
    BY <1>3, <1>4
  <2> QED
    BY <1>3, <2>1 DEF StatusEntry
<1>6. phase \in [DOMAIN desired -> Phases]
  BY <1>5
<1>7. status = [s \in DOMAIN desired |-> [index |-> desired[s], phase |-> phase[s]]]
  <2>1. status = [s \in DOMAIN desired |-> status[s]]
    BY <1>3, <1>4
  <2> QED
    BY <1>5, <2>1
<1>8. \A s \in DOMAIN desired \ DOMAIN o.status : phase[s] = Life!WorkflowUnknown
  BY <1>3, SamePhases
<1>9. StoredOrder' = [o EXCEPT !.status = status]
  OBVIOUS
<1> HIDE DEF desired, status, phase
<1>10. Life!Report(desired, phase)
  BY <1>1, <1>2, <1>7, <1>8, <1>9 DEF Life!Report
<1> QED
  BY <1>1, <1>2, <1>6, <1>10, SamePhases DEF Life!Next

\* The updates of a reconcile.
LEMMA UpdatesImplement ==
  ASSUME TypeOK, OrderInv, WantedInv, StatusInv,
         CleanupStatus \/ RemoveFinalizer \/ AddFinalizer \/ UpdateStatus
  PROVE  [Life!Next]_(Life!vars)
<1>1. UNCHANGED StoredAWs
  BY StoredUnchanged DEF CleanupStatus, RemoveFinalizer, AddFinalizer, UpdateStatus
<1>2. CASE UNCHANGED orderLog
  BY <1>1, <1>2, StoredUnchanged DEF Life!vars
<1>3. CASE orderLog' # orderLog
  <2>1. /\ rec \in Busy /\ rec # Idle /\ rec.current
        /\ StoredOrder \in Order /\ StoredOrder = Cached(orderLog) /\ StoredOrder # Absent
        /\ \E v \in OrderVersions :
             orderLog' = Append(orderLog, v) /\ UpdateOf(StoredOrder, v)
    BY <1>3, UpdateWrites, AbsentAssumption DEF StoredOrder
  <2>2. PICK v \in OrderVersions : orderLog' = Append(orderLog, v) /\ UpdateOf(StoredOrder, v)
    BY <2>1
  <2>3. StoredOrder' = v
    BY <2>2, Histories, AppendVersion DEF StoredOrder
  <2>4. CASE StoredOrder.deleting /\ v = [StoredOrder EXCEPT !.status = NoAWs]
    BY <1>1, <2>1, <2>3, <2>4, SamePhases DEF Life!Clear, Life!Next
  <2>5. CASE StoredOrder.deleting /\ DOMAIN StoredOrder.status = {} /\ v = Absent
    BY <1>1, <2>1, <2>3, <2>5 DEF Life!Release, Life!Next
  <2>6. CASE ~StoredOrder.deleting /\ v = [StoredOrder EXCEPT !.finalizer = TRUE]
    BY <1>1, <2>1, <2>3, <2>6 DEF Life!Protect, Life!Next
  <2>7. CASE /\ ~StoredOrder.deleting /\ StoredOrder.finalizer /\ rec.pc = "updateStatus"
             /\ rec.order = [StoredOrder EXCEPT !.status = rec.order.status]
             /\ v = rec.order
    BY <1>1, <2>1, <2>3, <2>7, ReportImplements
  <2> QED
    BY <2>2, <2>4, <2>5, <2>6, <2>7 DEF UpdateOf
<1> QED
  BY <1>2, <1>3

\* Users create, edit and delete the Order.
LEMMA UsersImplement ==
  ASSUME TypeOK, OrderInv, Numbered,
         DeleteOrder \/ \E spec \in OrderSpecs : CreateOrder(spec) \/ EditOrder(spec)
  PROVE  Life!Next
<1> DEFINE o == StoredOrder
<1>1. PICK v \in OrderVersions :
        /\ orderLog' = Append(orderLog, v)
        /\ \/ /\ o = Absent /\ userOps' = userOps + 1 /\ userOps' \in UIDs
              /\ \E spec \in OrderSpecs :
                   v = [uid |-> userOps', deleting |-> FALSE, finalizer |-> FALSE,
                        spec |-> spec, status |-> NoAWs]
           \/ /\ o \in Order
              /\ \E spec \in OrderSpecs : v = [o EXCEPT !.spec = spec]
           \/ /\ o \in Order /\ ~o.deleting
              /\ v = IF o.finalizer THEN [o EXCEPT !.deleting = TRUE] ELSE Absent
  BY UserWrites DEF StoredOrder
<1>2. UNCHANGED StoredAWs /\ StoredOrder' = v
  <2>1. UNCHANGED awLog
    BY UserWrites
  <2>2. Stored(Append(orderLog, v)) = v
    BY Histories, AppendVersion
  <2> QED
    BY <1>1, <2>1, <2>2, StoredUnchanged DEF StoredOrder
<1> HIDE DEF o
<1>3. ASSUME NEW spec \in OrderSpecs, o = Absent, userOps' = userOps + 1, userOps' \in UIDs,
             v = [uid |-> userOps', deleting |-> FALSE, finalizer |-> FALSE,
                  spec |-> spec, status |-> NoAWs]
      PROVE  Life!Next
  <2>1. ASSUME NEW s \in Shas, StoredAWs[s] # Absent PROVE StoredAWs[s].owner # userOps'
    <3>1. StoredAWs[s].owner <= userOps /\ StoredAWs[s] \in ArtifactWorkflow
      BY <2>1, StoredTypes DEF Numbered, Exists, AWVersions
    <3>2. StoredAWs[s].owner \in Nat /\ userOps \in Nat
      BY <3>1, InstanceAssumption DEF ArtifactWorkflow, UIDs, TypeOK
    <3> QED
      BY <1>3, <3>1, <3>2
  <2>2. Life!Create(spec, userOps')
    BY <1>2, <1>3, <2>1, SamePhases DEF Life!Create, o
  <2> QED
    BY <1>3, <2>2 DEF Life!Next
<1>4. ASSUME NEW spec \in OrderSpecs, o \in Order, v = [o EXCEPT !.spec = spec]
      PROVE  Life!Next
  BY <1>2, <1>4, AbsentAssumption DEF Life!Edit, Life!Next, o
<1>5. ASSUME o \in Order, ~o.deleting,
             v = IF o.finalizer THEN [o EXCEPT !.deleting = TRUE] ELSE Absent
      PROVE  Life!Next
  BY <1>2, <1>5, AbsentAssumption DEF Life!Delete, Life!Next, o
<1> QED
  BY <1>1, <1>3, <1>4, <1>5

\* An ArtifactWorkflow is deleted, by whomever.
LEMMA DeleteImplements ==
  ASSUME TypeOK, NEW s \in Shas, UNCHANGED orderLog,
         awLog' = [awLog EXCEPT ![s] = Delete(awLog[s])]
  PROVE  [Life!Next]_(Life!vars)
<1> DEFINE a == StoredAWs[s]
           marked == [a EXCEPT !.deleting = TRUE]
<1>1. /\ a = Stored(awLog[s]) /\ a \in AWVersions /\ IsHistory(awLog[s], AWVersions)
      /\ UNCHANGED StoredOrder /\ StoredAWs' = [StoredAWs EXCEPT ![s] = Stored(Delete(awLog[s]))]
      /\ StoredAWs \in [Shas -> AWVersions]
  BY StoredTypes, Histories, StoredUnchanged, StoredAWStep DEF StoredAWs
<1> HIDE DEF a
<1>2. CASE a = Absent
  <2>1. Delete(awLog[s]) = awLog[s]
    BY <1>1, <1>2 DEF Delete, Exists
  <2>2. UNCHANGED StoredAWs
    BY <1>1, <2>1 DEF a
  <2> QED
    BY <1>1, <2>2 DEF Life!vars
<1>3. CASE a # Absent
  <2>1. a \in ArtifactWorkflow
    BY <1>1, <1>3 DEF AWVersions
  <2>2. marked \in ArtifactWorkflow /\ marked.deleting /\ marked.finalizer = a.finalizer
    BY <2>1 DEF ArtifactWorkflow
  <2>3. Purge(marked) = IF a.finalizer THEN marked ELSE Absent
    BY <2>2 DEF Purge
  <2>4. Delete(awLog[s]) = Write(awLog[s], Purge(marked))
    BY <1>1, <1>3 DEF Delete, Exists
  <2>5. Stored(Delete(awLog[s])) = Purge(marked)
    BY <1>1, <2>2, <2>4, PurgeType, WriteVersion
  <2>6. StoredAWs' = [StoredAWs EXCEPT ![s] = IF a.finalizer THEN marked ELSE Absent]
    BY <1>1, <2>3, <2>5
  <2>7. CASE ~a.deleting
    <3>1. Life!DeleteArtifactWorkflow(s)
      BY <1>1, <1>3, <2>6, <2>7 DEF Life!DeleteArtifactWorkflow, a
    <3> QED
      BY <3>1 DEF Life!Next
  <2>8. CASE a.deleting /\ a.finalizer
    <3>1. marked = a
      BY <2>1, <2>8 DEF ArtifactWorkflow
    <3>2. UNCHANGED StoredAWs
      BY <1>1, <2>6, <2>8, <3>1 DEF a
    <3> QED
      BY <1>1, <3>2 DEF Life!vars
  <2>9. CASE a.deleting /\ ~a.finalizer
    <3>1. Life!RunArtifactWorkflow(s)
      BY <1>1, <1>3, <2>6, <2>9 DEF Life!RunArtifactWorkflow, a
    <3> QED
      BY <3>1 DEF Life!Next
  <2> QED
    BY <2>7, <2>8, <2>9
<1> QED
  BY <1>2, <1>3

\* A missing ArtifactWorkflow is created, while its Order is there.
LEMMA CreateImplements ==
  ASSUME TypeOK, ApplyHeld, NEW s \in Shas, CreateArtifactWorkflow(s)
  PROVE  [Life!Next]_(Life!vars)
<1> DEFINE new == NewArtifactWorkflow
<1>1. /\ StoredAWs[s] = Stored(awLog[s]) /\ IsHistory(awLog[s], AWVersions)
      /\ UNCHANGED StoredOrder /\ StoredAWs \in [Shas -> AWVersions]
      /\ StoredOrder = Stored(orderLog)
  BY StoredTypes, Histories, StoredUnchanged DEF StoredAWs, CreateArtifactWorkflow
<1>2. rec \in Busy /\ rec # Idle /\ rec.pc = "apply"
  BY DEF CreateArtifactWorkflow, TypeOK, Idle
<1>3. StoredOrder # Absent /\ StoredOrder.finalizer /\ StoredOrder.uid = rec.order.uid
  BY <1>1, <1>2 DEF ApplyHeld, Protects
<1>4. CASE StoredAWs[s] # Absent
  <2>1. awLog' = [awLog EXCEPT ![s] = awLog[s]]
    BY <1>1, <1>4 DEF CreateArtifactWorkflow
  <2>2. UNCHANGED awLog
    BY <2>1 DEF TypeOK
  <2> QED
    BY <1>1, <2>2, StoredUnchanged DEF Life!vars
<1>5. CASE StoredAWs[s] = Absent
  <2>1. awLog' = [awLog EXCEPT ![s] = Append(awLog[s], new)] /\ s \in Runnable
    BY <1>1, <1>5 DEF CreateArtifactWorkflow, Runnable
  <2>2. new \in AWVersions
    BY <1>2 DEF NewArtifactWorkflow, Busy, Order, ArtifactWorkflow, AWVersions, Phases
  <2>3. Stored(Append(awLog[s], new)) = new
    BY <1>1, <2>2, AppendVersion
  <2>4. StoredAWs' = [StoredAWs EXCEPT ![s] = new]
    BY <2>1, <2>3, StoredAWStep
  <2>5. new = [owner |-> StoredOrder.uid, deleting |-> FALSE, finalizer |-> FALSE,
               phase |-> Life!WorkflowUnknown]
    BY <1>3, SamePhases DEF NewArtifactWorkflow
  <2>6. Life!CreateArtifactWorkflow(s)
    BY <1>1, <1>3, <1>5, <2>1, <2>4, <2>5 DEF Life!CreateArtifactWorkflow
  <2> QED
    BY <2>6 DEF Life!Next
<1> QED
  BY <1>4, <1>5

\* The ArtifactWorkflow controller writes.
LEMMA RunImplements ==
  ASSUME TypeOK, NEW s \in Shas,
         \/ AWAddsFinalizer(s) \/ AWRemovesFinalizer(s)
         \/ \E p \in AWPhases : AWSetsPhase(s, p)
  PROVE  Life!Next
<1> DEFINE a == StoredAWs[s]
<1>1. /\ a = Stored(awLog[s]) /\ a \in AWVersions /\ IsHistory(awLog[s], AWVersions)
      /\ StoredAWs \in [Shas -> AWVersions]
  BY StoredTypes, Histories DEF StoredAWs
<1>2. a \in ArtifactWorkflow /\ a # Absent
  BY <1>1 DEF AWAddsFinalizer, AWRemovesFinalizer, AWSetsPhase, Exists, AWVersions
<1>3. UNCHANGED StoredOrder
  BY StoredUnchanged DEF AWAddsFinalizer, AWRemovesFinalizer, AWSetsPhase, AWWrites
<1>4. ASSUME NEW obj \in AWVersions, AWWrites(s, obj)
      PROVE  StoredAWs' = [StoredAWs EXCEPT ![s] = obj]
  <2>1. Stored(Write(awLog[s], obj)) = obj
    BY <1>1, WriteVersion
  <2>2. awLog' = [awLog EXCEPT ![s] = Write(awLog[s], obj)]
    BY <1>4 DEF AWWrites
  <2> QED
    BY <2>1, <2>2, StoredAWStep
<1>5. CASE AWAddsFinalizer(s)
  <2>1. [a EXCEPT !.finalizer = TRUE] \in AWVersions
    BY <1>2 DEF ArtifactWorkflow, AWVersions
  <2>2. ~a.deleting /\ StoredAWs' = [StoredAWs EXCEPT ![s] = [a EXCEPT !.finalizer = TRUE]]
    BY <1>1, <1>4, <1>5, <2>1 DEF AWAddsFinalizer
  <2>3. Life!RunArtifactWorkflow(s)
    BY <1>2, <1>3, <2>2 DEF Life!RunArtifactWorkflow
  <2> QED
    BY <2>3 DEF Life!Next
<1>6. CASE AWRemovesFinalizer(s)
  <2>1. a.deleting /\ StoredAWs' = [StoredAWs EXCEPT ![s] = Absent]
    BY <1>1, <1>4, <1>6 DEF AWRemovesFinalizer, AWVersions
  <2>2. Life!RunArtifactWorkflow(s)
    BY <1>2, <1>3, <2>1 DEF Life!RunArtifactWorkflow
  <2> QED
    BY <2>2 DEF Life!Next
<1>7. ASSUME NEW p \in AWPhases, AWSetsPhase(s, p) PROVE Life!Next
  <2>1. p \in Phases /\ [a EXCEPT !.phase = p] \in AWVersions
    BY <1>2, InstanceAssumption DEF ArtifactWorkflow, AWVersions
  <2>2. /\ a.finalizer /\ ~a.deleting /\ ~Completed(a.phase)
        /\ StoredAWs' = [StoredAWs EXCEPT ![s] = [a EXCEPT !.phase = p]]
    BY <1>1, <1>4, <1>7, <2>1 DEF AWSetsPhase
  <2>3. Life!RunArtifactWorkflow(s)
    BY <1>2, <1>3, <2>1, <2>2, SamePhases DEF Life!RunArtifactWorkflow
  <2> QED
    BY <2>3 DEF Life!Next
<1> QED
  BY <1>5, <1>6, <1>7
\* Every step is a step of the life of an Order, or changes nothing of it.
LEMMA StepImplements ==
  ASSUME TypeOK, OrderInv, LifeInv, [Next]_vars
  PROVE  [Life!Next]_(Life!vars)
<1>1. CASE CleanupStatus \/ RemoveFinalizer \/ AddFinalizer \/ UpdateStatus
  BY <1>1, UpdatesImplement DEF LifeInv
<1>2. CASE DeleteOrder \/ \E spec \in OrderSpecs : CreateOrder(spec) \/ EditOrder(spec)
  BY <1>2, UsersImplement DEF LifeInv
<1>3. ASSUME NEW s \in Shas, CreateArtifactWorkflow(s) PROVE [Life!Next]_(Life!vars)
  BY <1>3, CreateImplements DEF LifeInv
<1>4. ASSUME NEW s \in Shas,
             Cleanup(s) \/ DeleteArtifactWorkflow(s) \/ DeleteByHand(s) \/ CollectGarbage(s)
      PROVE  [Life!Next]_(Life!vars)
  <2>1. UNCHANGED orderLog
    BY <1>4 DEF Cleanup, DeleteArtifactWorkflow, DeleteByHand, CollectGarbage
  <2>2. UNCHANGED awLog \/ awLog' = [awLog EXCEPT ![s] = Delete(awLog[s])]
    BY <1>4 DEF Cleanup, DeleteArtifactWorkflow, DeleteByHand, CollectGarbage
  <2> QED
    BY <2>1, <2>2, DeleteImplements, StoredUnchanged DEF Life!vars
<1>5. ASSUME NEW s \in Shas,
             \/ AWAddsFinalizer(s) \/ AWRemovesFinalizer(s)
             \/ \E p \in AWPhases : AWSetsPhase(s, p)
      PROVE  [Life!Next]_(Life!vars)
  BY <1>5, RunImplements
<1>6. CASE DeliverOrder
  <2>1. Stored(Tail(orderLog)) = Stored(orderLog)
    BY <1>6, Histories, DeliverVersion DEF DeliverOrder
  <2>2. UNCHANGED StoredOrder
    BY <1>6, <2>1 DEF DeliverOrder, StoredOrder
  <2> QED
    BY <1>6, <2>2, StoredUnchanged DEF DeliverOrder, Life!vars
<1>7. ASSUME NEW s \in Shas, DeliverArtifactWorkflow(s) PROVE [Life!Next]_(Life!vars)
  <2>1. Stored(Tail(awLog[s])) = Stored(awLog[s])
    BY <1>7, Histories, DeliverVersion DEF DeliverArtifactWorkflow
  <2>2. UNCHANGED StoredAWs
    BY <1>7, <2>1, StoredAWStep DEF DeliverArtifactWorkflow, StoredAWs
  <2> QED
    BY <1>7, <2>2, StoredUnchanged DEF DeliverArtifactWorkflow, Life!vars
<1>8. CASE UNCHANGED <<orderLog, awLog>>
  BY <1>8, StoredUnchanged DEF Life!vars
<1> QED
  BY <1>1, <1>2, <1>3, <1>4, <1>5, <1>6, <1>7, <1>8
  DEF Next, Worker, Reconcile, Environment, ReconcileGone, ReconcileDeleting, ReconcileNew,
      ReconcileOrder, RejectArtifact, SyncPhases, Fail, Crash, Resync, ChangeCluster, vars

-----------------------------------------------------------------------------
(* The invariant is inductive *)

\* What a reconcile knows.
CopiesInv == Held(orderLog) /\ ApplyHeld /\ WantedInv /\ StatusInv

\* The updates of a reconcile keep live versions held.
LEMMA UpdatesKeep ==
  ASSUME TypeOK, OrderInv, CopiesInv,
         CleanupStatus \/ RemoveFinalizer \/ AddFinalizer \/ UpdateStatus
  PROVE  CopiesInv'
<1> DEFINE o == Stored(orderLog)
<1>1. rec' = Idle
  BY DEF CleanupStatus, RemoveFinalizer, AddFinalizer, UpdateStatus, Update, Return
<1>2. CASE UNCHANGED orderLog
  BY <1>1, <1>2 DEF CopiesInv, ApplyHeld, WantedInv, StatusInv
<1>3. CASE orderLog' # orderLog
  <2>1. /\ InSync(orderLog) /\ o \in Order
        /\ \E v \in OrderVersions : orderLog' = Append(orderLog, v) /\ UpdateOf(o, v)
    BY <1>3, UpdateWrites
  <2>2. PICK v \in OrderVersions : orderLog' = Append(orderLog, v) /\ UpdateOf(o, v)
    BY <2>1
  <2>3. IsHistory(orderLog, OrderVersions) /\ Held(orderLog)
    BY Histories DEF CopiesInv
  <2>4. CASE v = Absent
    <3>1. rec.order # Absent /\ [o EXCEPT !.finalizer = TRUE] # Absent
      <4>1. rec.order \in Order
        BY <1>3, UpdateWrites DEF Busy
      <4>2. [o EXCEPT !.finalizer = TRUE] \in Order
        BY <2>1 DEF Order
      <4> QED
        BY <4>1, <4>2, AbsentAssumption
    <3>2. o.deleting
      BY <2>2, <2>4, <3>1 DEF UpdateOf
    <3> QED
      BY <1>1, <2>1, <2>2, <2>3, <3>2, HeldAfterMark
      DEF Live, CopiesInv, ApplyHeld, WantedInv, StatusInv
  <2>5. CASE v # Absent
    <3>1. v.uid = o.uid /\ (o.finalizer => v.finalizer)
      BY <2>1, <2>2, <2>5 DEF UpdateOf, Order
    <3>2. \A u : Protects(o, u) => Protects(v, u)
      BY <2>5, <3>1 DEF Protects
    <3>3. Held(Append(orderLog, v))
      BY <2>3, <3>2, HeldAppend
    <3> QED
      BY <1>1, <2>2, <3>3 DEF CopiesInv, ApplyHeld, WantedInv, StatusInv
  <2> QED
    BY <2>4, <2>5
<1> QED
  BY <1>2, <1>3

\* So do users: an Order with finalizer is marked, not removed.
LEMMA UsersKeep ==
  ASSUME TypeOK, OrderInv, CopiesInv,
         DeleteOrder \/ \E spec \in OrderSpecs : CreateOrder(spec) \/ EditOrder(spec)
  PROVE  CopiesInv'
<1> DEFINE o == Stored(orderLog)
<1>1. PICK v \in OrderVersions :
        /\ orderLog' = Append(orderLog, v)
        /\ \/ o = Absent
           \/ /\ o \in Order
              /\ \E spec \in OrderSpecs : v = [o EXCEPT !.spec = spec]
           \/ /\ o \in Order /\ ~o.deleting
              /\ v = IF o.finalizer THEN [o EXCEPT !.deleting = TRUE] ELSE Absent
  BY UserWrites
<1>2. UNCHANGED rec
  BY UserWrites
<1>3. IsHistory(orderLog, OrderVersions) /\ Held(orderLog)
  BY Histories DEF CopiesInv
<1>4. o \in Order /\ o.finalizer => v # Absent /\ v.finalizer /\ v.uid = o.uid
  <2>1. ASSUME NEW spec \in OrderSpecs, o \in Order, o.finalizer, v = [o EXCEPT !.spec = spec]
        PROVE  v \in Order /\ v.finalizer /\ v.uid = o.uid
    BY <2>1 DEF Order
  <2>2. ASSUME o \in Order, o.finalizer, v = [o EXCEPT !.deleting = TRUE]
        PROVE  v \in Order /\ v.finalizer /\ v.uid = o.uid
    BY <2>2 DEF Order
  <2> QED
    BY <1>1, <2>1, <2>2, AbsentAssumption
<1>5. \A u : Protects(o, u) => Protects(v, u)
  <2>1. o \in OrderVersions
    BY <1>3, HistoryEnds
  <2> QED
    BY <1>4, <2>1 DEF Protects, OrderVersions
<1>6. Held(Append(orderLog, v))
  BY <1>3, <1>5, HeldAppend
<1>7. Stored(orderLog') = v /\ Cached(orderLog') = Cached(orderLog)
  BY <1>1, <1>3, AppendVersion
<1> QED
  BY <1>1, <1>2, <1>5, <1>6, <1>7 DEF CopiesInv, ApplyHeld, WantedInv, StatusInv

\* A reconcile that begins to compare has a live copy, so the Order is there.
LEMMA ReconcileKeeps ==
  ASSUME TypeOK, OrderInv, CopiesInv, ReconcileOrder
  PROVE  CopiesInv'
<1> DEFINE c == Cached(orderLog)
           desired == DesiredAWs(c.spec, cluster)
<1>1. CASE UNCHANGED rec
  BY <1>1 DEF ReconcileOrder, CopiesInv, ApplyHeld, WantedInv, StatusInv
<1>2. CASE rec' # rec
  <2>1. /\ AllFetched(c.spec, cluster) /\ UNCHANGED orderLog
        /\ rec'.pc = "apply" /\ rec'.order = c /\ rec'.desired = desired
        /\ Live(c)
    <3>1. Live(c) /\ UNCHANGED orderLog
      BY DEF ReconcileOrder, Live
    <3> DEFINE creates == DOMAIN desired \ DOMAIN c.status
               deletes == DOMAIN c.status \ DOMAIN desired
    <3>2. /\ AllFetched(c.spec, cluster)
          /\ Begin("apply", desired, creates, deletes, creates \union deletes)
      BY <1>2 DEF ReconcileOrder
    <3> HIDE DEF desired, creates, deletes
    <3> QED
      BY <3>1, <3>2 DEF Begin
  <2>2. IsHistory(orderLog, OrderVersions) /\ Held(orderLog)
    BY Histories DEF CopiesInv
  <2>3. Protects(Stored(orderLog), c.uid)
    BY <2>1, <2>2, HeldCached
  <2>4. c.spec \in OrderSpecs
    <3>1. c \in Order
      BY <2>1, <2>2, HistoryEnds DEF Live, OrderVersions
    <3> QED
      BY <3>1 DEF Order
  <2>5. desired \in Wanted[c.spec]
    BY <2>1, <2>4 DEF Wanted, TypeOK
  <2> HIDE DEF c, desired
  <2> QED
    BY <2>1, <2>2, <2>3, <2>5 DEF CopiesInv, ApplyHeld, WantedInv, StatusInv
<1> QED
  BY <1>1, <1>2

\* The new status lists what is desired.
LEMMA SyncPhasesKeeps ==
  ASSUME TypeOK, OrderInv, CopiesInv, SyncPhases
  PROVE  CopiesInv'
<1>1. rec \in Busy /\ rec # Idle /\ rec.pc = "apply" /\ UNCHANGED orderLog
  BY DEF SyncPhases, TypeOK, Idle
<1>2. CASE rec' = Idle
  BY <1>1, <1>2 DEF CopiesInv, ApplyHeld, WantedInv, StatusInv
<1>3. CASE rec' = [rec EXCEPT !.pc = "updateStatus", !.order.status = NextStatus]
  <2> DEFINE desired == rec.desired
  <2>1. /\ rec'.pc = "updateStatus" /\ rec'.order = [rec.order EXCEPT !.status = NextStatus]
        /\ rec'.desired = desired /\ rec'.current = rec.current
    BY <1>1, <1>3 DEF Busy
  <2>2. rec'.order.status = NextStatus /\ rec'.order.spec = rec.order.spec
    BY <1>1, <2>1 DEF Busy, Order
  <2>3. rec.creates = DOMAIN desired \ DOMAIN rec.order.status
    BY <1>1 DEF OrderInv, CallInv
  <2>4. rec.current => rec.order.status = Cached(orderLog).status
    BY <1>1 DEF OrderInv, CopyInv
  <2>5. /\ DOMAIN NextStatus = DOMAIN desired
        /\ \A s \in DOMAIN desired : NextStatus[s].index = desired[s]
        /\ \A s \in DOMAIN desired : s \in rec.creates => NextStatus[s].phase = WorkflowUnknown
    BY DEF NextStatus
  <2>6. StatusInv'
    BY <1>1, <2>1, <2>2, <2>3, <2>4, <2>5 DEF StatusInv
  <2>7. WantedInv'
    BY <1>1, <2>1, <2>2 DEF WantedInv, CopiesInv
  <2>8. ApplyHeld'
    BY <2>1 DEF ApplyHeld
  <2> QED
    BY <1>1, <2>6, <2>7, <2>8 DEF CopiesInv
<1> QED
  BY <1>1, <1>2, <1>3 DEF SyncPhases, Return

\* Every step keeps what a reconcile knows.
LEMMA CopiesInductive ==
  ASSUME TypeOK, OrderInv, CopiesInv, [Next]_vars
  PROVE  CopiesInv'
<1>1. CASE CleanupStatus \/ RemoveFinalizer \/ AddFinalizer \/ UpdateStatus
  BY <1>1, UpdatesKeep
<1>2. CASE DeleteOrder \/ \E spec \in OrderSpecs : CreateOrder(spec) \/ EditOrder(spec)
  BY <1>2, UsersKeep
<1>3. CASE ReconcileOrder
  BY <1>3, ReconcileKeeps
<1>4. CASE SyncPhases
  BY <1>4, SyncPhasesKeeps
<1>5. CASE ReconcileDeleting \/ ReconcileNew
  <2>1. UNCHANGED orderLog /\ rec'.pc \in {"cleanup", "removeFinalizer", "addFinalizer"}
    BY <1>5 DEF ReconcileDeleting, ReconcileNew, Begin
  <2> QED
    BY <2>1 DEF CopiesInv, ApplyHeld, WantedInv, StatusInv
<1>6. ASSUME NEW s \in Shas, Cleanup(s) \/ CreateArtifactWorkflow(s) \/ DeleteArtifactWorkflow(s)
      PROVE  CopiesInv'
  <2>1. rec \in Busy /\ rec # Idle
    BY <1>6 DEF Cleanup, CreateArtifactWorkflow, DeleteArtifactWorkflow, TypeOK, Idle
  <2>2. UNCHANGED orderLog /\ rec' = [rec EXCEPT !.todo = @ \ {s}]
    BY <1>6 DEF Cleanup, CreateArtifactWorkflow, DeleteArtifactWorkflow
  <2>3. /\ rec'.pc = rec.pc /\ rec'.order = rec.order /\ rec'.desired = rec.desired
        /\ rec'.current = rec.current
    BY <2>1, <2>2 DEF Busy
  <2> QED
    BY <2>1, <2>2, <2>3 DEF CopiesInv, ApplyHeld, WantedInv, StatusInv
<1>7. CASE DeliverOrder
  <2>1. IsHistory(orderLog, OrderVersions) /\ Held(orderLog) /\ ~InSync(orderLog)
        /\ orderLog' = Tail(orderLog)
    BY <1>7, Histories DEF CopiesInv, DeliverOrder
  <2>2. Held(orderLog') /\ Stored(orderLog') = Stored(orderLog)
    BY <2>1, HeldTail, DeliverVersion
  <2>3. CASE rec = Idle
    BY <1>7, <2>2, <2>3 DEF DeliverOrder, CopiesInv, ApplyHeld, WantedInv, StatusInv
  <2>4. CASE rec # Idle
    <3>1. rec \in Busy /\ rec' = [rec EXCEPT !.current = FALSE]
      BY <1>7, <2>4 DEF DeliverOrder, TypeOK
    <3>2. /\ ~rec'.current /\ rec'.pc = rec.pc /\ rec'.order = rec.order
          /\ rec'.desired = rec.desired
      BY <3>1 DEF Busy
    <3> QED
      BY <2>2, <2>4, <3>2 DEF CopiesInv, ApplyHeld, WantedInv, StatusInv
  <2> QED
    BY <2>3, <2>4
<1>8. CASE UNCHANGED orderLog /\ rec' = Idle
  BY <1>8 DEF CopiesInv, ApplyHeld, WantedInv, StatusInv
<1>9. CASE UNCHANGED <<orderLog, rec>>
  BY <1>9 DEF CopiesInv, ApplyHeld, WantedInv, StatusInv
<1> QED
  BY <1>1, <1>2, <1>3, <1>4, <1>5, <1>6, <1>7, <1>8, <1>9
  DEF Next, Worker, Reconcile, Environment, ReconcileGone, RejectArtifact, Return, Fail, Crash,
      Resync, DeliverArtifactWorkflow, ChangeCluster, DeleteByHand, CollectGarbage,
      AWAddsFinalizer, AWRemovesFinalizer, AWSetsPhase, AWWrites, vars

\* In its life an Order keeps its UID, and its finalizer while it is there; a
\* new one has a UID that no ArtifactWorkflow knows.
LEMMA LifeOfOrder ==
  ASSUME TypeOK, [Life!Next]_(Life!vars), StoredOrder' # Absent
  PROVE  \/ /\ StoredOrder # Absent /\ StoredOrder'.uid = StoredOrder.uid
            /\ StoredOrder.finalizer => StoredOrder'.finalizer
         \/ /\ StoredOrder = Absent /\ UNCHANGED StoredAWs
            /\ \A s \in Shas : StoredAWs[s] # Absent => StoredAWs[s].owner # StoredOrder'.uid
<1>0. StoredOrder # Absent => StoredOrder \in Order
  BY StoredTypes DEF OrderVersions
<1>1. CASE UNCHANGED Life!vars
  BY <1>1 DEF Life!vars
<1>2. ASSUME NEW spec \in OrderSpecs, NEW u \in UIDs, Life!Create(spec, u)
      PROVE  /\ StoredOrder = Absent /\ UNCHANGED StoredAWs
             /\ \A s \in Shas : StoredAWs[s] # Absent => StoredAWs[s].owner # StoredOrder'.uid
  BY <1>2 DEF Life!Create
<1>3. ASSUME NEW spec \in OrderSpecs, Life!Edit(spec)
      PROVE  /\ StoredOrder # Absent /\ StoredOrder'.uid = StoredOrder.uid
             /\ StoredOrder.finalizer => StoredOrder'.finalizer
  BY <1>0, <1>3 DEF Life!Edit, Order
<1>4. ASSUME Life!Protect \/ Life!Clear
      PROVE  /\ StoredOrder # Absent /\ StoredOrder'.uid = StoredOrder.uid
             /\ StoredOrder.finalizer => StoredOrder'.finalizer
  BY <1>0, <1>4 DEF Life!Protect, Life!Clear, Order
<1>5. ASSUME Life!Delete
      PROVE  /\ StoredOrder # Absent /\ StoredOrder'.uid = StoredOrder.uid
             /\ StoredOrder.finalizer => StoredOrder'.finalizer
  BY <1>0, <1>5 DEF Life!Delete, Order
<1>6. ASSUME NEW desired, NEW phase, Life!Report(desired, phase)
      PROVE  /\ StoredOrder # Absent /\ StoredOrder'.uid = StoredOrder.uid
             /\ StoredOrder.finalizer => StoredOrder'.finalizer
  BY <1>0, <1>6 DEF Life!Report, Order
<1>7. ASSUME NEW s \in Shas, \/ Life!CreateArtifactWorkflow(s) \/ Life!DeleteArtifactWorkflow(s)
                             \/ Life!RunArtifactWorkflow(s)
      PROVE  UNCHANGED StoredOrder
  BY <1>7 DEF Life!CreateArtifactWorkflow, Life!DeleteArtifactWorkflow, Life!RunArtifactWorkflow
<1>8. ~Life!Release
  BY DEF Life!Release
<1> QED
  BY <1>1, <1>2, <1>3, <1>4, <1>5, <1>6, <1>7, <1>8 DEF Life!Next

\* In its life an ArtifactWorkflow keeps its owner; a new one is owned by the
\* Order that is there, which is protected.
LEMMA LifeOfArtifactWorkflow ==
  ASSUME TypeOK, [Life!Next]_(Life!vars), NEW s \in Shas, StoredAWs'[s] # Absent
  PROVE  \/ StoredAWs[s] # Absent /\ StoredAWs'[s].owner = StoredAWs[s].owner
         \/ /\ StoredOrder # Absent /\ StoredOrder.finalizer /\ UNCHANGED StoredOrder
            /\ StoredAWs'[s].owner = StoredOrder.uid
<1>0. /\ StoredAWs[s] # Absent => StoredAWs[s] \in ArtifactWorkflow
      /\ DOMAIN StoredAWs = Shas
  BY StoredTypes DEF AWVersions, StoredAWs
<1>1. CASE UNCHANGED StoredAWs
  BY <1>1
<1>2. ASSUME NEW t \in Shas, Life!CreateArtifactWorkflow(t)
      PROVE  \/ StoredAWs'[s] = StoredAWs[s]
             \/ /\ StoredOrder # Absent /\ StoredOrder.finalizer /\ UNCHANGED StoredOrder
                /\ StoredAWs'[s].owner = StoredOrder.uid
  BY <1>0, <1>2 DEF Life!CreateArtifactWorkflow
<1>3. ASSUME NEW t \in Shas, Life!DeleteArtifactWorkflow(t)
      PROVE  StoredAWs[s] # Absent /\ StoredAWs'[s].owner = StoredAWs[s].owner
  <2>1. CASE t = s
    <3>1. StoredAWs'[s] = [StoredAWs[s] EXCEPT !.deleting = TRUE] /\ StoredAWs[s] # Absent
      BY <1>0, <1>3, <2>1 DEF Life!DeleteArtifactWorkflow
    <3> QED
      BY <1>0, <3>1 DEF ArtifactWorkflow
  <2>2. CASE t # s
    BY <1>0, <1>3, <2>2 DEF Life!DeleteArtifactWorkflow
  <2> QED
    BY <2>1, <2>2
<1>4. ASSUME NEW t \in Shas, Life!RunArtifactWorkflow(t)
      PROVE  StoredAWs[s] # Absent /\ StoredAWs'[s].owner = StoredAWs[s].owner
  <2>1. CASE t = s
    <3>1. StoredAWs[s] \in ArtifactWorkflow /\ StoredAWs[s] # Absent
      BY <1>0, <1>4, <2>1 DEF Life!RunArtifactWorkflow
    <3>2. \/ StoredAWs'[s] = [StoredAWs[s] EXCEPT !.finalizer = TRUE]
          \/ \E p : StoredAWs'[s] = [StoredAWs[s] EXCEPT !.phase = p]
      BY <1>0, <1>4, <2>1 DEF Life!RunArtifactWorkflow
    <3> QED
      BY <3>1, <3>2 DEF ArtifactWorkflow
  <2>2. CASE t # s
    <3>1. StoredAWs'[s] = StoredAWs[s]
      BY <1>0, <1>4, <2>2 DEF Life!RunArtifactWorkflow
    <3> QED
      BY <3>1
  <2> QED
    BY <2>1, <2>2
<1> QED
  BY <1>1, <1>2, <1>3, <1>4 DEF Life!Next, Life!vars, Life!Create, Life!Edit, Life!Protect,
     Life!Delete, Life!Report, Life!Clear, Life!Release

\* A step in the life of an Order keeps owners protected.
LEMMA OwnerStays ==
  ASSUME TypeOK, OwnerProtected, [Life!Next]_(Life!vars)
  PROVE  OwnerProtected'
<1> SUFFICES ASSUME NEW s \in Shas, StoredAWs'[s] # Absent, StoredOrder' # Absent,
                    StoredAWs'[s].owner = StoredOrder'.uid
             PROVE  StoredOrder'.finalizer
  BY DEF OwnerProtected, Exists, StoredAWs, StoredOrder
<1>1. /\ StoredAWs[s] # Absent /\ StoredOrder # Absent /\ StoredAWs[s].owner = StoredOrder.uid
        => StoredOrder.finalizer
  BY DEF OwnerProtected, Exists, StoredAWs, StoredOrder
<1> QED
  BY <1>1, LifeOfOrder, LifeOfArtifactWorkflow

\* UIDs are given out in turn.
LEMMA NumberedStays ==
  ASSUME TypeOK, TypeOK', OrderInv, Numbered, [Next]_vars, [Life!Next]_(Life!vars)
  PROVE  Numbered'
<1>1. userOps \in Nat /\ userOps' \in Nat /\ userOps <= userOps'
  <2>1. userOps \in Nat
    BY InstanceAssumption DEF TypeOK
  <2>2. userOps' = userOps \/ userOps' = userOps + 1
    BY DEF Next, Worker, Reconcile, Environment, ReconcileGone, ReconcileDeleting, ReconcileNew,
        ReconcileOrder, Cleanup, CreateArtifactWorkflow, RejectArtifact, DeleteArtifactWorkflow,
        CleanupStatus, RemoveFinalizer, AddFinalizer, SyncPhases, UpdateStatus, Fail, Crash,
        DeliverOrder, Resync, DeliverArtifactWorkflow, CreateOrder, EditOrder, DeleteOrder,
        ChangeCluster, DeleteByHand, CollectGarbage, AWAddsFinalizer, AWRemovesFinalizer,
        AWSetsPhase, AWWrites, vars
  <2> QED
    BY <2>1, <2>2
<1>2. /\ StoredOrder # Absent => StoredOrder.uid \in Nat /\ StoredOrder.uid <= userOps
      /\ \A s \in Shas : StoredAWs[s] # Absent =>
           StoredAWs[s].owner \in Nat /\ StoredAWs[s].owner <= userOps
  <2>1. StoredOrder # Absent => StoredOrder.uid \in Nat
    BY StoredTypes, InstanceAssumption DEF OrderVersions, Order, UIDs
  <2>2. \A s \in Shas : StoredAWs[s] # Absent => StoredAWs[s].owner \in Nat
    BY StoredTypes, InstanceAssumption DEF AWVersions, ArtifactWorkflow, UIDs
  <2> QED
    BY <2>1, <2>2 DEF Numbered, Exists, StoredOrder, StoredAWs
<1>3. ASSUME StoredOrder = Absent, StoredOrder' # Absent PROVE StoredOrder'.uid = userOps'
  <2>1. CASE DeleteOrder \/ \E spec \in OrderSpecs : CreateOrder(spec) \/ EditOrder(spec)
    <3>1. PICK v \in OrderVersions :
            /\ orderLog' = Append(orderLog, v)
            /\ \/ \E spec \in OrderSpecs :
                    v = [uid |-> userOps', deleting |-> FALSE, finalizer |-> FALSE,
                         spec |-> spec, status |-> NoAWs]
               \/ Stored(orderLog) \in Order
      BY <2>1, UserWrites
    <3>2. Stored(orderLog) \notin Order
      BY <1>3, AbsentAssumption DEF StoredOrder
    <3>3. StoredOrder' = v
      BY <3>1, Histories, AppendVersion DEF StoredOrder
    <3> QED
      BY <3>1, <3>2, <3>3
  <2>2. CASE CleanupStatus \/ RemoveFinalizer \/ AddFinalizer \/ UpdateStatus
    <3>1. orderLog' # orderLog
      BY <1>3 DEF StoredOrder
    <3>2. Stored(orderLog) \in Order
      BY <2>2, <3>1, UpdateWrites
    <3> QED
      BY <1>3, <3>2, AbsentAssumption DEF StoredOrder
  <2>3. CASE DeliverOrder
    <3>1. Stored(Tail(orderLog)) = Stored(orderLog)
      BY <2>3, Histories, DeliverVersion DEF DeliverOrder
    <3> QED
      BY <1>3, <2>3, <3>1 DEF DeliverOrder, StoredOrder
  <2>4. CASE UNCHANGED orderLog
    BY <1>3, <2>4 DEF StoredOrder
  <2> QED
    BY <2>1, <2>2, <2>3, <2>4
    DEF Next, Worker, Reconcile, Environment, ReconcileGone, ReconcileDeleting, ReconcileNew,
        ReconcileOrder, Cleanup, CreateArtifactWorkflow, RejectArtifact, DeleteArtifactWorkflow,
        SyncPhases, Fail, Crash, Resync, DeliverArtifactWorkflow, ChangeCluster, DeleteByHand,
        CollectGarbage, AWAddsFinalizer, AWRemovesFinalizer, AWSetsPhase, AWWrites, vars
<1>4. ASSUME StoredOrder' # Absent PROVE StoredOrder'.uid <= userOps'
  <2>1. CASE StoredOrder = Absent
    BY <1>1, <1>3, <1>4, <2>1
  <2>2. CASE StoredOrder # Absent
    <3>1. StoredOrder'.uid = StoredOrder.uid
      BY <1>4, <2>2, LifeOfOrder
    <3> QED
      BY <1>1, <1>2, <2>2, <3>1
  <2> QED
    BY <2>1, <2>2
<1>5. ASSUME NEW s \in Shas, StoredAWs'[s] # Absent PROVE StoredAWs'[s].owner <= userOps'
  <2>1. CASE StoredAWs[s] # Absent /\ StoredAWs'[s].owner = StoredAWs[s].owner
    BY <1>1, <1>2, <2>1
  <2>2. CASE StoredOrder # Absent /\ StoredAWs'[s].owner = StoredOrder.uid
    BY <1>1, <1>2, <2>2
  <2> QED
    BY <1>5, <2>1, <2>2, LifeOfArtifactWorkflow
<1> QED
  BY <1>4, <1>5 DEF Numbered, Exists, StoredOrder, StoredAWs

-----------------------------------------------------------------------------
(* The theorems *)

\* The inductive invariant of the refinement: the Order a reconcile creates
\* ArtifactWorkflows for is there, however old the copy it works from.
THEOREM LifeInvariant == Spec => []LifeInv
<1>1. Init => LifeInv
  <2> SUFFICES ASSUME Init PROVE LifeInv
    OBVIOUS
  <2>1. Held(<<Absent>>)
    BY DEF Held, Live
  <2>2. Stored(orderLog) = Absent /\ \A s \in Shas : Stored(awLog[s]) = Absent
    BY DEF Init, Stored
  <2> QED
    BY <2>1, <2>2 DEF Init, LifeInv, ApplyHeld, Numbered, OwnerProtected, Exists, WantedInv, StatusInv
<1>2. TypeOK /\ TypeOK' /\ OrderInv /\ LifeInv /\ [Next]_vars => LifeInv'
  <2> SUFFICES ASSUME TypeOK, TypeOK', OrderInv, LifeInv, [Next]_vars PROVE LifeInv'
    OBVIOUS
  <2>1. CopiesInv'
    BY CopiesInductive DEF LifeInv, CopiesInv
  <2>2. [Life!Next]_(Life!vars)
    BY StepImplements
  <2>3. OwnerProtected' /\ Numbered'
    BY <2>2, OwnerStays, NumberedStays DEF LifeInv
  <2> QED
    BY <2>1, <2>3 DEF LifeInv, CopiesInv
<1> QED
  BY <1>1, <1>2, TypeCorrect, OrderInvariant, PTL DEF Spec

\* An Order that owns ArtifactWorkflows has the finalizer of the controller.
THEOREM OwnerAlwaysProtected == Spec => []OwnerProtected
<1>1. LifeInv => OwnerProtected
  BY DEF LifeInv
<1> QED
  BY <1>1, LifeInvariant, PTL

\* The Order controller, with caches that lag, conflicts, failures and crashes,
\* implements the life of an Order.
THEOREM ControllerImplementsOrderLife == Spec => ImplementsOrderLife
<1>1. Init => Life!Init
  BY DEF Init, Life!Init, StoredOrder, StoredAWs, Stored
<1>2. TypeOK /\ OrderInv /\ LifeInv /\ [Next]_vars => [Life!Next]_(Life!vars)
  BY StepImplements
<1> QED
  BY <1>1, <1>2, TypeCorrect, OrderInvariant, LifeInvariant, PTL
     DEF Spec, ImplementsOrderLife, Life!Spec
============================================================================
