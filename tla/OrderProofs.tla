----------------------------- MODULE OrderProofs -----------------------------
(***************************************************************************)
(* Proofs about OrderController, for any Orders, Endpoints and Secrets,    *)
(* any lag of the caches and any number of user operations and failures.   *)
(***************************************************************************)
EXTENDS OrderController, ObjectHistoryTheorems, WellFoundedInduction

OrderVersions == Order \union {Absent}

AWVersions == ArtifactWorkflow \union {Absent}

-----------------------------------------------------------------------------
(* The desired state *)

\* A non-empty set of indices has a last one.
LEMMA LastIndex ==
  ASSUME NEW n \in Nat, NEW S \in SUBSET (1..n), S # {}
  PROVE  Max(S) \in S
<1> DEFINE T == {t \in 0..n : n - t \in S}
           R == OpToRel(<, Nat)
<1>1. T \subseteq Nat
  OBVIOUS
<1>2. T # {}
  <2>1. PICK i \in S : TRUE
    OBVIOUS
  <2>2. n - i \in 0..n /\ n - (n - i) = i
    OBVIOUS
  <2>3. n - i \in T
    BY <2>2
  <2> QED
    BY <2>3
<1>3. PICK t \in T : \A y \in T : ~ (<<y, t>> \in R)
  BY <1>1, <1>2, NatLessThanWellFounded, WFMin
<1>4. ASSUME NEW j \in S PROVE n - t >= j
  <2>1. n - j \in 0..n /\ n - (n - j) = j
    OBVIOUS
  <2>2. n - j \in T
    BY <2>1
  <2>3. <<n - j, t>> \notin R
    BY <1>3, <2>2
  <2>4. ~(n - j < t)
    <3>1. <<n - j, t>> \in Nat \X Nat
      BY <2>1
    <3>2. <<n - j, t>>[1] = n - j /\ <<n - j, t>>[2] = t
      OBVIOUS
    <3> QED
      BY <2>3, <3>1, <3>2 DEF OpToRel
  <2> QED
    BY <2>4
<1>5. n - t \in S
  OBVIOUS
<1> QED
  BY <1>4, <1>5 DEF Max

\* What is hashed for an artifact whose Endpoints are fetched.
LEMMA ShaType ==
  ASSUME NEW spec \in OrderSpecs, NEW c \in Clusters, AllFetched(spec, c),
         NEW i \in DOMAIN spec.artifacts
  PROVE  Sha(spec, c, spec.artifacts[i]) \in Shas
<1> DEFINE a == spec.artifacts[i]
           src == SrcRefName(spec, a)
           dst == DstRefName(spec, a)
<1>1. spec \in OrderSpec /\ c \in Cluster
  BY InstanceAssumption
<1>2. a \in Artifact
  BY <1>1 DEF OrderSpec
<1>3. src \in Refs /\ dst \in Refs
  BY <1>1, <1>2 DEF SrcRefName, DstRefName, Artifact, OrderSpec
<1>4. Fetched(c, src) /\ Fetched(c, dst)
  BY DEF AllFetched
<1>5. src \in Endpoints /\ dst \in Endpoints
  BY <1>3, <1>4 DEF Fetched, Refs
<1>6. c.endpoints[src] \in Endpoint /\ c.endpoints[dst] \in Endpoint
  BY <1>1, <1>4, <1>5 DEF Fetched, Cluster
<1> HIDE DEF src, dst
<1>7. /\ c.endpoints[src].generation \in {EndpointGeneration}
      /\ c.endpoints[dst].generation \in {EndpointGeneration}
      /\ c.endpoints[src].secretRef \in SecretRefs
      /\ c.endpoints[dst].secretRef \in SecretRefs
  BY <1>6 DEF Endpoint
<1>8. Sha(spec, c, a) =
        [type |-> a.type, raw |-> a.raw,
         srcEndpoint |-> src, srcGeneration |-> c.endpoints[src].generation,
         dstEndpoint |-> dst, dstGeneration |-> c.endpoints[dst].generation,
         srcSecret |-> c.endpoints[src].secretRef, dstSecret |-> c.endpoints[dst].secretRef]
  BY DEF Sha, src, dst
<1>9. a.type \in Types /\ a.raw \in Raws
  BY <1>2 DEF Artifact
<1> HIDE DEF a
<1> QED
  BY <1>5, <1>7, <1>8, <1>9 DEF Shas, a

\* The desired ArtifactWorkflows and the indices of their artifacts.
LEMMA DesiredType ==
  ASSUME NEW spec \in OrderSpecs, NEW c \in Clusters, AllFetched(spec, c)
  PROVE  DesiredAWs(spec, c) \in UNION {[S -> Indices] : S \in SUBSET Shas}
<1> DEFINE I == DOMAIN spec.artifacts
           shaAt(i) == Sha(spec, c, spec.artifacts[i])
           S == {shaAt(i) : i \in I}
           at(s) == {i \in I : shaAt(i) = s}
<1>1. \A i \in I : shaAt(i) \in Shas
  BY ShaType
<1>2. PICK n \in Nat : I = 1..n
  <2>1. spec.artifacts \in Seq(Artifact)
    BY InstanceAssumption DEF OrderSpec
  <2> QED
    BY <2>1
<1>3. I \subseteq Indices
  BY DEF Indices
<1>4. DesiredAWs(spec, c) = [s \in S |-> Max(at(s))]
  BY DEF DesiredAWs
<1> HIDE DEF shaAt
<1>5. ASSUME NEW s \in S PROVE Max(at(s)) \in Indices
  <2>1. at(s) # {} /\ at(s) \in SUBSET (1..n)
    BY <1>2
  <2>2. Max(at(s)) \in at(s)
    BY <2>1, LastIndex
  <2> QED
    BY <1>3, <2>2
<1>6. S \in SUBSET Shas
  BY <1>1
<1> HIDE DEF S, at
<1>7. DesiredAWs(spec, c) \in [S -> Indices]
  BY <1>4, <1>5
<1> QED
  BY <1>6, <1>7

-----------------------------------------------------------------------------
(* Type correctness *)

Desireds == UNION {[S -> Indices] : S \in SUBSET Shas}

\* The histories are what the lemmas on histories speak of.
LEMMA Histories ==
  TypeOK => /\ IsHistory(orderLog, OrderVersions)
            /\ \A s \in Shas : IsHistory(awLog[s], AWVersions)
BY DEF TypeOK, IsHistory, OrderVersions, AWVersions

\* Removing what is marked and has no finalizer keeps the type.
LEMMA PurgeType ==
  /\ \A o \in Order : Purge(o) \in OrderVersions
  /\ \A aw \in ArtifactWorkflow : Purge(aw) \in AWVersions
BY DEF Purge, OrderVersions, AWVersions

\* Deleting an object of a history leaves a history.
LEMMA DeleteType ==
  ASSUME NEW h
  PROVE  /\ IsHistory(h, OrderVersions) => IsHistory(Delete(h), OrderVersions)
         /\ IsHistory(h, AWVersions) => IsHistory(Delete(h), AWVersions)
<1> DEFINE marked == [Stored(h) EXCEPT !.deleting = TRUE]
<1>1. CASE ~Exists(h)
  BY <1>1 DEF Delete
<1>2. CASE Exists(h)
  <2>1. ASSUME IsHistory(h, OrderVersions) PROVE IsHistory(Delete(h), OrderVersions)
    <3>1. Stored(h) \in Order
      BY <1>2, <2>1, HistoryEnds DEF Exists, OrderVersions
    <3>2. marked \in Order
      BY <3>1 DEF Order
    <3> QED
      BY <1>2, <2>1, <3>2, PurgeType, WriteVersion DEF Delete
  <2>2. ASSUME IsHistory(h, AWVersions) PROVE IsHistory(Delete(h), AWVersions)
    <3>1. Stored(h) \in ArtifactWorkflow
      BY <1>2, <2>2, HistoryEnds DEF Exists, AWVersions
    <3>2. marked \in ArtifactWorkflow
      BY <3>1 DEF ArtifactWorkflow
    <3> QED
      BY <1>2, <2>2, <3>2, PurgeType, WriteVersion DEF Delete
  <2> QED
    BY <2>1, <2>2
<1> QED
  BY <1>1, <1>2

\* The empty status and the empty desired state.
LEMMA NoAWsType == NoAWs \in Statuses /\ NoAWs \in Desireds /\ DOMAIN NoAWs = {}
<1>1. {} \in SUBSET Shas
  OBVIOUS
<1>2. NoAWs \in [{} -> StatusEntry] /\ NoAWs \in [{} -> Indices] /\ DOMAIN NoAWs = {}
  BY DEF NoAWs
<1> QED
  BY <1>1, <1>2 DEF Statuses, Desireds

\* A reconcile begins with a copy of the cached Order.
LEMMA BeginType ==
  ASSUME TypeOK, Cached(orderLog) # Absent,
         NEW pc \in {"cleanup", "removeFinalizer", "addFinalizer", "apply"},
         NEW desired \in Desireds, NEW creates \in SUBSET Shas,
         NEW deletes \in SUBSET Shas, NEW todo \in SUBSET Shas,
         Begin(pc, desired, creates, deletes, todo)
  PROVE  rec' \in Busy /\ queued' \in BOOLEAN
<1>1. Cached(orderLog) \in Order
  BY Histories, HistoryEnds DEF OrderVersions
<1>2. rec' = [pc |-> pc, order |-> Cached(orderLog), current |-> TRUE, desired |-> desired,
              creates |-> creates, deletes |-> deletes, todo |-> todo]
      /\ queued' = FALSE
  BY DEF Begin
<1> QED
  BY <1>1, <1>2 DEF Busy, Desireds

\* An update keeps the types.
LEMMA UpdateType ==
  ASSUME TypeOK, NEW obj \in Order, NEW again \in BOOLEAN, Update(obj, again)
  PROVE  /\ orderLog' \in Seq(OrderVersions) /\ orderLog' # <<>>
         /\ rec' = Idle /\ queued' \in BOOLEAN
<1>1. IsHistory(Write(orderLog, Purge(obj)), OrderVersions)
  BY Histories, PurgeType, WriteVersion
<1> QED
  BY <1>1, Histories DEF Update, Return, TypeOK, IsHistory

\* A step that changes the history of one ArtifactWorkflow.
LEMMA OneAWType ==
  ASSUME TypeOK, NEW s \in Shas, NEW h, IsHistory(h, AWVersions),
         awLog' = [awLog EXCEPT ![s] = h]
  PROVE  /\ awLog' \in [Shas -> Seq(AWVersions)]
         /\ \A t \in Shas : awLog'[t] # <<>>
BY DEF TypeOK, IsHistory, AWVersions

\* The remaining fields of a reconcile in progress.
LEMMA LoopType ==
  ASSUME rec \in Busy, NEW s
  PROVE  [rec EXCEPT !.todo = @ \ {s}] \in Busy
BY DEF Busy

\* The new status is a status.
LEMMA NextStatusType ==
  ASSUME TypeOK, rec \in Busy,
         \A s \in DOMAIN rec.desired \ rec.creates : Cached(awLog[s]) # Absent
  PROVE  NextStatus \in Statuses
<1>1. rec.desired \in Desireds
  BY DEF Busy, Desireds
<1>2. PICK S \in SUBSET Shas : rec.desired \in [S -> Indices]
  BY <1>1 DEF Desireds
<1>3. ASSUME NEW s \in S
      PROVE  [index |-> rec.desired[s],
              phase |-> IF s \in rec.creates THEN WorkflowUnknown ELSE Cached(awLog[s]).phase]
               \in StatusEntry
  <2>1. rec.desired[s] \in Indices
    BY <1>2
  <2>2. WorkflowUnknown \in Phases
    BY DEF Phases
  <2>3. ASSUME s \notin rec.creates PROVE Cached(awLog[s]).phase \in Phases
    <3>1. Cached(awLog[s]) # Absent
      BY <1>2, <2>3
    <3>2. Cached(awLog[s]) \in ArtifactWorkflow
      BY <1>2, <3>1, Histories, HistoryEnds DEF AWVersions
    <3> QED
      BY <3>2 DEF ArtifactWorkflow
  <2> QED
    BY <2>1, <2>2, <2>3 DEF StatusEntry
<1>4. NextStatus \in [S -> StatusEntry]
  BY <1>2, <1>3 DEF NextStatus
<1> QED
  BY <1>4 DEF Statuses

\* The steps of the worker.
LEMMA WorkerType == TypeOK /\ Worker => TypeOK'
<1> SUFFICES ASSUME TypeOK, Worker PROVE TypeOK'
  OBVIOUS
<1> USE InstanceAssumption
<1>1. CASE ReconcileGone
  BY <1>1 DEF ReconcileGone, TypeOK
<1>2. CASE ReconcileDeleting
  <2> DEFINE listed == DOMAIN Cached(orderLog).status
  <2>1. Cached(orderLog) \in Order
    BY <1>2, Histories, HistoryEnds DEF ReconcileDeleting, OrderVersions
  <2>2. listed \in SUBSET Shas
    BY <2>1 DEF Order, Statuses
  <2>3. Begin(IF listed # {} THEN "cleanup" ELSE "removeFinalizer", NoAWs, {}, {}, listed)
    BY <1>2 DEF ReconcileDeleting
  <2>4. rec' \in Busy /\ queued' \in BOOLEAN
    BY <1>2, <2>2, <2>3, BeginType, NoAWsType DEF ReconcileDeleting
  <2> QED
    BY <1>2, <2>4 DEF ReconcileDeleting, TypeOK
<1>3. CASE ReconcileNew
  <2>1. rec' \in Busy /\ queued' \in BOOLEAN
    BY <1>3, BeginType, NoAWsType DEF ReconcileNew
  <2> QED
    BY <1>3, <2>1 DEF ReconcileNew, TypeOK
<1>4. CASE ReconcileOrder
  <2> DEFINE order == Cached(orderLog)
             desired == DesiredAWs(order.spec, cluster)
             creates == DOMAIN desired \ DOMAIN order.status
             deletes == DOMAIN order.status \ DOMAIN desired
  <2>1. CASE ~AllFetched(order.spec, cluster)
    BY <1>4, <2>1 DEF ReconcileOrder, TypeOK
  <2>2. CASE AllFetched(order.spec, cluster)
    <3>1. order \in Order
      BY <1>4, Histories, HistoryEnds DEF ReconcileOrder, OrderVersions
    <3>2. order.spec \in OrderSpecs /\ DOMAIN order.status \in SUBSET Shas
      BY <3>1 DEF Order, Statuses
    <3>3. cluster \in Clusters
      BY DEF TypeOK
    <3>4. desired \in Desireds
      BY <2>2, <3>2, <3>3, DesiredType DEF Desireds
    <3>5. DOMAIN desired \in SUBSET Shas
      BY <3>4 DEF Desireds
    <3>6. Begin("apply", desired, creates, deletes, creates \union deletes)
      BY <1>4, <2>2 DEF ReconcileOrder
    <3> HIDE DEF desired
    <3>7. rec' \in Busy /\ queued' \in BOOLEAN
      BY <1>4, <3>2, <3>4, <3>5, <3>6, BeginType DEF ReconcileOrder
    <3> QED
      BY <1>4, <3>7 DEF ReconcileOrder, TypeOK
  <2> QED
    BY <2>1, <2>2
<1>5. ASSUME NEW s \in Shas, Cleanup(s) PROVE TypeOK'
  <2>1. rec \in Busy
    BY <1>5 DEF Cleanup, TypeOK, Idle
  <2>2. rec' \in Busy
    BY <1>5, <2>1, LoopType DEF Cleanup
  <2>3. awLog' \in [Shas -> Seq(AWVersions)] /\ \A t \in Shas : awLog'[t] # <<>>
    BY <1>5, Histories, DeleteType, OneAWType DEF Cleanup, TypeOK, AWVersions
  <2> QED
    BY <1>5, <2>2, <2>3 DEF Cleanup, TypeOK, AWVersions
<1>6. ASSUME NEW s \in Shas, CreateArtifactWorkflow(s) PROVE TypeOK'
  <2>1. rec \in Busy
    BY <1>6 DEF CreateArtifactWorkflow, TypeOK, Idle
  <2>2. rec' \in Busy
    BY <1>6, <2>1, LoopType DEF CreateArtifactWorkflow
  <2>3. NewArtifactWorkflow \in AWVersions
    BY <2>1 DEF NewArtifactWorkflow, ArtifactWorkflow, AWVersions, Phases, Busy, Order
  <2>4. IsHistory(awLog[s], AWVersions) /\ IsHistory(Append(awLog[s], NewArtifactWorkflow), AWVersions)
    BY <2>3, Histories, AppendVersion
  <2>5. awLog' \in [Shas -> Seq(AWVersions)] /\ \A t \in Shas : awLog'[t] # <<>>
    BY <1>6, <2>4, OneAWType DEF CreateArtifactWorkflow
  <2> QED
    BY <1>6, <2>2, <2>5 DEF CreateArtifactWorkflow, TypeOK, AWVersions
<1>7. ASSUME NEW s \in Shas, RejectArtifact(s) PROVE TypeOK'
  BY <1>7 DEF RejectArtifact, Return, TypeOK
<1>8. ASSUME NEW s \in Shas, DeleteArtifactWorkflow(s) PROVE TypeOK'
  <2>1. rec \in Busy
    BY <1>8 DEF DeleteArtifactWorkflow, TypeOK, Idle
  <2>2. rec' \in Busy
    BY <1>8, <2>1, LoopType DEF DeleteArtifactWorkflow
  <2>3. awLog' \in [Shas -> Seq(AWVersions)] /\ \A t \in Shas : awLog'[t] # <<>>
    BY <1>8, Histories, DeleteType, OneAWType DEF DeleteArtifactWorkflow
  <2> QED
    BY <1>8, <2>2, <2>3 DEF DeleteArtifactWorkflow, TypeOK, AWVersions
<1>9. CASE CleanupStatus
  <2>1. rec \in Busy
    BY <1>9 DEF CleanupStatus, TypeOK, Idle
  <2>2. [rec.order EXCEPT !.status = NoAWs] \in Order
    BY <2>1, NoAWsType DEF Busy, Order
  <2> QED
    BY <1>9, <2>2, UpdateType DEF CleanupStatus, TypeOK, OrderVersions
<1>10. CASE RemoveFinalizer
  <2>1. rec \in Busy
    BY <1>10 DEF RemoveFinalizer, TypeOK, Idle
  <2>2. [rec.order EXCEPT !.finalizer = FALSE] \in Order
    BY <2>1 DEF Busy, Order
  <2> QED
    BY <1>10, <2>2, UpdateType DEF RemoveFinalizer, TypeOK, OrderVersions
<1>11. CASE AddFinalizer
  <2>1. rec \in Busy
    BY <1>11 DEF AddFinalizer, TypeOK, Idle
  <2>2. [rec.order EXCEPT !.finalizer = TRUE] \in Order
    BY <2>1 DEF Busy, Order
  <2> QED
    BY <1>11, <2>2, UpdateType DEF AddFinalizer, TypeOK, OrderVersions
<1>12. CASE SyncPhases
  <2>1. rec \in Busy
    BY <1>12 DEF SyncPhases, TypeOK, Idle
  <2>2. CASE rec' = Idle
    BY <1>12, <2>2 DEF SyncPhases, Return, TypeOK
  <2>3. CASE rec' # Idle
    <3>1. /\ \A s \in DOMAIN rec.desired \ rec.creates : Cached(awLog[s]) # Absent
          /\ rec' = [rec EXCEPT !.pc = "updateStatus", !.order.status = NextStatus]
          /\ UNCHANGED queued
      BY <1>12, <2>3 DEF SyncPhases, Return
    <3>2. NextStatus \in Statuses
      BY <2>1, <3>1, NextStatusType
    <3>3. [rec.order EXCEPT !.status = NextStatus] \in Order
      BY <2>1, <3>2 DEF Busy, Order
    <3>4. rec' \in Busy
      BY <2>1, <3>1, <3>3 DEF Busy
    <3> QED
      BY <1>12, <3>1, <3>4 DEF SyncPhases, TypeOK
  <2> QED
    BY <2>2, <2>3
<1>13. CASE UpdateStatus
  <2>1. rec \in Busy
    BY <1>13 DEF UpdateStatus, TypeOK, Idle
  <2>2. rec.order \in Order
    BY <2>1 DEF Busy
  <2> QED
    BY <1>13, <2>2, UpdateType DEF UpdateStatus, TypeOK, OrderVersions
<1> QED
  BY <1>1, <1>2, <1>3, <1>4, <1>5, <1>6, <1>7, <1>8, <1>9, <1>10, <1>11, <1>12, <1>13
  DEF Worker, Reconcile

\* Users, the garbage collector and the other controller.
LEMMA EnvironmentType == TypeOK /\ Environment => TypeOK'
<1> SUFFICES ASSUME TypeOK, Environment PROVE TypeOK'
  OBVIOUS
<1> USE InstanceAssumption
<1>1. ASSUME NEW spec \in OrderSpecs, CreateOrder(spec) PROVE TypeOK'
  <2> DEFINE new == [uid |-> userOps + 1, deleting |-> FALSE, finalizer |-> FALSE,
                     spec |-> spec, status |-> NoAWs]
  <2>1. userOps + 1 \in UIDs
    BY <1>1 DEF CreateOrder, TypeOK, UIDs
  <2>2. new \in OrderVersions
    BY <2>1, NoAWsType DEF Order, OrderVersions
  <2>3. IsHistory(Append(orderLog, new), OrderVersions)
    BY <2>2, Histories, AppendVersion
  <2> QED
    BY <1>1, <2>3 DEF CreateOrder, TypeOK, IsHistory, OrderVersions
<1>2. ASSUME NEW spec \in OrderSpecs, EditOrder(spec) PROVE TypeOK'
  <2>1. Stored(orderLog) \in Order
    BY <1>2, Histories, HistoryEnds DEF EditOrder, Exists, OrderVersions
  <2>2. [Stored(orderLog) EXCEPT !.spec = spec] \in OrderVersions
    BY <2>1 DEF Order, OrderVersions
  <2>3. IsHistory(Append(orderLog, [Stored(orderLog) EXCEPT !.spec = spec]), OrderVersions)
    BY <2>2, Histories, AppendVersion
  <2> QED
    BY <1>2, <2>3 DEF EditOrder, TypeOK, IsHistory, OrderVersions
<1>3. CASE DeleteOrder
  <2>1. IsHistory(Delete(orderLog), OrderVersions)
    BY Histories, DeleteType
  <2> QED
    BY <1>3, <2>1 DEF DeleteOrder, TypeOK, IsHistory, OrderVersions
<1>4. ASSUME NEW c \in Clusters, ChangeCluster(c) PROVE TypeOK'
  BY <1>4 DEF ChangeCluster, TypeOK
<1>5. ASSUME NEW s \in Shas, DeleteByHand(s) \/ CollectGarbage(s) PROVE TypeOK'
  <2>1. awLog' \in [Shas -> Seq(AWVersions)] /\ \A t \in Shas : awLog'[t] # <<>>
    BY <1>5, Histories, DeleteType, OneAWType DEF DeleteByHand, CollectGarbage
  <2> QED
    BY <1>5, <2>1 DEF DeleteByHand, CollectGarbage, TypeOK, AWVersions
<1>6. ASSUME NEW s \in Shas, NEW obj \in AWVersions, AWWrites(s, obj) PROVE TypeOK'
  <2>1. IsHistory(Write(awLog[s], obj), AWVersions)
    BY Histories, WriteVersion
  <2>2. awLog' \in [Shas -> Seq(AWVersions)] /\ \A t \in Shas : awLog'[t] # <<>>
    BY <1>6, <2>1, OneAWType DEF AWWrites
  <2> QED
    BY <1>6, <2>2 DEF AWWrites, TypeOK, AWVersions
<1>7. ASSUME NEW s \in Shas, Exists(awLog[s])
      PROVE  /\ [Stored(awLog[s]) EXCEPT !.finalizer = TRUE] \in AWVersions
             /\ \A p \in Phases : [Stored(awLog[s]) EXCEPT !.phase = p] \in AWVersions
  <2>1. Stored(awLog[s]) \in ArtifactWorkflow
    BY <1>7, Histories, HistoryEnds DEF Exists, AWVersions
  <2> QED
    BY <2>1 DEF ArtifactWorkflow, AWVersions
<1>8. ASSUME NEW s \in Shas, AWAddsFinalizer(s) PROVE TypeOK'
  BY <1>6, <1>7, <1>8 DEF AWAddsFinalizer
<1>9. ASSUME NEW s \in Shas, AWRemovesFinalizer(s) PROVE TypeOK'
  BY <1>6, <1>9 DEF AWRemovesFinalizer, AWVersions
<1>10. ASSUME NEW s \in Shas, NEW p \in AWPhases, AWSetsPhase(s, p) PROVE TypeOK'
  BY <1>6, <1>7, <1>10 DEF AWSetsPhase
<1> QED
  BY <1>1, <1>2, <1>3, <1>4, <1>5, <1>8, <1>9, <1>10 DEF Environment

\* Every step of Next keeps the types.
LEMMA TypeInductive == TypeOK /\ [Next]_vars => TypeOK'
<1> SUFFICES ASSUME TypeOK, [Next]_vars PROVE TypeOK'
  OBVIOUS
<1>1. CASE Worker
  BY <1>1, WorkerType
<1>2. CASE Environment
  BY <1>2, EnvironmentType
<1>3. CASE Fail \/ Crash
  <2>1. faults' \in 0..MaxFaults
    <3>1. faults \in 0..MaxFaults /\ faults < MaxFaults /\ faults' = faults + 1
      BY <1>3 DEF Fail, Crash, TypeOK
    <3>2. MaxFaults \in Nat
      BY InstanceAssumption
    <3> QED
      BY <3>1, <3>2
  <2>2. rec' = Idle /\ queued' \in BOOLEAN
    BY <1>3 DEF Fail, Crash, Return
  <2> QED
    BY <1>3, <2>1, <2>2 DEF Fail, Crash, TypeOK
<1>4. CASE DeliverOrder
  <2>1. IsHistory(Tail(orderLog), OrderVersions)
    BY <1>4, Histories, DeliverVersion DEF DeliverOrder
  <2>2. rec' = Idle \/ rec' \in Busy
    BY <1>4 DEF DeliverOrder, TypeOK, Busy
  <2> QED
    BY <1>4, <2>1, <2>2 DEF DeliverOrder, TypeOK, IsHistory, OrderVersions
<1>5. ASSUME NEW s \in Shas, DeliverArtifactWorkflow(s) PROVE TypeOK'
  <2>1. IsHistory(Tail(awLog[s]), AWVersions)
    BY <1>5, Histories, DeliverVersion DEF DeliverArtifactWorkflow
  <2>2. awLog' \in [Shas -> Seq(AWVersions)] /\ \A t \in Shas : awLog'[t] # <<>>
    BY <1>5, <2>1, OneAWType DEF DeliverArtifactWorkflow
  <2> QED
    BY <1>5, <2>2 DEF DeliverArtifactWorkflow, TypeOK, AWVersions
<1>6. CASE Resync
  BY <1>6 DEF Resync, TypeOK
<1>7. CASE UNCHANGED vars
  BY <1>7 DEF vars, TypeOK
<1> QED
  BY <1>1, <1>2, <1>3, <1>4, <1>5, <1>6, <1>7 DEF Next

\* The variables start with their types.
LEMMA TypeInit == Init => TypeOK
<1> SUFFICES ASSUME Init PROVE TypeOK
  OBVIOUS
<1>1. <<Absent>> \in Seq(OrderVersions) /\ <<Absent>> \in Seq(AWVersions) /\ <<Absent>> # <<>>
  BY DEF OrderVersions, AWVersions
<1>2. userOps \in 0..MaxUserOps /\ faults \in 0..MaxFaults
  BY InstanceAssumption DEF Init
<1>3. /\ orderLog \in Seq(OrderVersions) /\ orderLog # <<>>
      /\ awLog \in [Shas -> Seq(AWVersions)] /\ \A s \in Shas : awLog[s] # <<>>
  BY <1>1 DEF Init
<1> QED
  BY <1>2, <1>3 DEF Init, TypeOK, OrderVersions, AWVersions

\* The variables of the Order controller keep their types: in particular, what
\* is hashed and the index of an artifact stay within their sets.
THEOREM TypeCorrect == Spec => []TypeOK
BY TypeInit, TypeInductive, PTL DEF Spec

-----------------------------------------------------------------------------
(* The inductive invariant *)

\* An Order has a finalizer before it has a status, and is not found marked
\* for deletion without one.
Version(order) ==
  order # Absent /\ ~order.finalizer => ~order.deleting /\ DOMAIN order.status = {}

\* Every version of the Order, cached, under way or stored, is sound.
Sound(h) == \A i \in 1..Len(h) : Version(h[i])

\* A current working copy is the cached version, but for the new status.  That
\* status is a change: it is not written otherwise.
CopyInv ==
  rec # Idle /\ rec.current =>
    LET cached == Cached(orderLog) IN
    /\ cached # Absent
    /\ rec.order = [cached EXCEPT !.status = rec.order.status]
    /\ rec.pc # "updateStatus" => rec.order = cached
    /\ rec.pc = "updateStatus" => rec.order.status # cached.status

\* What a reconcile has found out about its copy, up to its next call.
CallInv ==
  rec # Idle =>
    /\ Version(rec.order)
    /\ rec.pc \in {"cleanup", "removeFinalizer"} => rec.order.deleting
    /\ rec.pc = "removeFinalizer" => DOMAIN rec.order.status = {}
    /\ rec.pc = "addFinalizer" => ~rec.order.deleting /\ ~rec.order.finalizer
    /\ rec.pc \in {"apply", "updateStatus"} => ~rec.order.deleting /\ rec.order.finalizer
    /\ rec.pc = "apply" => /\ rec.creates = DOMAIN rec.desired \ DOMAIN rec.order.status
                           /\ rec.deletes = DOMAIN rec.order.status \ DOMAIN rec.desired

\* The versions of the Order are sound, and what a reconcile knows of its copy
\* still holds at its next call.
OrderInv == Sound(orderLog) /\ CopyInv /\ CallInv

\* A reconcile compares the status with what the Order asks for.
ApplyInv ==
  rec # Idle /\ rec.pc = "apply" =>
    /\ AllFetched(rec.order.spec, cluster)
    /\ rec.desired = DesiredAWs(rec.order.spec, cluster)

\* The controller rests only when all is done.  An event that makes the copy of
\* a reconcile outdated leaves a request in the queue.
RestInv ==
  /\ RestMeansDone
  /\ rec # Idle /\ ~queued => rec.current
  /\ ApplyInv

\* A new version, if sound, and a delivered event leave a history sound.
LEMMA SoundSteps ==
  ASSUME NEW h, IsHistory(h, OrderVersions), Sound(h)
  PROVE  /\ Version(Stored(h)) /\ Version(Cached(h))
         /\ \A v \in OrderVersions : Version(v) => Sound(Append(h, v)) /\ Sound(Write(h, v))
         /\ ~InSync(h) => Sound(Tail(h))
<1>1. Len(h) \in 1..Len(h) /\ 1 \in 1..Len(h) /\ Len(h) \in Nat
  BY HistoryEnds
<1>2. Version(Stored(h)) /\ Version(Cached(h))
  BY <1>1 DEF Sound, Stored, Cached
<1>3. ASSUME NEW v \in OrderVersions, Version(v)
      PROVE  Sound(Append(h, v)) /\ Sound(Write(h, v))
  <2> DEFINE t == Append(h, v)
  <2>1. Len(t) = Len(h) + 1 /\ t[Len(t)] = v /\ \A i \in 1..Len(h) : t[i] = h[i]
    BY AppendVersion DEF Stored
  <2> HIDE DEF t
  <2>2. ASSUME NEW i \in 1..Len(t) PROVE Version(t[i])
    <3>1. CASE i = Len(t)
      BY <1>3, <2>1, <3>1
    <3>2. CASE i # Len(t)
      <4>1. i \in 1..Len(h)
        BY <1>1, <2>1, <3>2
      <4> QED
        BY <2>1, <4>1 DEF Sound
    <3> QED
      BY <3>1, <3>2
  <2>3. Sound(t)
    BY <2>2 DEF Sound
  <2>4. Write(h, v) \in {h, t}
    BY WriteVersion DEF t
  <2> QED
    BY <2>3, <2>4 DEF t
<1>4. ASSUME ~InSync(h) PROVE Sound(Tail(h))
  <2> DEFINE t == Tail(h)
  <2>1. Len(t) = Len(h) - 1 /\ \A i \in 1..Len(t) : t[i] = h[i + 1]
    BY <1>4, DeliverVersion
  <2> HIDE DEF t
  <2>2. ASSUME NEW i \in 1..Len(t) PROVE Version(t[i])
    <3>1. i + 1 \in 1..Len(h)
      BY <1>1, <2>1
    <3> QED
      BY <2>1, <3>1 DEF Sound
  <2>3. Sound(t)
    BY <2>2 DEF Sound
  <2> QED
    BY <2>3 DEF t
<1> QED
  BY <1>2, <1>3, <1>4

\* An update that writes a sound version.
LEMMA UpdateInv ==
  ASSUME TypeOK, OrderInv, NEW obj \in Order, NEW again, Update(obj, again),
         Version(Purge(obj))
  PROVE  OrderInv'
<1>1. rec' = Idle
  BY DEF Update, Return
<1>2. Purge(obj) \in OrderVersions
  BY PurgeType
<1>3. Sound(orderLog)'
  BY <1>2, Histories, SoundSteps DEF Update, OrderInv
<1> QED
  BY <1>1, <1>3 DEF OrderInv, CopyInv, CallInv

\* A reconcile that begins knows the cached Order.
LEMMA BeginInv ==
  ASSUME TypeOK, OrderInv, UNCHANGED orderLog, Cached(orderLog) # Absent,
         NEW pc, NEW desired, NEW creates, NEW deletes, NEW todo,
         Begin(pc, desired, creates, deletes, todo),
         pc \in {"cleanup", "removeFinalizer", "addFinalizer", "apply"},
         pc \in {"cleanup", "removeFinalizer"} => Cached(orderLog).deleting,
         pc = "removeFinalizer" => DOMAIN Cached(orderLog).status = {},
         pc = "addFinalizer" => ~Cached(orderLog).deleting /\ ~Cached(orderLog).finalizer,
         pc = "apply" => /\ ~Cached(orderLog).deleting /\ Cached(orderLog).finalizer
                         /\ creates = DOMAIN desired \ DOMAIN Cached(orderLog).status
                         /\ deletes = DOMAIN Cached(orderLog).status \ DOMAIN desired
  PROVE  OrderInv'
<1> DEFINE c == Cached(orderLog)
<1>0. IsHistory(orderLog, OrderVersions) /\ Sound(orderLog)
  BY Histories DEF OrderInv
<1>1. Version(c) /\ c \in Order
  <2>1. Version(c)
    BY <1>0, SoundSteps
  <2>2. c \in OrderVersions
    BY <1>0, HistoryEnds
  <2> QED
    BY <2>1, <2>2 DEF OrderVersions
<1>2. /\ rec'.pc = pc /\ rec'.order = c /\ rec'.current
      /\ rec'.desired = desired /\ rec'.creates = creates /\ rec'.deletes = deletes
  BY DEF Begin
<1>3. c = [c EXCEPT !.status = c.status]
  BY <1>1 DEF Order
<1> QED
  BY <1>1, <1>2, <1>3 DEF OrderInv, CopyInv, CallInv

\* The steps of the worker.
LEMMA WorkerInv == TypeOK /\ OrderInv /\ Worker => OrderInv'
<1> SUFFICES ASSUME TypeOK, OrderInv, Worker PROVE OrderInv'
  OBVIOUS
<1>1. CASE ReconcileGone
  BY <1>1 DEF ReconcileGone, OrderInv, CopyInv, CallInv
<1>2. CASE ReconcileDeleting
  BY <1>2, BeginInv DEF ReconcileDeleting
<1>3. CASE ReconcileNew
  BY <1>3, BeginInv DEF ReconcileNew
<1>4. CASE ReconcileOrder
  <2>1. CASE UNCHANGED rec
    BY <1>4, <2>1 DEF ReconcileOrder, OrderInv, CopyInv, CallInv
  <2>2. CASE rec' # rec
    BY <1>4, <2>2, BeginInv DEF ReconcileOrder
  <2> QED
    BY <2>1, <2>2
<1>5. ASSUME NEW s \in Shas,
             Cleanup(s) \/ CreateArtifactWorkflow(s) \/ DeleteArtifactWorkflow(s)
      PROVE  OrderInv'
  <2>1. rec \in Busy /\ rec # Idle
    BY <1>5 DEF Cleanup, CreateArtifactWorkflow, DeleteArtifactWorkflow, TypeOK, Idle
  <2>2. rec' = [rec EXCEPT !.todo = @ \ {s}] /\ UNCHANGED orderLog
    BY <1>5 DEF Cleanup, CreateArtifactWorkflow, DeleteArtifactWorkflow
  <2>3. /\ rec'.pc = rec.pc /\ rec'.order = rec.order /\ rec'.current = rec.current
        /\ rec'.desired = rec.desired /\ rec'.creates = rec.creates /\ rec'.deletes = rec.deletes
    BY <2>1, <2>2 DEF Busy
  <2> QED
    BY <2>1, <2>2, <2>3 DEF OrderInv, CopyInv, CallInv
<1>6. ASSUME NEW s \in Shas, RejectArtifact(s) PROVE OrderInv'
  BY <1>6 DEF RejectArtifact, Return, OrderInv, CopyInv, CallInv
<1>7. CASE CleanupStatus
  <2> DEFINE obj == [rec.order EXCEPT !.status = NoAWs]
  <2>1. rec \in Busy
    BY <1>7 DEF CleanupStatus, TypeOK, Idle
  <2>2. obj \in Order /\ DOMAIN obj.status = {}
    BY <2>1, NoAWsType DEF Busy, Order
  <2>3. Version(Purge(obj))
    BY <2>2 DEF Version, Purge, Order
  <2> HIDE DEF obj
  <2>4. Update(obj, TRUE)
    BY <1>7 DEF CleanupStatus, obj
  <2> QED
    BY <2>2, <2>3, <2>4, UpdateInv
<1>8. CASE RemoveFinalizer
  <2> DEFINE obj == [rec.order EXCEPT !.finalizer = FALSE]
  <2>1. rec \in Busy /\ rec # Idle
    BY <1>8 DEF RemoveFinalizer, TypeOK, Idle
  <2>2. rec.order.deleting
    BY <1>8, <2>1 DEF RemoveFinalizer, OrderInv, CallInv
  <2>3. obj \in Order /\ obj.deleting /\ ~obj.finalizer
    BY <2>1, <2>2 DEF Busy, Order
  <2>4. Version(Purge(obj))
    BY <2>3 DEF Version, Purge
  <2> HIDE DEF obj
  <2>5. Update(obj, FALSE)
    BY <1>8 DEF RemoveFinalizer, obj
  <2> QED
    BY <2>3, <2>4, <2>5, UpdateInv
<1>9. CASE AddFinalizer
  <2> DEFINE obj == [rec.order EXCEPT !.finalizer = TRUE]
  <2>1. rec \in Busy
    BY <1>9 DEF AddFinalizer, TypeOK, Idle
  <2>2. obj \in Order /\ obj.finalizer
    BY <2>1 DEF Busy, Order
  <2>3. Version(Purge(obj))
    BY <2>2 DEF Version, Purge
  <2> HIDE DEF obj
  <2>4. Update(obj, FALSE)
    BY <1>9 DEF AddFinalizer, obj
  <2> QED
    BY <2>2, <2>3, <2>4, UpdateInv
<1>10. CASE SyncPhases
  <2>1. rec \in Busy /\ rec # Idle /\ rec.pc = "apply" /\ UNCHANGED orderLog
    BY <1>10 DEF SyncPhases, TypeOK, Idle
  <2>2. CASE rec' = Idle
    BY <2>1, <2>2 DEF OrderInv, CopyInv, CallInv
  <2>3. CASE rec' # Idle
    <3>1. /\ rec' = [rec EXCEPT !.pc = "updateStatus", !.order.status = NextStatus]
          /\ \/ rec.creates # {} \/ rec.deletes # {}
             \/ \E s \in DOMAIN rec.desired \ rec.creates :
                  rec.order.status[s].phase # Cached(awLog[s]).phase
      BY <1>10, <2>3 DEF SyncPhases, Return
    <3>2. rec.order \in Order
      BY <2>1 DEF Busy
    <3>3. /\ rec'.pc = "updateStatus" /\ rec'.current = rec.current
          /\ rec'.order = [rec.order EXCEPT !.status = NextStatus]
      BY <2>1, <3>1 DEF Busy
    <3>4. /\ rec'.order.status = NextStatus
          /\ rec'.order.deleting = rec.order.deleting /\ rec'.order.finalizer = rec.order.finalizer
      BY <3>2, <3>3 DEF Order
    <3>5. NextStatus # rec.order.status
      <4>1. DOMAIN NextStatus = DOMAIN rec.desired
        BY DEF NextStatus
      <4>2. /\ rec.creates = DOMAIN rec.desired \ DOMAIN rec.order.status
            /\ rec.deletes = DOMAIN rec.order.status \ DOMAIN rec.desired
        BY <2>1 DEF OrderInv, CallInv
      <4>3. CASE rec.creates # {} \/ rec.deletes # {}
        BY <4>1, <4>2, <4>3
      <4>4. ASSUME NEW s \in DOMAIN rec.desired \ rec.creates,
                   rec.order.status[s].phase # Cached(awLog[s]).phase
            PROVE  NextStatus # rec.order.status
        <5>1. NextStatus[s].phase = Cached(awLog[s]).phase
          BY <4>4 DEF NextStatus
        <5> QED
          BY <4>4, <5>1
      <4> QED
        BY <3>1, <4>3, <4>4
    <3>6. CopyInv'
      <4> SUFFICES ASSUME rec.current
                   PROVE  /\ Cached(orderLog) # Absent
                          /\ rec'.order = [Cached(orderLog) EXCEPT !.status = rec'.order.status]
                          /\ rec'.order.status # Cached(orderLog).status
        BY <2>1, <2>3, <3>3 DEF CopyInv
      <4>1. Cached(orderLog) # Absent /\ rec.order = Cached(orderLog)
        BY <2>1 DEF OrderInv, CopyInv
      <4> QED
        BY <3>3, <3>4, <3>5, <4>1
    <3>7. CallInv'
      BY <2>1, <3>3, <3>4 DEF OrderInv, CallInv, Version
    <3> QED
      BY <2>1, <3>6, <3>7 DEF OrderInv
  <2> QED
    BY <2>2, <2>3
<1>11. CASE UpdateStatus
  <2>1. rec \in Busy /\ rec # Idle
    BY <1>11 DEF UpdateStatus, TypeOK, Idle
  <2>2. rec.order \in Order /\ rec.order.finalizer
    BY <1>11, <2>1 DEF UpdateStatus, OrderInv, CallInv, Busy
  <2>3. Version(Purge(rec.order))
    BY <2>2 DEF Version, Purge
  <2> QED
    BY <1>11, <2>2, <2>3, UpdateInv DEF UpdateStatus
<1> QED
  BY <1>1, <1>2, <1>3, <1>4, <1>5, <1>6, <1>7, <1>8, <1>9, <1>10, <1>11
  DEF Worker, Reconcile

\* Users write to the Order.
LEMMA UserInv ==
  ASSUME TypeOK, OrderInv,
         DeleteOrder \/ \E spec \in OrderSpecs : CreateOrder(spec) \/ EditOrder(spec)
  PROVE  OrderInv'
<1>1. /\ IsHistory(orderLog, OrderVersions) /\ Sound(orderLog)
      /\ UNCHANGED rec
  BY Histories DEF OrderInv, DeleteOrder, CreateOrder, EditOrder
<1>2. ASSUME NEW v \in OrderVersions, Version(v), orderLog' \in {Append(orderLog, v), Write(orderLog, v)}
      PROVE  OrderInv'
  <2>0. IsHistory(orderLog, OrderVersions) /\ Sound(orderLog) /\ v \in OrderVersions
    BY <1>1, <1>2
  <2>1. Sound(Append(orderLog, v)) /\ Sound(Write(orderLog, v))
    BY <1>2, <2>0, SoundSteps
  <2>2. /\ Cached(Append(orderLog, v)) = Cached(orderLog)
        /\ Cached(Write(orderLog, v)) = Cached(orderLog)
    BY <2>0, AppendVersion, WriteVersion
  <2>3. Sound(orderLog') /\ Cached(orderLog') = Cached(orderLog)
    BY <1>2, <2>1, <2>2
  <2> QED
    BY <1>1, <2>3 DEF OrderInv, CopyInv, CallInv
<1>3. ASSUME NEW spec \in OrderSpecs, CreateOrder(spec) PROVE OrderInv'
  <2> DEFINE new == [uid |-> userOps + 1, deleting |-> FALSE, finalizer |-> FALSE,
                     spec |-> spec, status |-> NoAWs]
  <2>1. userOps + 1 \in UIDs
    BY <1>3, InstanceAssumption DEF CreateOrder, TypeOK, UIDs
  <2>2. new \in OrderVersions /\ Version(new)
    BY <2>1, NoAWsType DEF Order, OrderVersions, Version
  <2>3. orderLog' = Append(orderLog, new)
    BY <1>3 DEF CreateOrder
  <2> QED
    BY <1>2, <2>2, <2>3
<1>4. ASSUME Exists(orderLog) PROVE Stored(orderLog) \in Order /\ Version(Stored(orderLog))
  <2>1. IsHistory(orderLog, OrderVersions) /\ Sound(orderLog)
    BY <1>1
  <2>2. Stored(orderLog) \in OrderVersions /\ Version(Stored(orderLog))
    BY <2>1, SoundSteps, HistoryEnds
  <2> QED
    BY <1>4, <2>2 DEF Exists, OrderVersions
<1>5. ASSUME NEW spec \in OrderSpecs, EditOrder(spec) PROVE OrderInv'
  <2> DEFINE s == Stored(orderLog)
             new == [s EXCEPT !.spec = spec]
  <2>1. s \in Order /\ Version(s)
    BY <1>4, <1>5 DEF EditOrder
  <2>2. /\ new \in OrderVersions /\ new.finalizer = s.finalizer
        /\ new.deleting = s.deleting /\ new.status = s.status
    BY <2>1 DEF Order, OrderVersions
  <2>3. s # Absent
    BY <1>5 DEF EditOrder, Exists
  <2>4. Version(new)
    BY <2>1, <2>2, <2>3 DEF Version
  <2>5. orderLog' = Append(orderLog, new)
    BY <1>5 DEF EditOrder
  <2> QED
    BY <1>2, <2>2, <2>4, <2>5
<1>6. CASE DeleteOrder
  <2> DEFINE s == Stored(orderLog)
             marked == [s EXCEPT !.deleting = TRUE]
  <2>1. s \in Order /\ s # Absent
    BY <1>4, <1>6 DEF DeleteOrder, Exists
  <2>2. marked \in Order /\ marked.deleting
    BY <2>1 DEF Order
  <2>3. Purge(marked) \in OrderVersions /\ Version(Purge(marked))
    BY <2>2, PurgeType DEF Version, Purge
  <2>4. orderLog' = Write(orderLog, Purge(marked))
    BY <1>6 DEF DeleteOrder, Delete
  <2> QED
    BY <1>2, <2>3, <2>4
<1> QED
  BY <1>3, <1>5, <1>6

\* Every step of Next keeps the invariant.
LEMMA OrderInvInductive == TypeOK /\ OrderInv /\ [Next]_vars => OrderInv'
<1> SUFFICES ASSUME TypeOK, OrderInv, [Next]_vars PROVE OrderInv'
  OBVIOUS
<1>1. CASE Worker
  BY <1>1, WorkerInv
<1>2. CASE DeleteOrder \/ \E spec \in OrderSpecs : CreateOrder(spec) \/ EditOrder(spec)
  BY <1>2, UserInv
<1>3. CASE Fail \/ Crash
  BY <1>3 DEF Fail, Crash, Return, OrderInv, CopyInv, CallInv
<1>4. CASE DeliverOrder
  <2>1. Sound(orderLog)'
    BY <1>4, Histories, SoundSteps DEF DeliverOrder, OrderInv
  <2>2. CASE rec = Idle
    BY <1>4, <2>1, <2>2 DEF DeliverOrder, OrderInv, CopyInv, CallInv
  <2>3. CASE rec # Idle
    <3>1. rec \in Busy /\ rec' = [rec EXCEPT !.current = FALSE]
      BY <1>4, <2>3 DEF DeliverOrder, TypeOK
    <3>2. /\ ~rec'.current /\ rec'.pc = rec.pc /\ rec'.order = rec.order
          /\ rec'.desired = rec.desired /\ rec'.creates = rec.creates /\ rec'.deletes = rec.deletes
      BY <3>1 DEF Busy
    <3> QED
      BY <2>1, <2>3, <3>2 DEF OrderInv, CopyInv, CallInv
  <2> QED
    BY <2>2, <2>3
<1>5. CASE UNCHANGED <<orderLog, rec>>
  BY <1>5 DEF OrderInv, CopyInv, CallInv
<1> QED
  BY <1>1, <1>2, <1>3, <1>4, <1>5
  DEF Next, Environment, Resync, DeliverArtifactWorkflow, ChangeCluster, DeleteByHand,
      CollectGarbage, AWAddsFinalizer, AWRemovesFinalizer, AWSetsPhase, AWWrites, vars

\* The inductive invariant the theorems on the Order follow from.
THEOREM OrderInvariant == Spec => []OrderInv
<1>1. Init => OrderInv
  <2> SUFFICES ASSUME Init PROVE OrderInv
    OBVIOUS
  <2>1. Sound(<<Absent>>)
    BY DEF Sound, Version
  <2> QED
    BY <2>1 DEF Init, OrderInv, CopyInv, CallInv
<1> QED
  BY <1>1, TypeCorrect, OrderInvInductive, PTL DEF Spec

-----------------------------------------------------------------------------
(* Its consequences *)

\* What an update does to the stored Order: it replaces the version its copy
\* was made from.
LEMMA UpdateStores ==
  ASSUME TypeOK, OrderInv, rec \in Busy, rec # Idle, NEW obj \in Order, NEW again,
         Update(obj, again), orderLog' # orderLog
  PROVE  /\ Stored(orderLog)' = Purge(obj)
         /\ rec.current /\ Stored(orderLog) # Absent
         /\ Stored(orderLog) = Cached(orderLog)
         /\ Stored(orderLog).spec = rec.order.spec
<1>1. rec.current /\ InSync(orderLog) /\ orderLog' = Write(orderLog, Purge(obj))
  BY DEF Update
<1>2. Stored(orderLog)' = Purge(obj)
  BY <1>1, Histories, PurgeType, WriteVersion
<1>3. Cached(orderLog) = Stored(orderLog)
  BY <1>1, Histories, HistoryEnds
<1>4. Cached(orderLog) # Absent /\ rec.order = [Cached(orderLog) EXCEPT !.status = rec.order.status]
  BY <1>1 DEF OrderInv, CopyInv
<1>5. Cached(orderLog) \in Order
  BY <1>4, Histories, HistoryEnds DEF OrderVersions
<1>6. rec.order.spec = Cached(orderLog).spec
  BY <1>4, <1>5 DEF Order
<1> QED
  BY <1>1, <1>2, <1>3, <1>4, <1>6

\* The four updates of a reconcile.
LEMMA Updates ==
  ASSUME TypeOK, OrderInv, CleanupStatus \/ RemoveFinalizer \/ AddFinalizer \/ UpdateStatus
  PROVE  /\ rec \in Busy /\ rec # Idle
         /\ \E obj \in Order, again \in BOOLEAN :
              /\ Update(obj, again)
              /\ obj.spec = rec.order.spec
              /\ Purge(obj) = Absent => DOMAIN rec.order.status = {} /\ rec.pc = "removeFinalizer"
<1>1. rec \in Busy /\ rec # Idle /\ rec.order \in Order
  <2>1. rec.pc \in {"cleanup", "removeFinalizer", "addFinalizer", "updateStatus"}
    BY DEF CleanupStatus, RemoveFinalizer, AddFinalizer, UpdateStatus
  <2>2. rec # Idle
    BY <2>1 DEF Idle
  <2>3. rec \in Busy
    BY <2>2 DEF TypeOK
  <2> QED
    BY <2>2, <2>3 DEF Busy
<1>2. CASE CleanupStatus
  <2> DEFINE obj == [rec.order EXCEPT !.status = NoAWs]
  <2>0. rec.pc = "cleanup" /\ rec.order # Absent
    BY <1>1, <1>2, AbsentAssumption DEF CleanupStatus
  <2>1. rec.order.finalizer
    BY <1>1, <2>0 DEF OrderInv, CallInv, Version, Order
  <2>2. obj \in Order /\ obj.spec = rec.order.spec /\ obj.finalizer
    BY <1>1, <2>1, NoAWsType DEF Order
  <2>3. Purge(obj) # Absent
    BY <2>2, AbsentAssumption DEF Purge
  <2> QED
    BY <1>1, <1>2, <2>2, <2>3 DEF CleanupStatus
<1>3. CASE RemoveFinalizer
  <2> DEFINE obj == [rec.order EXCEPT !.finalizer = FALSE]
  <2>1. DOMAIN rec.order.status = {} /\ rec.pc = "removeFinalizer"
    BY <1>1, <1>3 DEF RemoveFinalizer, OrderInv, CallInv
  <2>2. obj \in Order /\ obj.spec = rec.order.spec
    BY <1>1 DEF Order
  <2> QED
    BY <1>1, <1>3, <2>1, <2>2 DEF RemoveFinalizer
<1>4. CASE AddFinalizer
  <2> DEFINE obj == [rec.order EXCEPT !.finalizer = TRUE]
  <2>1. obj \in Order /\ obj.spec = rec.order.spec /\ obj.finalizer
    BY <1>1 DEF Order
  <2>2. Purge(obj) # Absent
    BY <2>1, AbsentAssumption DEF Purge
  <2> QED
    BY <1>1, <1>4, <2>1, <2>2 DEF AddFinalizer
<1>5. CASE UpdateStatus
  <2>1. rec.order.finalizer
    BY <1>1, <1>5 DEF UpdateStatus, OrderInv, CallInv
  <2>2. Purge(rec.order) # Absent
    BY <1>1, <2>1, AbsentAssumption DEF Purge
  <2> QED
    BY <1>1, <1>5, <2>2 DEF UpdateStatus
<1> QED
  BY <1>2, <1>3, <1>4, <1>5

\* What any step does to the stored Order.
LEMMA StoredOrderSteps ==
  ASSUME TypeOK, OrderInv, [Next]_vars, Exists(orderLog), userOps' = userOps,
         Stored(orderLog)' # Stored(orderLog)
  PROVE  /\ Exists(orderLog)' => Stored(orderLog)'.spec = Stored(orderLog).spec
         /\ ~Exists(orderLog)' => DOMAIN Stored(orderLog).status = {}
<1>1. orderLog' # orderLog
  OBVIOUS
<1>2. userOps + 1 # userOps
  BY InstanceAssumption DEF TypeOK
<1>3. CASE CleanupStatus \/ RemoveFinalizer \/ AddFinalizer \/ UpdateStatus
  <2>1. /\ rec \in Busy /\ rec # Idle
        /\ \E obj \in Order, again \in BOOLEAN :
             /\ Update(obj, again)
             /\ obj.spec = rec.order.spec
             /\ Purge(obj) = Absent => DOMAIN rec.order.status = {} /\ rec.pc = "removeFinalizer"
    BY <1>3, Updates
  <2>2. PICK obj \in Order, again \in BOOLEAN :
          /\ Update(obj, again)
          /\ obj.spec = rec.order.spec
          /\ Purge(obj) = Absent => DOMAIN rec.order.status = {} /\ rec.pc = "removeFinalizer"
    BY <2>1
  <2>3. /\ Stored(orderLog)' = Purge(obj)
        /\ rec.current
        /\ Stored(orderLog) = Cached(orderLog)
        /\ Stored(orderLog).spec = rec.order.spec
    BY <1>1, <2>1, <2>2, UpdateStores
  <2>4. ASSUME Exists(orderLog)' PROVE Stored(orderLog)'.spec = Stored(orderLog).spec
    BY <2>2, <2>3, <2>4 DEF Exists, Purge
  <2>5. ASSUME ~Exists(orderLog)' PROVE DOMAIN Stored(orderLog).status = {}
    <3>1. DOMAIN rec.order.status = {} /\ rec.pc = "removeFinalizer"
      BY <2>2, <2>3, <2>5 DEF Exists
    <3>2. rec.order = Cached(orderLog)
      BY <2>1, <2>3, <3>1 DEF OrderInv, CopyInv
    <3> QED
      BY <2>3, <3>1, <3>2
  <2> QED
    BY <2>4, <2>5
<1>4. CASE DeliverOrder
  <2>1. IsHistory(orderLog, OrderVersions) /\ ~InSync(orderLog)
    BY <1>4, Histories DEF DeliverOrder
  <2>2. Stored(Tail(orderLog)) = Stored(orderLog)
    BY <2>1, DeliverVersion
  <2> QED
    BY <1>4, <2>2 DEF DeliverOrder
<1> QED
  BY <1>1, <1>2, <1>3, <1>4
  DEF Next, Worker, Reconcile, Environment, Resync, DeliverArtifactWorkflow, ChangeCluster,
      DeleteByHand, CollectGarbage, AWAddsFinalizer, AWRemovesFinalizer, AWSetsPhase, AWWrites,
      vars, CreateOrder, EditOrder, DeleteOrder, Fail, Crash, ReconcileGone, ReconcileDeleting,
      ReconcileNew, ReconcileOrder, Cleanup, CreateArtifactWorkflow, RejectArtifact,
      DeleteArtifactWorkflow, SyncPhases

\* The finalizer updates and the status update write a whole copy of the Order
\* and never undo an edit of a user.
THEOREM NoEditLost == Spec => EditsSurvive
<1>1. TypeOK /\ OrderInv /\ [Next]_vars =>
        [Exists(orderLog) /\ Exists(orderLog)' /\ Stored(orderLog)'.spec # Stored(orderLog).spec
           => userOps' # userOps]_vars
  BY StoredOrderSteps
<1> QED
  BY <1>1, TypeCorrect, OrderInvariant, PTL DEF Spec, EditsSurvive

\* A deleted Order goes only once its status is empty: after the reconcile that
\* cleans up.
THEOREM CleanedUpBeforeGone == Spec => GoesWithEmptyStatus
<1>1. ASSUME TypeOK, OrderInv, DeleteOrder, ~Exists(orderLog)'
      PROVE  DOMAIN Stored(orderLog).status = {}
  <2> DEFINE s == Stored(orderLog)
             marked == [s EXCEPT !.deleting = TRUE]
  <2>1. IsHistory(orderLog, OrderVersions) /\ Sound(orderLog) /\ s # Absent
    BY <1>1, Histories DEF DeleteOrder, OrderInv, Exists
  <2>2. s \in Order /\ Version(s)
    <3>1. s \in OrderVersions
      BY <2>1, HistoryEnds
    <3>2. Version(s)
      BY <2>1, SoundSteps
    <3> QED
      BY <2>1, <3>1, <3>2 DEF OrderVersions
  <2>3. marked \in Order /\ marked.finalizer = s.finalizer
    BY <2>2 DEF Order
  <2>4. Purge(marked) \in OrderVersions
    BY <2>3, PurgeType
  <2>5. orderLog' = Write(orderLog, Purge(marked))
    BY <1>1 DEF DeleteOrder, Delete
  <2>6. Stored(orderLog') = Purge(marked)
    BY <2>1, <2>4, <2>5, WriteVersion
  <2>7. ~s.finalizer
    BY <1>1, <2>3, <2>6, AbsentAssumption DEF Purge, Exists
  <2> QED
    BY <2>1, <2>2, <2>7 DEF Version
<1>2. TypeOK /\ OrderInv /\ [Next]_vars =>
        [Exists(orderLog) /\ ~Exists(orderLog)' => DOMAIN Stored(orderLog).status = {}]_vars
  <2> SUFFICES ASSUME TypeOK, OrderInv, [Next]_vars, Exists(orderLog), ~Exists(orderLog)'
               PROVE  DOMAIN Stored(orderLog).status = {}
    OBVIOUS
  <2>1. Stored(orderLog)' # Stored(orderLog)
    BY DEF Exists
  <2>2. CASE userOps' = userOps
    BY <2>1, <2>2, StoredOrderSteps
  <2>3. CASE DeleteOrder
    BY <2>3, <1>1
  <2>4. CASE \E spec \in OrderSpecs : CreateOrder(spec)
    BY <2>4 DEF CreateOrder
  <2>5. ASSUME NEW spec \in OrderSpecs, EditOrder(spec) PROVE FALSE
    <3> DEFINE s == Stored(orderLog)
               new == [s EXCEPT !.spec = spec]
    <3>1. IsHistory(orderLog, OrderVersions)
      BY Histories
    <3>2. s \in Order
      BY <3>1, HistoryEnds DEF Exists, OrderVersions
    <3>3. new \in Order
      BY <3>2 DEF Order
    <3>4. orderLog' = Append(orderLog, new) /\ new \in OrderVersions
      BY <2>5, <3>3 DEF EditOrder, OrderVersions
    <3>5. Stored(orderLog') = new
      BY <3>1, <3>4, AppendVersion
    <3> QED
      BY <3>3, <3>5, AbsentAssumption DEF Exists
  <2> QED
    BY <2>1, <2>2, <2>3, <2>4, <2>5
    DEF Next, Worker, Reconcile, Environment, Resync, DeliverArtifactWorkflow, DeliverOrder,
        ChangeCluster, DeleteByHand, CollectGarbage, AWAddsFinalizer, AWRemovesFinalizer,
        AWSetsPhase, AWWrites, vars, Fail, Crash, ReconcileGone, ReconcileDeleting,
        ReconcileNew, ReconcileOrder, Cleanup, CreateArtifactWorkflow, RejectArtifact,
        DeleteArtifactWorkflow, SyncPhases, CleanupStatus, RemoveFinalizer, AddFinalizer,
        UpdateStatus
<1> QED
  BY <1>2, TypeCorrect, OrderInvariant, PTL DEF Spec, GoesWithEmptyStatus

-----------------------------------------------------------------------------
(* The controller rests only when all is done, while Endpoints and Secrets    *)
(* stay as they are: a change of theirs makes no request (RequestsForEndpoint) *)

SameCluster == \A c, d \in Clusters : c = d

\* A write that changes something is an event under way.
LEMMA ChangeIsUnderWay ==
  ASSUME NEW S, NEW h, IsHistory(h, S), NEW v \in S
  PROVE  /\ ~InSync(Append(h, v))
         /\ v # Stored(h) => ~InSync(Write(h, v))
         /\ InSync(Write(h, v)) => Write(h, v) = h
<1>1. Len(Append(h, v)) = Len(h) + 1 /\ Len(h) \in Nat \ {0}
  BY AppendVersion, HistoryEnds
<1>2. ~InSync(Append(h, v))
  BY <1>1 DEF InSync
<1> QED
  BY <1>2 DEF Write

\* Whoever changes an ArtifactWorkflow leaves an event under way.
LEMMA AWWritesRest ==
  ASSUME TypeOK, RestInv, NEW s \in Shas, NEW v \in AWVersions,
         awLog' = [awLog EXCEPT ![s] = Write(@, v)],
         UNCHANGED <<orderLog, cluster, queued, rec>>
  PROVE  RestInv'
<1>1. awLog \in [Shas -> Seq(ArtifactWorkflow \union {Absent})] /\ IsHistory(awLog[s], AWVersions)
  BY Histories DEF TypeOK
<1>2. awLog'[s] = Write(awLog[s], v)
  BY <1>1
<1>3. ASSUME InSync(awLog'[s]) PROVE awLog' = awLog
  <2>1. awLog'[s] = awLog[s]
    BY <1>1, <1>2, <1>3, ChangeIsUnderWay
  <2> QED
    BY <1>1, <1>2, <2>1
<1>4. RestMeansDone'
  <2>1. CASE InSync(awLog'[s])
    BY <1>3, <2>1 DEF RestInv, RestMeansDone, Quiescent, OrderLive
  <2>2. CASE ~InSync(awLog'[s])
    BY <2>2 DEF RestMeansDone, Quiescent
  <2> QED
    BY <2>1, <2>2
<1> QED
  BY <1>4 DEF RestInv, ApplyInv

\* The end of a reconcile that writes the Order.
LEMMA UpdateRest ==
  ASSUME TypeOK, OrderInv, rec \in Busy, rec # Idle, NEW obj \in Order, NEW again \in BOOLEAN,
         Update(obj, again),
         rec.current => \/ Purge(obj) # Cached(orderLog)
                        \/ rec.order.deleting /\ rec.order = Cached(orderLog)
  PROVE  RestInv'
<1>1. rec' = Idle
  BY DEF Update, Return
<1>2. ASSUME Quiescent', OrderLive' PROVE FALSE
  <2>1. rec.current /\ InSync(orderLog) /\ orderLog' = Write(orderLog, Purge(obj))
    BY <1>2 DEF Update, Return, Quiescent
  <2>2. IsHistory(orderLog, OrderVersions) /\ Purge(obj) \in OrderVersions
    BY Histories, PurgeType
  <2>3. Cached(orderLog) = Stored(orderLog)
    BY <2>1, <2>2, HistoryEnds
  <2>4. InSync(orderLog')
    BY <1>2 DEF Quiescent
  <2>5. Purge(obj) = Stored(orderLog) /\ orderLog' = orderLog
    BY <2>1, <2>2, <2>4, ChangeIsUnderWay
  <2> QED
    BY <1>2, <2>1, <2>3, <2>5 DEF OrderLive
<1> QED
  BY <1>1, <1>2 DEF RestInv, RestMeansDone, ApplyInv

\* A reconcile that finds nothing to write.
LEMMA SyncPhasesRest ==
  ASSUME TypeOK, OrderInv, RestInv, SyncPhases
  PROVE  RestInv'
<1>1. rec \in Busy /\ rec # Idle /\ rec.pc = "apply"
  BY DEF SyncPhases, TypeOK, Idle
<1>2. CASE rec' # Idle
  <2>1. /\ rec' = [rec EXCEPT !.pc = "updateStatus", !.order.status = NextStatus]
        /\ UNCHANGED queued
    BY <1>2 DEF SyncPhases, Return
  <2>2. rec'.current = rec.current /\ rec'.pc = "updateStatus"
    BY <1>1, <2>1 DEF Busy
  <2> QED
    BY <1>1, <1>2, <2>1, <2>2 DEF RestInv, RestMeansDone, Quiescent, ApplyInv
<1>3. ASSUME rec' = Idle, Quiescent', OrderLive' PROVE RestMeansDone'
  <2>1. /\ ~queued
        /\ UNCHANGED <<orderLog, awLog, cluster>>
        /\ rec.creates = {} /\ rec.deletes = {}
        /\ \A s \in DOMAIN rec.desired :
             /\ Cached(awLog[s]) # Absent
             /\ rec.order.status[s].phase = Cached(awLog[s]).phase
    <3>1. queued' = FALSE /\ UNCHANGED <<orderLog, awLog, cluster>>
      BY <1>3 DEF Quiescent, SyncPhases, TypeOK, Return
    <3>2. rec.pc # "updateStatus" /\ rec' # [rec EXCEPT !.pc = "updateStatus", !.order.status = NextStatus]
      BY <1>1, <1>3 DEF Busy, Idle
    <3> QED
      BY <3>1, <3>2 DEF SyncPhases, Return
  <2>2. rec.current
    BY <1>1, <2>1 DEF RestInv
  <2>3. InSync(orderLog) /\ \A s \in Shas : InSync(awLog[s])
    BY <1>3, <2>1 DEF Quiescent
  <2>4. Cached(orderLog) = Stored(orderLog)
    BY <2>3, Histories, HistoryEnds
  <2>5. rec.order = Stored(orderLog)
    BY <1>1, <2>2, <2>4 DEF OrderInv, CopyInv
  <2>6. rec.order.finalizer
    BY <1>1 DEF OrderInv, CallInv
  <2>7. /\ AllFetched(rec.order.spec, cluster)
        /\ rec.desired = DesiredAWs(rec.order.spec, cluster)
    BY <1>1 DEF RestInv, ApplyInv
  <2>8. DOMAIN rec.order.status = DOMAIN rec.desired
    BY <1>1, <2>1 DEF OrderInv, CallInv
  <2>9. ASSUME NEW s \in DOMAIN rec.desired
        PROVE  Exists(awLog[s]) /\ rec.order.status[s].phase = Stored(awLog[s]).phase
    <3>1. s \in Shas
      BY <1>1 DEF Busy
    <3>2. IsHistory(awLog[s], AWVersions) /\ InSync(awLog[s])
      BY <2>3, <3>1, Histories
    <3>3. Cached(awLog[s]) = Stored(awLog[s])
      BY <3>2, HistoryEnds
    <3> QED
      BY <2>1, <3>3 DEF Exists
  <2> QED
    BY <2>1, <2>5, <2>6, <2>7, <2>8, <2>9 DEF RestMeansDone
<1>4. CASE rec' = Idle
  BY <1>3, <1>4 DEF RestInv, RestMeansDone, ApplyInv
<1> QED
  BY <1>2, <1>4

\* The steps of the controller keep the invariant of rest.
LEMMA WorkerRest ==
  ASSUME TypeOK, OrderInv, RestInv, Worker
  PROVE  RestInv'
<1>1. CASE ReconcileGone
  <2>1. CASE InSync(orderLog)
    <3>1. IsHistory(orderLog, OrderVersions)
      BY Histories
    <3>2. Stored(orderLog) = Absent
      BY <1>1, <2>1, <3>1, HistoryEnds DEF ReconcileGone
    <3> QED
      BY <1>1, <3>2 DEF ReconcileGone, RestInv, RestMeansDone, OrderLive, Exists, ApplyInv
  <2>2. CASE ~InSync(orderLog)
    BY <1>1, <2>2 DEF ReconcileGone, RestInv, RestMeansDone, Quiescent, ApplyInv
  <2> QED
    BY <2>1, <2>2
<1>2. ASSUME NEW pc, NEW desired, NEW creates, NEW deletes, NEW todo, UNCHANGED cluster,
             Begin(pc, desired, creates, deletes, todo),
             pc = "apply" => /\ AllFetched(Cached(orderLog).spec, cluster)
                             /\ desired = DesiredAWs(Cached(orderLog).spec, cluster)
      PROVE  RestInv'
  <2>1. /\ rec'.current /\ rec'.pc = pc /\ rec'.order = Cached(orderLog) /\ rec'.desired = desired
        /\ rec' # Idle
    BY <1>2 DEF Begin, Idle
  <2> QED
    BY <1>2, <2>1 DEF RestInv, RestMeansDone, Quiescent, ApplyInv
<1>3. CASE ReconcileDeleting \/ ReconcileNew
  BY <1>2, <1>3 DEF ReconcileDeleting, ReconcileNew
<1>4. CASE ReconcileOrder
  <2>1. CASE AllFetched(Cached(orderLog).spec, cluster)
    BY <1>2, <1>4, <2>1 DEF ReconcileOrder
  <2>2. CASE ~AllFetched(Cached(orderLog).spec, cluster)
    BY <1>4, <2>2 DEF ReconcileOrder, RestInv, RestMeansDone, Quiescent, ApplyInv
  <2> QED
    BY <2>1, <2>2
<1>5. ASSUME NEW s \in Shas,
             Cleanup(s) \/ CreateArtifactWorkflow(s) \/ DeleteArtifactWorkflow(s)
      PROVE  RestInv'
  <2>1. rec \in Busy /\ rec # Idle
    BY <1>5 DEF Cleanup, CreateArtifactWorkflow, DeleteArtifactWorkflow, TypeOK, Idle
  <2>2. rec' = [rec EXCEPT !.todo = @ \ {s}] /\ UNCHANGED <<orderLog, queued, cluster>>
    BY <1>5 DEF Cleanup, CreateArtifactWorkflow, DeleteArtifactWorkflow
  <2>3. /\ rec'.pc = rec.pc /\ rec'.order = rec.order /\ rec'.current = rec.current
        /\ rec'.desired = rec.desired /\ rec' # Idle
    BY <2>1, <2>2 DEF Busy, Idle
  <2> QED
    BY <2>1, <2>2, <2>3 DEF RestInv, RestMeansDone, Quiescent, ApplyInv
<1>6. ASSUME NEW s \in Shas, RejectArtifact(s) PROVE RestInv'
  BY <1>6 DEF RejectArtifact, Return, RestInv, RestMeansDone, Quiescent, ApplyInv
<1>7. ASSUME rec.pc # "idle" PROVE rec \in Busy /\ rec # Idle /\ rec.order \in Order
  BY <1>7 DEF TypeOK, Idle, Busy
<1>8. CASE CleanupStatus
  BY <1>8 DEF CleanupStatus, Update, Return, RestInv, RestMeansDone, Quiescent, ApplyInv
<1>9. CASE RemoveFinalizer
  <2> DEFINE obj == [rec.order EXCEPT !.finalizer = FALSE]
  <2>1. rec \in Busy /\ rec # Idle /\ rec.order \in Order /\ rec.pc = "removeFinalizer"
    BY <1>7, <1>9 DEF RemoveFinalizer
  <2>2. rec.order.deleting /\ (rec.current => rec.order = Cached(orderLog))
    BY <2>1 DEF OrderInv, CallInv, CopyInv
  <2>3. obj \in Order /\ Update(obj, FALSE)
    BY <1>9, <2>1 DEF RemoveFinalizer, Order
  <2> HIDE DEF obj
  <2> QED
    BY <2>1, <2>2, <2>3, UpdateRest
<1>10. CASE AddFinalizer
  <2> DEFINE obj == [rec.order EXCEPT !.finalizer = TRUE]
  <2>1. rec \in Busy /\ rec # Idle /\ rec.order \in Order /\ rec.pc = "addFinalizer"
    BY <1>7, <1>10 DEF AddFinalizer
  <2>2. ~rec.order.finalizer /\ (rec.current => rec.order = Cached(orderLog))
    BY <2>1 DEF OrderInv, CallInv, CopyInv
  <2>3. obj \in Order /\ obj.finalizer /\ Update(obj, FALSE)
    BY <1>10, <2>1 DEF AddFinalizer, Order
  <2> HIDE DEF obj
  <2>4. rec.current => Purge(obj) # Cached(orderLog)
    BY <2>2, <2>3 DEF Purge
  <2> QED
    BY <2>1, <2>3, <2>4, UpdateRest
<1>11. CASE UpdateStatus
  <2>1. rec \in Busy /\ rec # Idle /\ rec.order \in Order /\ rec.pc = "updateStatus"
    BY <1>7, <1>11 DEF UpdateStatus
  <2>2. rec.order.finalizer /\ (rec.current => rec.order.status # Cached(orderLog).status)
    BY <2>1 DEF OrderInv, CallInv, CopyInv
  <2>3. rec.current => Purge(rec.order) # Cached(orderLog)
    BY <2>2 DEF Purge
  <2>4. Update(rec.order, FALSE)
    BY <1>11 DEF UpdateStatus
  <2> QED
    BY <2>1, <2>3, <2>4, UpdateRest
<1>12. CASE SyncPhases
  BY <1>12, SyncPhasesRest
<1> QED
  BY <1>1, <1>3, <1>4, <1>5, <1>6, <1>8, <1>9, <1>10, <1>11, <1>12 DEF Worker, Reconcile

\* Every step of Next keeps the invariant of rest.
LEMMA RestInductive ==
  ASSUME SameCluster, TypeOK, OrderInv, RestInv, [Next]_vars
  PROVE  RestInv'
<1>1. CASE Worker
  BY <1>1, WorkerRest
<1>2. CASE Fail
  BY <1>2 DEF Fail, Return, RestInv, RestMeansDone, Quiescent, ApplyInv
<1>3. CASE Crash
  <2>1. IsHistory(orderLog, OrderVersions)
    BY Histories
  <2>2. InSync(orderLog) => Cached(orderLog) = Stored(orderLog)
    BY <2>1, HistoryEnds
  <2> QED
    BY <1>3, <2>2 DEF Crash, RestInv, RestMeansDone, Quiescent, OrderLive, Exists, ApplyInv
<1>4. CASE DeliverOrder
  <2>1. ASSUME rec # Idle
        PROVE  /\ rec'.pc = rec.pc /\ rec'.order = rec.order /\ rec'.desired = rec.desired
               /\ rec # Idle
    BY <1>4, <2>1 DEF DeliverOrder, TypeOK, Busy
  <2>2. rec = Idle => rec' = Idle
    BY <1>4 DEF DeliverOrder
  <2>3. ApplyInv'
    BY <1>4, <2>1, <2>2 DEF DeliverOrder, ApplyInv, RestInv
  <2> QED
    BY <1>4, <2>3 DEF DeliverOrder, RestInv, RestMeansDone, Quiescent
<1>5. CASE Resync \/ \E s \in Shas : DeliverArtifactWorkflow(s)
  BY <1>5 DEF Resync, DeliverArtifactWorkflow, RestInv, RestMeansDone, Quiescent, ApplyInv
<1>6. ASSUME NEW spec \in OrderSpecs, CreateOrder(spec) \/ EditOrder(spec) PROVE RestInv'
  <2>1. IsHistory(orderLog, OrderVersions)
    BY Histories
  <2>2. Len(orderLog) \in Nat \ {0} /\ orderLog \in Seq(OrderVersions)
    BY <2>1, HistoryEnds DEF IsHistory
  <2>3. ~InSync(orderLog')
    BY <1>6, <2>2 DEF CreateOrder, EditOrder, InSync
  <2> QED
    BY <1>6, <2>3 DEF CreateOrder, EditOrder, RestInv, RestMeansDone, Quiescent, ApplyInv
<1>7. CASE DeleteOrder
  <2> DEFINE s == Stored(orderLog)
             marked == [s EXCEPT !.deleting = TRUE]
  <2>1. IsHistory(orderLog, OrderVersions) /\ s # Absent
    BY <1>7, Histories DEF DeleteOrder, Exists
  <2>2. s \in Order
    BY <2>1, HistoryEnds DEF OrderVersions
  <2>3. marked \in Order /\ marked.deleting
    BY <2>2 DEF Order
  <2>4. Purge(marked) \in OrderVersions /\ (Purge(marked) = Absent \/ Purge(marked).deleting)
    BY <2>3, PurgeType DEF Purge
  <2>5. orderLog' = Write(orderLog, Purge(marked))
    BY <1>7 DEF DeleteOrder, Delete
  <2>6. Stored(orderLog') = Purge(marked)
    BY <2>1, <2>4, <2>5, WriteVersion
  <2>7. ~OrderLive'
    BY <2>4, <2>6 DEF OrderLive, Exists
  <2> QED
    BY <1>7, <2>7 DEF DeleteOrder, RestInv, RestMeansDone, ApplyInv
<1>8. ASSUME NEW c \in Clusters, ChangeCluster(c) PROVE FALSE
  BY <1>8 DEF SameCluster, ChangeCluster, TypeOK
<1>9. ASSUME NEW s \in Shas, NEW v \in AWVersions,
             awLog' = [awLog EXCEPT ![s] = Write(@, v)],
             UNCHANGED <<orderLog, cluster, queued, rec>>
      PROVE  RestInv'
  BY <1>9, AWWritesRest
<1>10. ASSUME NEW s \in Shas, Exists(awLog[s])
       PROVE  /\ Stored(awLog[s]) \in ArtifactWorkflow
              /\ Purge([Stored(awLog[s]) EXCEPT !.deleting = TRUE]) \in AWVersions
  <2>1. IsHistory(awLog[s], AWVersions)
    BY <1>10, Histories
  <2>2. Stored(awLog[s]) \in ArtifactWorkflow
    BY <1>10, <2>1, HistoryEnds DEF Exists, AWVersions
  <2>3. [Stored(awLog[s]) EXCEPT !.deleting = TRUE] \in ArtifactWorkflow
    BY <2>2 DEF ArtifactWorkflow
  <2> QED
    BY <2>2, <2>3, PurgeType
<1>11. ASSUME NEW s \in Shas, DeleteByHand(s) \/ CollectGarbage(s) PROVE RestInv'
  <2>1. Exists(awLog[s])
    BY <1>11 DEF DeleteByHand, CollectGarbage, Ownerless
  <2>2. awLog' = [awLog EXCEPT ![s] = Write(@, Purge([Stored(awLog[s]) EXCEPT !.deleting = TRUE]))]
    BY <1>11, <2>1 DEF DeleteByHand, CollectGarbage, Delete
  <2> QED
    BY <1>9, <1>10, <1>11, <2>1, <2>2 DEF DeleteByHand, CollectGarbage
<1>12. ASSUME NEW s \in Shas, AWAddsFinalizer(s) PROVE RestInv'
  <2>1. [Stored(awLog[s]) EXCEPT !.finalizer = TRUE] \in AWVersions
    BY <1>10, <1>12 DEF AWAddsFinalizer, ArtifactWorkflow, AWVersions
  <2> QED
    BY <1>9, <1>12, <2>1 DEF AWAddsFinalizer, AWWrites
<1>13. ASSUME NEW s \in Shas, NEW p \in AWPhases, AWSetsPhase(s, p) PROVE RestInv'
  <2>1. [Stored(awLog[s]) EXCEPT !.phase = p] \in AWVersions
    BY <1>10, <1>13, InstanceAssumption DEF AWSetsPhase, ArtifactWorkflow, AWVersions
  <2> QED
    BY <1>9, <1>13, <2>1 DEF AWSetsPhase, AWWrites
<1>14. ASSUME NEW s \in Shas, AWRemovesFinalizer(s) PROVE RestInv'
  BY <1>9, <1>14 DEF AWRemovesFinalizer, AWWrites, AWVersions
<1>15. CASE UNCHANGED vars
  BY <1>15 DEF vars, RestInv, RestMeansDone, Quiescent, OrderLive, ApplyInv
<1> QED
  BY <1>1, <1>2, <1>3, <1>4, <1>5, <1>6, <1>7, <1>8, <1>11, <1>12, <1>13, <1>14, <1>15
  DEF Next, Environment

\* The invariant behind the next theorem: a reconcile whose copy of the Order is
\* outdated has left a request in the queue.
THEOREM RestInvariant ==
  ASSUME SameCluster
  PROVE  Spec => []RestInv
<1>1. Init => RestInv
  <2> SUFFICES ASSUME Init PROVE RestInv
    OBVIOUS
  <2>1. ~OrderLive /\ rec = Idle
    BY DEF Init, OrderLive, Exists, Stored
  <2> QED
    BY <2>1 DEF RestInv, RestMeansDone, ApplyInv
<1>2. TypeOK /\ OrderInv /\ RestInv /\ [Next]_vars => RestInv'
  BY RestInductive
<1> QED
  BY <1>1, <1>2, TypeCorrect, OrderInvariant, PTL DEF Spec

\* The controller comes to rest only when the status lists what the Order asks
\* for and shows its phases: no event is lost, whatever fails or crashes.
THEOREM RestOnlyWhenDone ==
  ASSUME SameCluster
  PROVE  Spec => []RestMeansDone
<1>1. Spec => []RestInv
  BY RestInvariant
<1>2. RestInv => RestMeansDone
  BY DEF RestInv
<1> QED
  BY <1>1, <1>2, PTL

-----------------------------------------------------------------------------
(* What the rest of the system sees of the worker *)

\* The ArtifactWorkflow a reconcile for the Order with UID o creates.
CreatedFor(o) ==
  [owner |-> o, deleting |-> FALSE, finalizer |-> FALSE, phase |-> WorkflowUnknown]

\* The worker changes an ArtifactWorkflow only by creating a missing one or by
\* deleting an existing one.
LEMMA WorkerWritesAW ==
  ASSUME TypeOK, Worker, awLog' # awLog
  PROVE  \E s \in Shas :
           \/ /\ Exists(awLog[s])
              /\ awLog' = [awLog EXCEPT ![s] = Delete(awLog[s])]
           \/ /\ ~Exists(awLog[s])
              /\ \E o \in UIDs : awLog' = [awLog EXCEPT ![s] = Append(awLog[s], CreatedFor(o))]
<1>1. PICK s \in Shas : Cleanup(s) \/ CreateArtifactWorkflow(s) \/ DeleteArtifactWorkflow(s)
  BY DEF Worker, Reconcile, ReconcileGone, ReconcileDeleting, ReconcileNew, ReconcileOrder,
         RejectArtifact, CleanupStatus, RemoveFinalizer, AddFinalizer, SyncPhases, UpdateStatus
<1>2. ASSUME awLog' = [awLog EXCEPT ![s] = awLog[s]] PROVE FALSE
  BY <1>2 DEF TypeOK
<1>3. CASE CreateArtifactWorkflow(s)
  <2>1. Stored(awLog[s]) = Absent
        /\ awLog' = [awLog EXCEPT ![s] = Append(awLog[s], NewArtifactWorkflow)]
    BY <1>2, <1>3 DEF CreateArtifactWorkflow
  <2>2. rec \in Busy
    BY <1>3 DEF CreateArtifactWorkflow, TypeOK, Idle
  <2>3. rec.order.uid \in UIDs
    BY <2>2 DEF Busy, Order
  <2> QED
    BY <2>1, <2>3 DEF NewArtifactWorkflow, CreatedFor, Exists
<1>4. CASE Cleanup(s) \/ DeleteArtifactWorkflow(s)
  <2>1. awLog' = [awLog EXCEPT ![s] = Delete(awLog[s])]
    BY <1>4 DEF Cleanup, DeleteArtifactWorkflow
  <2>2. Exists(awLog[s])
    BY <1>2, <2>1 DEF Delete
  <2> QED
    BY <2>1, <2>2
<1> QED
  BY <1>1, <1>3, <1>4
=============================================================================
