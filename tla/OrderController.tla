--------------------------- MODULE OrderController ---------------------------
(***************************************************************************)
(* OrderReconciler (pkg/controller/order_controller.go): the worker that   *)
(* keeps one ArtifactWorkflow per artifact of an Order, and records them   *)
(* in the status of the Order.                                             *)
(*                                                                         *)
(* The module follows the Orders that bear one name, one after the other:  *)
(* the reconciles of two names touch different objects, because the name   *)
(* of an ArtifactWorkflow starts with the name of its Order.  A reconcile  *)
(* is cut at its API calls.  Users, the garbage collector, and the         *)
(* controller of the ArtifactWorkflows are the environment; the latter is  *)
(* module ArtifactWorkflowController, of which this module assumes only    *)
(* that it adds and removes its finalizer and never replaces a result.     *)
(***************************************************************************)
EXTENDS DesiredArtifactWorkflows, WorkflowPhase

CONSTANTS
  OrderSpecs,     \* the specs users give the Order
  Clusters,       \* the Endpoints and Secrets there may be
  ByHand,         \* whether users delete ArtifactWorkflows by hand
  AWPhases,       \* the phases ArtifactWorkflows go through in an instance
  MaxLag,         \* bound: the environment leaves a history alone at this length
  MaxUserOps,     \* bound: what users do in a behaviour
  MaxFaults       \* bound: failed API calls and crashes in a behaviour

VARIABLES
  orderLog,       \* history of the Order
  awLog,          \* history of each ArtifactWorkflow of that name, by hash
  cluster,        \* Endpoints and Secrets, as cached
  queued,         \* the Order is in the work queue
  rec,            \* the reconcile in progress
  userOps,        \* user operations so far
  faults          \* failures so far

vars == <<orderLog, awLog, cluster, queued, rec, userOps, faults>>

UIDs == 1..MaxUserOps

Indices == UNION {DOMAIN spec.artifacts : spec \in OrderSpecs}

StatusEntry == [index: Indices, phase: Phases]

Statuses == UNION {[S -> StatusEntry] : S \in SUBSET Shas}

Order == [uid: UIDs, deleting: BOOLEAN, finalizer: BOOLEAN,
          spec: OrderSpecs, status: Statuses]

ArtifactWorkflow ==
  [owner: UIDs, deleting: BOOLEAN, finalizer: BOOLEAN, phase: Phases]

ASSUME InstanceAssumption ==
  /\ OrderSpecs \subseteq OrderSpec
  /\ Clusters \subseteq Cluster
  /\ AWPhases \subseteq Phases
  /\ ByHand \in BOOLEAN
  /\ MaxUserOps \in Nat /\ MaxFaults \in Nat

ASSUME AbsentAssumption == Absent \notin ArtifactWorkflow /\ Absent \notin Order

\* pc: the next API call or read; order: the working copy; current: no event
\* of the Order was delivered since it was read; desired, creates, deletes:
\* desiredAWs, createAWs, deleteAWs; todo: what is left of the loop.
Idle == [pc |-> "idle"]

Busy == [pc: {"cleanup", "removeFinalizer", "addFinalizer", "apply", "updateStatus"},
         order: Order, current: BOOLEAN,
         desired: UNION {[S -> Indices] : S \in SUBSET Shas},
         creates: SUBSET Shas, deletes: SUBSET Shas, todo: SUBSET Shas]

Init ==
  /\ orderLog = <<Absent>>
  /\ awLog = [s \in Shas |-> <<Absent>>]
  /\ cluster \in Clusters
  /\ queued = FALSE
  /\ rec = Idle
  /\ userOps = 0
  /\ faults = 0

-----------------------------------------------------------------------------
(* Reconcile *)

NoAWs == [s \in {} |-> 0]

Begin(pc, desired, creates, deletes, todo) ==
  /\ rec' = [pc |-> pc, order |-> Cached(orderLog), current |-> TRUE, desired |-> desired,
             creates |-> creates, deletes |-> deletes, todo |-> todo]
  /\ queued' = FALSE

Return(again) == rec' = Idle /\ queued' = (queued \/ again)

\* Get finds no Order: there is nothing to do.
ReconcileGone ==
  /\ rec = Idle /\ queued
  /\ Cached(orderLog) = Absent
  /\ queued' = FALSE
  /\ UNCHANGED <<orderLog, awLog, cluster, rec, userOps, faults>>

\* Faulty variant: the finalizer goes without cleaning up.
ReconcileDeletingAtOnce ==
  /\ rec = Idle /\ queued
  /\ Cached(orderLog) # Absent
  /\ Cached(orderLog).deleting
  /\ Begin("removeFinalizer", NoAWs, {}, {}, {})
  /\ UNCHANGED <<orderLog, awLog, cluster, userOps, faults>>

\* The Order is being deleted: clean up what the status lists, or let it go.
ReconcileDeleting ==
  /\ rec = Idle /\ queued
  /\ Cached(orderLog) # Absent
  /\ Cached(orderLog).deleting
  /\ LET listed == DOMAIN Cached(orderLog).status IN
     Begin(IF listed # {} THEN "cleanup" ELSE "removeFinalizer", NoAWs, {}, {}, listed)
  /\ UNCHANGED <<orderLog, awLog, cluster, userOps, faults>>

ReconcileNew ==
  /\ rec = Idle /\ queued
  /\ Cached(orderLog) # Absent
  /\ ~Cached(orderLog).deleting /\ ~Cached(orderLog).finalizer
  /\ Begin("addFinalizer", NoAWs, {}, {}, {})
  /\ UNCHANGED <<orderLog, awLog, cluster, userOps, faults>>

\* Faulty variant: ArtifactWorkflows are made before the finalizer is stored.
ReconcileOrderUnprotected ==
  /\ rec = Idle /\ queued
  /\ Cached(orderLog) # Absent
  /\ ~Cached(orderLog).deleting
  /\ LET order == Cached(orderLog)
         desired == DesiredAWs(order.spec, cluster)
         creates == DOMAIN desired \ DOMAIN order.status
         deletes == DOMAIN order.status \ DOMAIN desired
     IN IF AllFetched(order.spec, cluster)
        THEN Begin("apply", desired, creates, deletes, creates \union deletes)
        ELSE UNCHANGED <<rec, queued>>
  /\ UNCHANGED <<orderLog, awLog, cluster, userOps, faults>>

\* Compare the desired ArtifactWorkflows with the status.  When an Endpoint or
\* a Secret is missing the reconcile fails and is retried.
ReconcileOrder ==
  /\ rec = Idle /\ queued
  /\ Cached(orderLog) # Absent
  /\ ~Cached(orderLog).deleting /\ Cached(orderLog).finalizer
  /\ LET order == Cached(orderLog)
         desired == DesiredAWs(order.spec, cluster)
         creates == DOMAIN desired \ DOMAIN order.status
         deletes == DOMAIN order.status \ DOMAIN desired
     IN IF AllFetched(order.spec, cluster)
        THEN Begin("apply", desired, creates, deletes, creates \union deletes)
        ELSE UNCHANGED <<rec, queued>>
  /\ UNCHANGED <<orderLog, awLog, cluster, userOps, faults>>

\* Faulty variant: an unconditional update.
UpdateUnconditionally(obj, again) ==
  orderLog' = Write(orderLog, Purge(obj)) /\ Return(again)

\* Update and Status().Update of the working copy: a Conflict (NotFound) unless
\* the copy is the stored version.  A failed reconcile is queued again.
Update(obj, again) ==
  IF rec.current /\ InSync(orderLog)
  THEN orderLog' = Write(orderLog, Purge(obj)) /\ Return(again)
  ELSE UNCHANGED orderLog /\ Return(TRUE)

\* Deletion, one ArtifactWorkflow of the status after the other: the error of
\* a failed Delete is ignored.
Cleanup(s) ==
  /\ rec.pc = "cleanup"
  /\ s \in rec.todo
  /\ \/ awLog' = [awLog EXCEPT ![s] = Delete(@)] /\ UNCHANGED faults
     \/ UNCHANGED awLog /\ faults < MaxFaults /\ faults' = faults + 1
  /\ rec' = [rec EXCEPT !.todo = @ \ {s}]
  /\ UNCHANGED <<orderLog, cluster, queued, userOps>>

\* The status, now empty, is written and the Order is queued again.
CleanupStatus ==
  /\ rec.pc = "cleanup"
  /\ rec.todo = {}
  /\ Update([rec.order EXCEPT !.status = NoAWs], TRUE)
  /\ UNCHANGED <<awLog, cluster, userOps, faults>>

RemoveFinalizer ==
  /\ rec.pc = "removeFinalizer"
  /\ Update([rec.order EXCEPT !.finalizer = FALSE], FALSE)
  /\ UNCHANGED <<awLog, cluster, userOps, faults>>

AddFinalizer ==
  /\ rec.pc = "addFinalizer"
  /\ Update([rec.order EXCEPT !.finalizer = TRUE], FALSE)
  /\ UNCHANGED <<awLog, cluster, userOps, faults>>

NewArtifactWorkflow ==
  [owner |-> rec.order.uid, deleting |-> FALSE, finalizer |-> FALSE, phase |-> WorkflowUnknown]

\* Faulty variant: an ArtifactWorkflow that already exists is replaced.
CreateOrReplaceArtifactWorkflow(s) ==
  /\ rec.pc = "apply"
  /\ s \in rec.todo \intersect rec.creates
  /\ s.raw \notin Unparsable
  /\ awLog' = [awLog EXCEPT ![s] = Write(@, NewArtifactWorkflow)]
  /\ rec' = [rec EXCEPT !.todo = @ \ {s}]
  /\ UNCHANGED <<orderLog, cluster, queued, userOps, faults>>

\* Create a missing ArtifactWorkflow; one that already exists is left alone
\* and its status entry is made by the loop before the status update.
CreateArtifactWorkflow(s) ==
  /\ rec.pc = "apply"
  /\ s \in rec.todo \intersect rec.creates
  /\ s.raw \notin Unparsable
  /\ awLog' = [awLog EXCEPT ![s] = IF Stored(@) = Absent
                                   THEN Append(@, NewArtifactWorkflow) ELSE @]
  /\ rec' = [rec EXCEPT !.todo = @ \ {s}]
  /\ UNCHANGED <<orderLog, cluster, queued, userOps, faults>>

\* hydrateArtifactWorkflow fails: the reconcile ends before its status update,
\* whatever it has created so far.
RejectArtifact(s) ==
  /\ rec.pc = "apply"
  /\ s \in rec.todo \intersect rec.creates
  /\ s.raw \in Unparsable
  /\ Return(TRUE)
  /\ UNCHANGED <<orderLog, awLog, cluster, userOps, faults>>

\* Delete an obsolete one, once all the missing ones are created.
DeleteArtifactWorkflow(s) ==
  /\ rec.pc = "apply"
  /\ rec.todo \intersect rec.creates = {}
  /\ s \in rec.todo \intersect rec.deletes
  /\ awLog' = [awLog EXCEPT ![s] = Delete(@)]
  /\ rec' = [rec EXCEPT !.todo = @ \ {s}]
  /\ UNCHANGED <<orderLog, cluster, queued, userOps, faults>>

\* Faulty variant: the index counts from zero here and from one elsewhere.
NextStatusOffByOne ==
  [s \in DOMAIN rec.desired |->
     [index |-> rec.desired[s] - 1,
      phase |-> IF s \in rec.creates THEN WorkflowUnknown ELSE Cached(awLog[s]).phase]]

\* The status the reconcile ends with: obsolete entries are gone, a new entry
\* has no phase yet, every other one has the phase of the cached
\* ArtifactWorkflow, and all have the index of their artifact.
NextStatus ==
  [s \in DOMAIN rec.desired |->
     [index |-> rec.desired[s],
      phase |-> IF s \in rec.creates THEN WorkflowUnknown ELSE Cached(awLog[s]).phase]]

\* Faulty variant: a changed phase alone is no reason to write the status.
SyncPhasesLazily ==
  /\ rec.pc = "apply"
  /\ rec.todo = {}
  /\ IF \E s \in DOMAIN rec.desired \ rec.creates : Cached(awLog[s]) = Absent
     THEN Return(TRUE)
     ELSE IF rec.creates # {} \/ rec.deletes # {}
     THEN /\ rec' = [rec EXCEPT !.pc = "updateStatus", !.order.status = NextStatus]
          /\ UNCHANGED queued
     ELSE Return(FALSE)
  /\ UNCHANGED <<orderLog, awLog, cluster, userOps, faults>>

\* Read the phases of the ArtifactWorkflows that were not just created.  A
\* missing one is an error; without a change there is nothing to write, even
\* if an index has changed.
SyncPhases ==
  /\ rec.pc = "apply"
  /\ rec.todo = {}
  /\ LET kept == DOMAIN rec.desired \ rec.creates IN
     IF \E s \in kept : Cached(awLog[s]) = Absent
     THEN Return(TRUE)
     ELSE IF \/ rec.creates # {} \/ rec.deletes # {}
             \/ \E s \in kept : rec.order.status[s].phase # Cached(awLog[s]).phase
     THEN /\ rec' = [rec EXCEPT !.pc = "updateStatus", !.order.status = NextStatus]
          /\ UNCHANGED queued
     ELSE Return(FALSE)
  /\ UNCHANGED <<orderLog, awLog, cluster, userOps, faults>>

UpdateStatus ==
  /\ rec.pc = "updateStatus"
  /\ Update(rec.order, FALSE)
  /\ UNCHANGED <<awLog, cluster, userOps, faults>>

\* Faulty variant: the error is logged and not returned.
FailSilently ==
  /\ rec # Idle
  /\ rec.pc = "cleanup" => rec.todo = {}
  /\ faults < MaxFaults
  /\ faults' = faults + 1
  /\ Return(FALSE)
  /\ UNCHANGED <<orderLog, awLog, cluster, userOps>>

\* The next call fails, and with it the reconcile.
Fail ==
  /\ rec # Idle
  /\ rec.pc = "cleanup" => rec.todo = {}
  /\ faults < MaxFaults
  /\ faults' = faults + 1
  /\ Return(TRUE)
  /\ UNCHANGED <<orderLog, awLog, cluster, userOps>>

\* The manager stops anywhere and starts again: the first list queues the
\* Order if it exists.
Crash ==
  /\ faults < MaxFaults
  /\ faults' = faults + 1
  /\ rec' = Idle
  /\ queued' = (Cached(orderLog) # Absent)
  /\ UNCHANGED <<orderLog, awLog, cluster, userOps>>

-----------------------------------------------------------------------------
(* Watches: For(Order), Owns(ArtifactWorkflow), Watches(Endpoint) *)

DeliverOrder ==
  /\ ~InSync(orderLog)
  /\ orderLog' = Tail(orderLog)
  /\ queued' = TRUE
  /\ rec' = IF rec = Idle THEN rec ELSE [rec EXCEPT !.current = FALSE]
  /\ UNCHANGED <<awLog, cluster, userOps, faults>>

\* Faulty variant: the controller does not own ArtifactWorkflows.
DeliverArtifactWorkflowUnowned(s) ==
  /\ ~InSync(awLog[s])
  /\ awLog' = [awLog EXCEPT ![s] = Tail(@)]
  /\ UNCHANGED <<orderLog, cluster, queued, rec, userOps, faults>>

DeliverArtifactWorkflow(s) ==
  /\ ~InSync(awLog[s])
  /\ awLog' = [awLog EXCEPT ![s] = Tail(@)]
  /\ queued' = TRUE
  /\ UNCHANGED <<orderLog, cluster, rec, userOps, faults>>

\* The fields the manager registers an index of Orders for.
IndexedFields == {}

\* generateReconcileRequestsForEndpoint lists the Orders by two fields.  A List
\* by a field without index fails, and then no request is made.
RequestsForEndpoint == {".spec.srcRef.name", ".spec.dstRef.name"} \subseteq IndexedFields

\* A user creates, changes or deletes Endpoints or Secrets.  Secrets are not
\* watched at all.
ChangeCluster(c) ==
  /\ userOps < MaxUserOps
  /\ c # cluster
  /\ cluster' = c
  /\ queued' = (queued \/ RequestsForEndpoint)
  /\ userOps' = userOps + 1
  /\ UNCHANGED <<orderLog, awLog, rec, faults>>

\* The periodic resync of the informer repeats the event of a cached Order.
Resync ==
  /\ Cached(orderLog) # Absent
  /\ queued' = TRUE
  /\ UNCHANGED <<orderLog, awLog, cluster, rec, userOps, faults>>

-----------------------------------------------------------------------------
(* Environment *)

CreateOrder(spec) ==
  /\ userOps < MaxUserOps
  /\ ~Exists(orderLog)
  /\ orderLog' = Append(orderLog, [uid |-> userOps + 1, deleting |-> FALSE, finalizer |-> FALSE,
                                   spec |-> spec, status |-> NoAWs])
  /\ userOps' = userOps + 1
  /\ UNCHANGED <<awLog, cluster, queued, rec, faults>>

EditOrder(spec) ==
  /\ userOps < MaxUserOps
  /\ Exists(orderLog)
  /\ spec # Stored(orderLog).spec
  /\ orderLog' = Append(orderLog, [Stored(orderLog) EXCEPT !.spec = spec])
  /\ userOps' = userOps + 1
  /\ UNCHANGED <<awLog, cluster, queued, rec, faults>>

DeleteOrder ==
  /\ userOps < MaxUserOps
  /\ Exists(orderLog)
  /\ ~Stored(orderLog).deleting
  /\ orderLog' = Delete(orderLog)
  /\ userOps' = userOps + 1
  /\ UNCHANGED <<awLog, cluster, queued, rec, faults>>

\* A user deletes an ArtifactWorkflow by hand.
DeleteByHand(s) ==
  /\ ByHand
  /\ userOps < MaxUserOps
  /\ Exists(awLog[s])
  /\ ~Stored(awLog[s]).deleting
  /\ awLog' = [awLog EXCEPT ![s] = Delete(@)]
  /\ userOps' = userOps + 1
  /\ UNCHANGED <<orderLog, cluster, queued, rec, faults>>

\* An ArtifactWorkflow whose owner is gone, or is another Order by now.
Ownerless(s) ==
  /\ Exists(awLog[s])
  /\ Exists(orderLog) => Stored(orderLog).uid # Stored(awLog[s]).owner

\* The garbage collector of the cluster deletes it.
CollectGarbage(s) ==
  /\ Ownerless(s)
  /\ ~Stored(awLog[s]).deleting
  /\ awLog' = [awLog EXCEPT ![s] = Delete(@)]
  /\ UNCHANGED <<orderLog, cluster, queued, rec, userOps, faults>>

\* What the ArtifactWorkflow controller does to an ArtifactWorkflow.
AWWrites(s, obj) ==
  /\ Room(awLog[s], MaxLag)
  /\ awLog' = [awLog EXCEPT ![s] = Write(@, obj)]
  /\ UNCHANGED <<orderLog, cluster, queued, rec, userOps, faults>>

AWAddsFinalizer(s) ==
  /\ Exists(awLog[s])
  /\ ~Stored(awLog[s]).deleting
  /\ AWWrites(s, [Stored(awLog[s]) EXCEPT !.finalizer = TRUE])

AWSetsPhase(s, p) ==
  /\ Exists(awLog[s])
  /\ Stored(awLog[s]).finalizer /\ ~Stored(awLog[s]).deleting
  /\ ~Completed(Stored(awLog[s]).phase)
  /\ AWWrites(s, [Stored(awLog[s]) EXCEPT !.phase = p])

AWRemovesFinalizer(s) ==
  /\ Exists(awLog[s])
  /\ Stored(awLog[s]).deleting
  /\ AWWrites(s, Absent)

-----------------------------------------------------------------------------
Reconcile == ReconcileGone \/ ReconcileDeleting \/ ReconcileNew \/ ReconcileOrder

Worker ==
  \/ Reconcile
  \/ \E s \in Shas :
       Cleanup(s) \/ CreateArtifactWorkflow(s) \/ RejectArtifact(s) \/ DeleteArtifactWorkflow(s)
  \/ CleanupStatus \/ RemoveFinalizer \/ AddFinalizer \/ SyncPhases \/ UpdateStatus

Environment ==
  \/ \E spec \in OrderSpecs : CreateOrder(spec) \/ EditOrder(spec)
  \/ DeleteOrder
  \/ \E c \in Clusters : ChangeCluster(c)
  \/ \E s \in Shas :
       \/ DeleteByHand(s) \/ CollectGarbage(s)
       \/ AWAddsFinalizer(s) \/ AWRemovesFinalizer(s)
       \/ \E p \in AWPhases : AWSetsPhase(s, p)

Next ==
  \/ Worker \/ Fail \/ Crash
  \/ DeliverOrder \/ Resync
  \/ \E s \in Shas : DeliverArtifactWorkflow(s)
  \/ Environment

Spec == Init /\ [][Next]_vars

\* The worker runs, watch events arrive, the garbage collector collects, and
\* the ArtifactWorkflow controller lets go of what is deleted.
Fairness ==
  /\ WF_vars(Worker)
  /\ WF_vars(DeliverOrder)
  /\ \A s \in Shas :
       /\ WF_vars(DeliverArtifactWorkflow(s))
       /\ WF_vars(CollectGarbage(s))
       /\ WF_vars(AWRemovesFinalizer(s))

FairSpec == Spec /\ Fairness

-----------------------------------------------------------------------------
(* Properties *)

\* Histories, the worker and the counters have their types; the indices of
\* the status and of the desired ArtifactWorkflows are indices of artifacts.
TypeOK ==
  /\ orderLog \in Seq(Order \union {Absent}) /\ orderLog # <<>>
  /\ awLog \in [Shas -> Seq(ArtifactWorkflow \union {Absent})]
  /\ \A s \in Shas : awLog[s] # <<>>
  /\ cluster \in Clusters
  /\ queued \in BOOLEAN
  /\ rec = Idle \/ rec \in Busy
  /\ userOps \in 0..MaxUserOps
  /\ faults \in 0..MaxFaults

OrderLive == Exists(orderLog) /\ ~Stored(orderLog).deleting

\* Nothing is left to do: no request, no reconcile, no event under way.
Quiescent ==
  /\ ~queued /\ rec = Idle
  /\ InSync(orderLog)
  /\ \A s \in Shas : InSync(awLog[s])

\* The controller does not stop early: when it has come to rest, the status of
\* a live Order lists exactly the desired ArtifactWorkflows, they exist, and
\* it shows their phases.  No event is lost between two reconciles, the
\* "Return without requeue" after adding the finalizer included.
RestMeansDone ==
  Quiescent /\ OrderLive =>
    LET order == Stored(orderLog) IN
    /\ order.finalizer
    /\ AllFetched(order.spec, cluster)
    /\ DOMAIN order.status = DOMAIN DesiredAWs(order.spec, cluster)
    /\ \A s \in DOMAIN order.status :
         Exists(awLog[s]) /\ order.status[s].phase = Stored(awLog[s]).phase

\* A user's edit is never undone: both finalizer updates and every status
\* update write a whole copy of the Order, but only the spec just stored.
EditsSurvive ==
  [][Exists(orderLog) /\ Exists(orderLog)' /\ Stored(orderLog)'.spec # Stored(orderLog).spec
       => userOps' # userOps]_vars

\* An Order goes only once its stored status is empty: the reconcile that
\* removes the finalizer has seen the status the cleanup wrote, so a Delete was
\* tried for all that was still listed when the Order was deleted.
GoesWithEmptyStatus ==
  [][Exists(orderLog) /\ ~Exists(orderLog)' => DOMAIN Stored(orderLog).status = {}]_vars

\* An Order that owns ArtifactWorkflows has the finalizer, so it does not go
\* without the cleanup: none is created before the finalizer is stored, nor, by
\* a reconcile that works from an outdated copy, after the Order is gone.
OwnerProtected ==
  \A s \in Shas :
    Exists(awLog[s]) /\ Exists(orderLog) /\ Stored(awLog[s]).owner = Stored(orderLog).uid
      => Stored(orderLog).finalizer

\* The controller implements OrderLife: seen at the API server, an Order and
\* its ArtifactWorkflows come and go in the order promised there, and a status
\* fits the spec it is stored with, whatever the caches show and whichever
\* calls fail.
StoredOrder == Stored(orderLog)

StoredAWs == [s \in Shas |-> Stored(awLog[s])]

Runnable == {s \in Shas : s.raw \notin Unparsable}

Wanted == [spec \in OrderSpecs |->
             {DesiredAWs(spec, c) : c \in {d \in Clusters : AllFetched(spec, d)}}]

Life == INSTANCE OrderLife WITH order <- StoredOrder, aw <- StoredAWs

ImplementsOrderLife == Life!Spec

\* "Eventually only one fragment should exist" (order_controller_test.go:402):
\* when the controller has come to rest no ArtifactWorkflow of the Order is
\* left behind that the Order does not ask for.
NoFragmentLeftBehind ==
  Quiescent /\ OrderLive =>
    \A s \in Shas :
      Exists(awLog[s]) /\ ~Stored(awLog[s]).deleting =>
        s \in DOMAIN DesiredAWs(Stored(orderLog).spec, cluster)

\* "ArtifactIndex references back the index the corresponding artifact has in
\* the .Spec" (order_types.go): it does when the controller has come to rest.
IndexUpToDate ==
  Quiescent /\ OrderLive =>
    \A s \in DOMAIN Stored(orderLog).status :
      Stored(orderLog).status[s].index = DesiredAWs(Stored(orderLog).spec, cluster)[s]

\* "generates reconcile requests for all Endpoints referenced by an Order"
\* (order_controller.go:311): when the controller has come to rest the status
\* lists what the Order asks for with the Endpoints as they are now.
EndpointChangesReconciled ==
  Quiescent /\ OrderLive =>
    DOMAIN Stored(orderLog).status = DOMAIN DesiredAWs(Stored(orderLog).spec, cluster)

\* "When an `Endpoint` or referenced `Secret` changes (detected via generation
\* tracking), the controller automatically recreates the rendered configuration
\* and triggers `ArtifactWorkflow` recreation" (001-ARC-Architecture.md): what
\* an Order asks for is another ArtifactWorkflow once an Endpoint it uses has
\* changed.
EndpointChangeDetected ==
  [][OrderLive /\ AllFetched(Stored(orderLog).spec, cluster) =>
       \A i \in DOMAIN Stored(orderLog).spec.artifacts :
         LET spec == Stored(orderLog).spec
             a == spec.artifacts[i]
             src == SrcRefName(spec, a)
         IN cluster'.endpoints[src] # cluster.endpoints[src] /\ Fetched(cluster', src)
              => Sha(spec, cluster', a) # Sha(spec, cluster, a)]_vars

\* All that is needed to fulfil the Order is there.
Feasible == LET spec == Stored(orderLog).spec IN AllFetched(spec, cluster) /\ AllParsable(spec)

\* Every desired ArtifactWorkflow exists and is listed in the status.
Fulfilled ==
  LET order == Stored(orderLog) IN
  /\ OrderLive
  /\ AllFetched(order.spec, cluster)
  /\ \A s \in DOMAIN DesiredAWs(order.spec, cluster) :
       s \in DOMAIN order.status /\ Exists(awLog[s])

\* "Controllers continuously reconcile actual state toward desired state"
\* (core-concepts.md): an Order that is not deleted is fulfilled in the end,
\* and stays so, once the Endpoints and Secrets it needs are there and its
\* artifact specs can be parsed, whatever was missing, failed or crashed on
\* the way.  It holds within two operations of users and without deletion by
\* hand, for an Order nobody edits; an artifact that is removed and added again
\* can leave the Order stuck for good.
OrderFulfilled == <>[](OrderLive /\ Feasible) => <>[]Fulfilled

\* The result of an ArtifactWorkflow reaches the status of its Order, unless
\* either goes first, or the Order lacks an Endpoint or a Secret or has an
\* artifact spec that cannot be parsed: what is wrong with one artifact holds
\* back the results of all.
ResultReachesOrder ==
  \A s \in Shas :
    (Exists(awLog[s]) /\ Completed(Stored(awLog[s]).phase)) ~>
      \/ ~OrderLive \/ ~Exists(awLog[s]) \/ ~Feasible
      \/ /\ s \in DOMAIN Stored(orderLog).status
         /\ Stored(orderLog).status[s].phase = Stored(awLog[s]).phase

\* "Eventually all fragments should be gone" (order_controller_test.go:324): a
\* deleted Order goes, and all it owned is removed, even what its status never
\* listed or what it failed to delete.
DeletedOrderLeavesNothing ==
  \A u \in UIDs :
    (Exists(orderLog) /\ Stored(orderLog).uid = u /\ Stored(orderLog).deleting) ~>
      /\ Exists(orderLog) => Stored(orderLog).uid # u
      /\ \A s \in Shas : Exists(awLog[s]) => Stored(awLog[s]).owner # u
=============================================================================
