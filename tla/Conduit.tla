------------------------------- MODULE Conduit -------------------------------
(***************************************************************************)
(* The controller manager (cmd/arc-controller-manager): both controllers   *)
(* in one process, with one cache of the ArtifactWorkflows.  What either   *)
(* module leaves to its environment is done by the other one here: the     *)
(* Order controller creates and deletes the ArtifactWorkflows that the     *)
(* ArtifactWorkflow controller runs and reports on.  Users, the garbage    *)
(* collector and Argo remain.                                              *)
(***************************************************************************)
EXTENDS DesiredArtifactWorkflows, WorkflowPhase

CONSTANTS
  OrderSpecs,     \* the specs users give the Order
  Clusters,       \* the Endpoints and Secrets there may be
  ArgoPhases,     \* the phases Argo takes Workflows through in an instance
  MaxLag,         \* bound: Argo leaves a Workflow alone at this length of its history
  MaxUserOps,     \* bound: what users do in a behaviour
  MaxFaults       \* bound: failed API calls and crashes in a behaviour

VARIABLES
  orderLog, awLog, cluster, queued, rec, userOps, faults,
  wfLog, ready, awQueue, awRec, awFaults

orderSide == <<orderLog, cluster, queued, rec, userOps, faults>>

awSide == <<wfLog, ready, awQueue, awRec, awFaults>>

conduitVars == <<awLog, orderSide, awSide>>

\* The two controllers, with what is proved of each on its own.
O == INSTANCE OrderRefinement WITH ByHand <- FALSE, MaxLag <- NoBound, AWPhases <- Phases

A == INSTANCE ArtifactWorkflowRefinement WITH
       Names <- Shas, Owners <- 1..MaxUserOps, MaxLag <- NoBound, ReuseLag <- NoBound

ASSUME ConduitAssumption ==
  /\ OrderSpecs \subseteq OrderSpec
  /\ Clusters \subseteq Cluster
  /\ MaxUserOps \in Nat /\ MaxFaults \in Nat
  /\ Absent \notin O!Order /\ Absent \notin A!ArtifactWorkflow /\ Absent \notin A!Workflow

ConduitInit == O!Init /\ A!AWInit

-----------------------------------------------------------------------------
\* The two workers run side by side.
OrderWorker == O!Worker /\ UNCHANGED awSide

AWWorker == A!AWWorker /\ UNCHANGED orderSide

\* A call of one of them fails; the process stops and starts again, and with
\* it both.
Fault ==
  /\ faults + awFaults < MaxFaults
  /\ \/ O!Fail /\ UNCHANGED awSide
     \/ A!AWFail /\ UNCHANGED orderSide
     \/ O!Crash /\ A!AWCrash

\* One informer hands the event of an ArtifactWorkflow to both controllers.
DeliverOrder == O!DeliverOrder /\ UNCHANGED awSide

DeliverArtifactWorkflow(s) == O!DeliverArtifactWorkflow(s) /\ A!DeliverArtifactWorkflow(s)

DeliverWorkflow(s) == A!DeliverWorkflow(s) /\ UNCHANGED orderSide

WatchEvent ==
  \/ DeliverOrder
  \/ \E s \in Shas : DeliverArtifactWorkflow(s) \/ DeliverWorkflow(s)

UserStep ==
  /\ \/ \E spec \in OrderSpecs : O!CreateOrder(spec) \/ O!EditOrder(spec)
     \/ O!DeleteOrder
     \/ \E c \in Clusters : O!ChangeCluster(c)
  /\ UNCHANGED awSide

CollectGarbage(s) == O!CollectGarbage(s) /\ UNCHANGED awSide

ArgoStep(s) ==
  /\ Room(wfLog[s], MaxLag)
  /\ A!ArgoStep(s)
  /\ Stored(wfLog'[s]).phase \in ArgoPhases
  /\ UNCHANGED orderSide

ConduitNext ==
  \/ OrderWorker \/ AWWorker \/ Fault
  \/ WatchEvent \/ UserStep
  \/ \E s \in Shas : CollectGarbage(s) \/ ArgoStep(s)

ConduitSpec == ConduitInit /\ [][ConduitNext]_conduitVars

\* Both workers run, and take their requests in turn; events arrive, the
\* garbage collector collects and Argo runs what it is given.
ConduitFairness ==
  /\ WF_conduitVars(OrderWorker)
  /\ WF_conduitVars(AWWorker /\ awRec # A!Idle)
  /\ WF_conduitVars(DeliverOrder)
  /\ \A s \in Shas :
       /\ SF_conduitVars(A!Reconcile(s) /\ UNCHANGED orderSide)
       /\ WF_conduitVars(DeliverArtifactWorkflow(s)) /\ WF_conduitVars(DeliverWorkflow(s))
       /\ WF_conduitVars(CollectGarbage(s)) /\ WF_conduitVars(ArgoStep(s))

ConduitFairSpec == ConduitSpec /\ ConduitFairness

-----------------------------------------------------------------------------
(* Properties *)

\* What OrderController assumes of the ArtifactWorkflow controller is true.
ImplementsOrder == O!Spec

\* What ArtifactWorkflowController assumes of the Order controller is true.
ImplementsArtifactWorkflow == A!AWSpec

\* What runs is protected up to its Order: a Workflow has an ArtifactWorkflow
\* with finalizer, and the Order that owns it has one too, so that neither goes
\* before its controller has cleaned up.
WorkflowProtected ==
  \A s \in Shas :
    Exists(wfLog[s]) =>
      LET aw == Stored(awLog[s]) IN
      /\ Exists(awLog[s]) /\ aw.finalizer
      /\ Exists(orderLog) /\ Stored(orderLog).uid = aw.owner => Stored(orderLog).finalizer

\* The Order is there, and the Endpoints, Secrets and ArtifactTypes it needs.
Deliverable ==
  /\ O!OrderLive
  /\ O!Feasible
  /\ DOMAIN DesiredAWs(Stored(orderLog).spec, cluster) \subseteq ready

\* Every desired Workflow has run for this Order, which shows the result.
Delivered ==
  LET order == Stored(orderLog) IN
  /\ Deliverable
  /\ \A s \in DOMAIN DesiredAWs(order.spec, cluster) :
       /\ Exists(awLog[s]) /\ Stored(awLog[s]).owner = order.uid
       /\ Exists(wfLog[s]) /\ Completed(Stored(wfLog[s]).phase)
       /\ s \in DOMAIN order.status /\ order.status[s].phase = Stored(wfLog[s]).phase

\* What an Order asks for is run, and the Order shows the results: once all it
\* needs is there, both controllers together bring the result of every Workflow
\* into the status of the Order, whatever failed or crashed on the way.  It holds
\* within two operations of users: with a third, an artifact or an Order that is
\* there again before what it left behind is gone can be stuck for good.
OrderDelivered == <>[]Deliverable => <>[]Delivered

\* "Eventually all fragments should be gone" (order_controller_test.go:324),
\* Workflows included: nothing is left, and nothing runs on, when an Order is
\* deleted, not even what its status never listed.
NothingRunsOn ==
  <>[](~O!OrderLive) =>
    <>[](~Exists(orderLog) /\ \A s \in Shas : ~Exists(awLog[s]) /\ ~Exists(wfLog[s]))
=============================================================================
