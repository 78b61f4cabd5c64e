---------------------------- MODULE ConduitProofs ----------------------------
(***************************************************************************)
(* The composition implements both specifications it is composed of: what  *)
(* either controller assumes of its environment, the other one guarantees. *)
(* Every theorem about one controller then holds of the whole manager.     *)
(***************************************************************************)
EXTENDS Conduit, TLAPS

\* The definitions both modules share mean the same in either.
LEMMA SharedDefinitions ==
  /\ O!Shas = Shas /\ O!Phases = Phases /\ A!Phases = Phases
  /\ O!OrderSpec = OrderSpec /\ O!Cluster = Cluster
  /\ O!ArtifactWorkflow = A!ArtifactWorkflow
<1>1. O!Refs = Refs /\ O!SecretRefs = SecretRefs
  BY DEF O!Refs, Refs, O!SecretRefs, SecretRefs
<1>2. O!Shas = Shas
  BY <1>1 DEF O!Shas, Shas, O!EndpointGeneration, EndpointGeneration
<1>3. O!Phases = Phases /\ A!Phases = Phases
  BY DEF O!Phases, A!Phases, Phases, O!WorkflowUnknown, A!WorkflowUnknown, WorkflowUnknown
<1>4. O!OrderSpec = OrderSpec
  BY <1>1 DEF O!OrderSpec, OrderSpec, O!Artifact, Artifact
<1>5. O!Cluster = Cluster
  BY <1>1 DEF O!Cluster, Cluster, O!Endpoint, Endpoint, O!EndpointGeneration, EndpointGeneration
<1>6. O!ArtifactWorkflow = A!ArtifactWorkflow
  BY <1>3 DEF O!ArtifactWorkflow, A!ArtifactWorkflow, O!UIDs
<1> QED
  BY <1>2, <1>3, <1>4, <1>5, <1>6

\* What the two modules assume of their constants holds.
LEMMA Instances ==
  /\ O!InstanceAssumption /\ O!AbsentAssumption
  /\ A!AbsentAssumption /\ A!BoundAssumption
BY SharedDefinitions, ConduitAssumption

-----------------------------------------------------------------------------
(* The steps of the composition, seen by either controller *)

\* To the ArtifactWorkflow controller, the Order controller and the garbage
\* collector are the environment that creates and deletes ArtifactWorkflows.
LEMMA ArtifactWorkflowSide ==
  ASSUME O!TypeOK, [ConduitNext]_conduitVars
  PROVE  [A!AWNext]_(A!awVars)
<1> DEFINE Goal == [A!AWNext]_(A!awVars)
<1>1. ASSUME UNCHANGED <<awLog, awSide>> PROVE Goal
  BY <1>1 DEF awSide, A!awVars
<1>2. ASSUME NEW s \in Shas, O!Exists(awLog[s]), UNCHANGED awSide,
             awLog' = [awLog EXCEPT ![s] = O!Delete(awLog[s])]
      PROVE  Goal
  <2>1. awLog' = [awLog EXCEPT ![s] = A!Delete(awLog[s])] /\ A!Exists(awLog[s])
    BY <1>2 DEF O!Delete, A!Delete, O!Exists, A!Exists, O!Stored, A!Stored,
                O!Purge, A!Purge, O!Write, A!Write
  <2>2. A!EnvDelete(s)
    BY <1>2, <2>1 DEF A!EnvDelete, A!Room, awSide
  <2> QED
    BY <2>2 DEF A!AWNext
<1>3. CASE OrderWorker
  <2>1. CASE awLog' = awLog
    BY <1>1, <1>3, <2>1 DEF OrderWorker
  <2>2. CASE awLog' # awLog
    <3>1. PICK s \in Shas :
            \/ /\ O!Exists(awLog[s])
               /\ awLog' = [awLog EXCEPT ![s] = O!Delete(awLog[s])]
            \/ /\ ~O!Exists(awLog[s])
               /\ \E o \in O!UIDs :
                    awLog' = [awLog EXCEPT ![s] = Append(awLog[s], O!CreatedFor(o))]
      BY <1>3, <2>2, Instances, SharedDefinitions, O!WorkerWritesAW DEF OrderWorker
    <3>2. CASE O!Exists(awLog[s])
      BY <1>2, <1>3, <3>1, <3>2 DEF OrderWorker
    <3>3. CASE ~O!Exists(awLog[s])
      <4>1. PICK o \in O!UIDs : awLog' = [awLog EXCEPT ![s] = Append(awLog[s], O!CreatedFor(o))]
        BY <3>1, <3>3
      <4>2. O!CreatedFor(o) = A!NewArtifactWorkflow(o)
        BY DEF O!CreatedFor, A!NewArtifactWorkflow, O!WorkflowUnknown, A!WorkflowUnknown
      <4>3. A!EnvCreate(s, o)
        BY <1>3, <3>3, <4>1, <4>2 DEF A!EnvCreate, A!Room, OrderWorker, awSide,
             O!Exists, A!Exists, O!Stored, A!Stored
      <4> QED
        BY <4>1, <4>3 DEF A!AWNext, O!UIDs
    <3> QED
      BY <3>2, <3>3
  <2> QED
    BY <2>1, <2>2
<1>4. CASE AWWorker
  BY <1>4 DEF AWWorker, A!AWNext
<1>5. CASE Fault
  BY <1>1, <1>5 DEF Fault, A!AWNext, O!Fail
<1>6. CASE WatchEvent
  BY <1>1, <1>6 DEF WatchEvent, DeliverOrder, O!DeliverOrder, DeliverArtifactWorkflow,
       DeliverWorkflow, A!AWNext
<1>7. CASE UserStep
  BY <1>1, <1>7 DEF UserStep, O!CreateOrder, O!EditOrder, O!DeleteOrder, O!ChangeCluster
<1>8. ASSUME NEW s \in Shas, CollectGarbage(s) PROVE Goal
  BY <1>2, <1>8 DEF CollectGarbage, O!CollectGarbage, O!Ownerless
<1>9. ASSUME NEW s \in Shas, ArgoStep(s) PROVE Goal
  BY <1>9 DEF ArgoStep, A!AWNext
<1>10. CASE UNCHANGED conduitVars
  BY <1>1, <1>10 DEF conduitVars
<1> QED
  BY <1>3, <1>4, <1>5, <1>6, <1>7, <1>8, <1>9, <1>10 DEF ConduitNext

\* To the Order controller, the ArtifactWorkflow controller is the environment
\* that adds and removes its finalizer and sets phases.
LEMMA OrderSide ==
  ASSUME A!AWTypeOK, A!AWInv, [ConduitNext]_conduitVars
  PROVE  [O!Next]_(O!vars)
<1> DEFINE Goal == [O!Next]_(O!vars)
<1>1. ASSUME UNCHANGED <<awLog, orderSide>> PROVE Goal
  BY <1>1 DEF orderSide, O!vars
<1>2. CASE AWWorker
  <2>1. CASE awLog' = awLog
    BY <1>1, <1>2, <2>1 DEF AWWorker
  <2>2. CASE awLog' # awLog
    <3>1. PICK s \in Shas, obj \in A!AWVersions :
            /\ A!Exists(awLog[s])
            /\ awLog' = [awLog EXCEPT ![s] = A!Write(awLog[s], obj)]
            /\ A!OwnChange(A!Stored(awLog[s]), obj)
      BY <1>2, <2>2, Instances, A!WorkerWrites DEF AWWorker
    <3> DEFINE aw == O!Stored(awLog[s])
    <3>2. A!Stored(awLog[s]) = aw /\ O!Exists(awLog[s])
      BY <3>1 DEF A!Stored, O!Stored, A!Exists, O!Exists
    <3>3. O!AWWrites(s, obj)
      BY <1>2, <3>1 DEF O!AWWrites, O!Room, AWWorker, orderSide, A!Write, O!Write,
           A!Stored, O!Stored
    <3>4. O!Environment => Goal
      BY DEF O!Next
    <3>5. s \in O!Shas
      BY SharedDefinitions
    <3>6. CASE aw.deleting /\ obj = Absent
      <4>1. O!AWRemovesFinalizer(s)
        BY <3>2, <3>3, <3>6 DEF O!AWRemovesFinalizer
      <4> QED
        BY <3>4, <3>5, <4>1 DEF O!Environment
    <3>7. CASE ~aw.deleting /\ obj = [aw EXCEPT !.finalizer = TRUE]
      <4>1. O!AWAddsFinalizer(s)
        BY <3>2, <3>3, <3>7 DEF O!AWAddsFinalizer
      <4> QED
        BY <3>4, <3>5, <4>1 DEF O!Environment
    <3>8. CASE /\ aw.finalizer /\ ~aw.deleting /\ ~A!Completed(aw.phase)
               /\ \E p \in A!Phases : obj = [aw EXCEPT !.phase = p]
      <4>1. PICK p \in Phases : obj = [aw EXCEPT !.phase = p]
        BY <3>8, SharedDefinitions
      <4>2. ~O!Completed(aw.phase)
        BY <3>8 DEF O!Completed, A!Completed
      <4>3. O!AWSetsPhase(s, p)
        BY <3>2, <3>3, <3>8, <4>1, <4>2 DEF O!AWSetsPhase
      <4> QED
        BY <3>4, <3>5, <4>3 DEF O!Environment
    <3> QED
      BY <3>1, <3>2, <3>6, <3>7, <3>8 DEF A!OwnChange
  <2> QED
    BY <2>1, <2>2
<1>3. CASE OrderWorker
  BY <1>3 DEF OrderWorker, O!Next
<1>4. CASE Fault
  BY <1>1, <1>4 DEF Fault, O!Next, A!AWFail
<1>5. CASE WatchEvent
  BY <1>1, <1>5, SharedDefinitions DEF WatchEvent, DeliverOrder, DeliverArtifactWorkflow,
       DeliverWorkflow, A!DeliverWorkflow, O!Next
<1>6. CASE UserStep
  BY <1>6 DEF UserStep, O!Next, O!Environment
<1>7. ASSUME NEW s \in Shas, CollectGarbage(s) PROVE Goal
  BY <1>7, SharedDefinitions DEF CollectGarbage, O!Next, O!Environment
<1>8. ASSUME NEW s \in Shas, ArgoStep(s) PROVE Goal
  BY <1>1, <1>8 DEF ArgoStep, A!ArgoStep
<1>9. CASE UNCHANGED conduitVars
  BY <1>1, <1>9 DEF conduitVars
<1> QED
  BY <1>2, <1>3, <1>4, <1>5, <1>6, <1>7, <1>8, <1>9 DEF ConduitNext

-----------------------------------------------------------------------------
(* The composition implements both *)

\* Neither implementation can be shown alone: that the Order controller creates
\* ArtifactWorkflows for Orders takes its types, and that the ArtifactWorkflow
\* controller sets no phase it must not set takes its invariant.
ConduitInv == O!TypeOK /\ A!AWTypeOK /\ A!AWInv

\* Initially and with every step, the invariants of both controllers hold.
LEMMA ConduitInvariant == ConduitSpec => []ConduitInv
<1>1. ConduitInit => ConduitInv
  BY Instances, O!TypeInit, A!AWTypeInit, A!AWInvInit DEF ConduitInit, ConduitInv
<1>2. ConduitInv /\ [ConduitNext]_conduitVars => ConduitInv'
  <2> SUFFICES ASSUME ConduitInv, [ConduitNext]_conduitVars PROVE ConduitInv'
    OBVIOUS
  <2>1. [A!AWNext]_(A!awVars)
    BY ArtifactWorkflowSide DEF ConduitInv
  <2>2. [O!Next]_(O!vars)
    BY OrderSide DEF ConduitInv
  <2>3. O!TypeOK'
    BY <2>2, Instances, O!TypeInductive DEF ConduitInv
  <2>4. A!AWTypeOK'
    BY <2>1, Instances, A!TypeInductive DEF ConduitInv
  <2>5. A!AWInv'
    BY <2>1, Instances, A!AWInvInductive DEF ConduitInv
  <2> QED
    BY <2>3, <2>4, <2>5 DEF ConduitInv
<1> QED
  BY <1>1, <1>2, PTL DEF ConduitSpec

\* The manager implements the ArtifactWorkflow controller's specification: the
\* Order controller, with all its stale caches and repeated calls, creates an
\* ArtifactWorkflow only where there is none and otherwise only deletes.
THEOREM ManagerImplementsArtifactWorkflow == ConduitSpec => ImplementsArtifactWorkflow
<1>1. ConduitInit => A!AWInit
  BY DEF ConduitInit
<1>2. ConduitInv /\ [ConduitNext]_conduitVars => [A!AWNext]_(A!awVars)
  BY ArtifactWorkflowSide DEF ConduitInv
<1> QED
  BY <1>1, <1>2, ConduitInvariant, PTL DEF ConduitSpec, ImplementsArtifactWorkflow, A!AWSpec

\* The manager implements the Order controller's specification: the
\* ArtifactWorkflow controller never touches an ArtifactWorkflow in a way the
\* Order controller does not expect.
THEOREM ManagerImplementsOrder == ConduitSpec => ImplementsOrder
<1>1. ConduitInit => O!Init
  BY DEF ConduitInit
<1>2. ConduitInv /\ [ConduitNext]_conduitVars => [O!Next]_(O!vars)
  BY OrderSide DEF ConduitInv
<1> QED
  BY <1>1, <1>2, ConduitInvariant, PTL DEF ConduitSpec, ImplementsOrder, O!Spec

\* What is proved of each controller holds of the manager: no edit of an Order
\* is lost, no Order goes before its status is empty, every Workflow has an
\* ArtifactWorkflow and every phase a Workflow, results are final, and Orders,
\* ArtifactWorkflows and Workflows come and go as OrderLife and
\* ArtifactWorkflowLife say.
THEOREM ManagerKeepsPromises ==
  ConduitSpec => /\ O!EditsSurvive /\ O!GoesWithEmptyStatus /\ O!ImplementsOrderLife
                 /\ []A!WorkflowHasOwner /\ []A!PhaseBackedByWorkflow
                 /\ A!CompletedIsFinal /\ A!ImplementsLife
<1>1. O!Spec => O!EditsSurvive /\ O!GoesWithEmptyStatus
  BY Instances, O!NoEditLost, O!CleanedUpBeforeGone
<1>2. O!Spec => O!ImplementsOrderLife
  BY Instances, O!ControllerImplementsOrderLife
<1>3. A!AWSpec => []A!WorkflowHasOwner /\ []A!PhaseBackedByWorkflow
  BY Instances, A!WorkflowAlwaysHasOwner, A!PhaseAlwaysBacked
<1>4. A!AWSpec => A!CompletedIsFinal /\ A!ImplementsLife
  BY Instances, A!CompletedStaysFinal, A!ControllerImplementsLife
<1> QED
  BY <1>1, <1>2, <1>3, <1>4, ManagerImplementsOrder, ManagerImplementsArtifactWorkflow, PTL
     DEF ImplementsOrder, ImplementsArtifactWorkflow

\* What runs is protected up to its Order: the finalizers of both controllers
\* together hold an Order and an ArtifactWorkflow as long as there is a Workflow.
THEOREM WorkflowAlwaysProtected == ConduitSpec => []WorkflowProtected
<1>1. O!Spec => []O!OwnerProtected
  BY Instances, O!OwnerAlwaysProtected
<1>2. O!OwnerProtected /\ ConduitInv => WorkflowProtected
  <2> SUFFICES ASSUME O!OwnerProtected, ConduitInv, NEW s \in Shas, Exists(wfLog[s])
               PROVE  /\ Exists(awLog[s]) /\ Stored(awLog[s]).finalizer
                      /\ Exists(orderLog) /\ Stored(orderLog).uid = Stored(awLog[s]).owner
                           => Stored(orderLog).finalizer
    BY DEF WorkflowProtected
  <2>1. Exists(awLog[s]) /\ Stored(awLog[s]).finalizer
    BY DEF ConduitInv, A!AWInv, A!WorkflowInv, A!HasFinalizer, A!Exists, A!Stored, Exists, Stored
  <2>2. Exists(orderLog) /\ Stored(orderLog).uid = Stored(awLog[s]).owner
          => Stored(orderLog).finalizer
    BY <2>1, SharedDefinitions DEF O!OwnerProtected, O!Exists, O!Stored, Exists, Stored
  <2> QED
    BY <2>1, <2>2
<1> QED
  BY <1>1, <1>2, ConduitInvariant, ManagerImplementsOrder, PTL DEF ImplementsOrder
=============================================================================
