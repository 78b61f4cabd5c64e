--------------------- MODULE ArtifactWorkflowRefinement ---------------------
(***************************************************************************)
(* ArtifactWorkflowController implements ArtifactWorkflowLife: each step   *)
(* of the controller and of its environment is a step in the life of an    *)
(* ArtifactWorkflow, or invisible at the API server.                       *)
(***************************************************************************)
EXTENDS ArtifactWorkflowProofs

\* What the API server shows when the history of one ArtifactWorkflow changes.
LEMMA StoredAWStep ==
  ASSUME AWTypeOK, NEW n \in Names, NEW h, awLog' = [awLog EXCEPT ![n] = h]
  PROVE  StoredAWs' = [StoredAWs EXCEPT ![n] = Stored(h)]
BY DEF AWTypeOK, StoredAWs

\* The same for a Workflow.
LEMMA StoredWorkflowStep ==
  ASSUME AWTypeOK, NEW n \in Names, NEW h, wfLog' = [wfLog EXCEPT ![n] = h]
  PROVE  StoredWorkflows' = [StoredWorkflows EXCEPT ![n] = Stored(h)]
BY DEF AWTypeOK, StoredWorkflows

\* A history that ends as before changes nothing at the API server.
LEMMA StoredUnchanged ==
  /\ UNCHANGED awLog => UNCHANGED StoredAWs
  /\ UNCHANGED wfLog => UNCHANGED StoredWorkflows
BY DEF StoredAWs, StoredWorkflows

\* What is stored under a name.
LEMMA StoredTypes ==
  ASSUME AWTypeOK, NEW n \in Names
  PROVE  /\ StoredAWs[n] = Stored(awLog[n]) /\ StoredAWs[n] \in AWVersions
         /\ StoredWorkflows[n] = Stored(wfLog[n]) /\ StoredWorkflows[n] \in WFVersions
BY Histories, HistoryEnds DEF StoredAWs, StoredWorkflows

\* An update leaves the stored ArtifactWorkflow alone, or replaces the version
\* it was made from.
LEMMA UpdateStores ==
  ASSUME AWTypeOK, awRec \in Busy, NEW obj \in ArtifactWorkflow, Update(obj)
  PROVE  \/ UNCHANGED StoredAWs
         \/ /\ awRec.current
            /\ StoredAWs[awRec.name] = Cached(awLog[awRec.name])
            /\ StoredAWs' = [StoredAWs EXCEPT ![awRec.name] = Purge(obj)]
<1> DEFINE n == awRec.name
<1>0. n \in Names
  BY DEF Busy
<1>1. CASE UNCHANGED awLog
  BY <1>1, StoredUnchanged
<1>2. CASE awLog' # awLog
  <2>1. /\ awRec.current /\ InSync(awLog[n])
        /\ awLog' = [awLog EXCEPT ![n] = Write(awLog[n], Purge(obj))]
    BY <1>2 DEF Update
  <2>2. Stored(Write(awLog[n], Purge(obj))) = Purge(obj)
    BY <1>0, Histories, PurgeType, WriteVersion
  <2>3. StoredAWs' = [StoredAWs EXCEPT ![n] = Purge(obj)]
    BY <1>0, <2>1, <2>2, StoredAWStep
  <2>4. StoredAWs[n] = Cached(awLog[n])
    BY <1>0, <2>1, StoredTypes, Histories, HistoryEnds
  <2> QED
    BY <2>1, <2>3, <2>4
<1> QED
  BY <1>1, <1>2
-----------------------------------------------------------------------------
(* The steps *)

\* The updates of a reconcile: a finalizer is added or removed, a phase is
\* reported.
LEMMA UpdatesImplement ==
  ASSUME AWTypeOK, AWInv, RemoveFinalizer \/ AddFinalizer \/ UpdateStatus
  PROVE  [Life!Next]_(Life!vars)
<1> DEFINE n == awRec.name
           c == Cached(awLog[n])
<1>1. awRec \in Busy /\ awRec # Idle /\ n \in Names /\ awRec.aw \in ArtifactWorkflow
  BY DEF AWTypeOK, RemoveFinalizer, AddFinalizer, UpdateStatus, Idle, Busy
<1>2. CopyInv(awRec, awLog[n]) /\ CallInv(awRec, awLog[n], wfLog[n])
  BY <1>1 DEF AWInv
<1>3. UNCHANGED StoredWorkflows
  BY StoredUnchanged DEF RemoveFinalizer, AddFinalizer, UpdateStatus
<1>4. StoredAWs[n] = Stored(awLog[n]) /\ StoredWorkflows[n] = Stored(wfLog[n])
  BY <1>1, StoredTypes
<1>5. c \in AWVersions
  BY <1>1, Histories, HistoryEnds
<1> HIDE DEF n, c
<1>6. CASE UNCHANGED StoredAWs
  BY <1>3, <1>6 DEF Life!vars
<1>7. CASE StoredAWs' # StoredAWs
  <2>1. CASE RemoveFinalizer
    <3> DEFINE obj == [awRec.aw EXCEPT !.finalizer = FALSE]
    <3>1. obj \in ArtifactWorkflow
      BY <1>1 DEF ArtifactWorkflow
    <3>2. awRec.aw = c /\ c.deleting /\ c # Absent /\ StoredWorkflows[n] = Absent
          /\ StoredAWs[n] = c /\ StoredAWs' = [StoredAWs EXCEPT ![n] = Purge(obj)]
      BY <1>1, <1>2, <1>4, <1>7, <2>1, <3>1, UpdateStores
      DEF RemoveFinalizer, CopyInv, CallInv, n, c
    <3>3. obj.deleting /\ ~obj.finalizer
      BY <1>1, <3>2 DEF ArtifactWorkflow
    <3>4. Purge(obj) = Absent
      BY <3>3 DEF Purge
    <3>5. Life!Release(n)
      BY <1>3, <3>2, <3>4 DEF Life!Release
    <3> QED
      BY <1>1, <3>5 DEF Life!Next, n
  <2>2. CASE AddFinalizer
    <3> DEFINE obj == [awRec.aw EXCEPT !.finalizer = TRUE]
    <3>1. obj \in ArtifactWorkflow
      BY <1>1 DEF ArtifactWorkflow
    <3>2. awRec.aw = c /\ ~c.deleting /\ c # Absent
          /\ StoredAWs[n] = c /\ StoredAWs' = [StoredAWs EXCEPT ![n] = Purge(obj)]
      BY <1>1, <1>2, <1>4, <1>7, <2>2, <3>1, UpdateStores
      DEF AddFinalizer, CopyInv, CallInv, n, c
    <3>3. Purge(obj) = [c EXCEPT !.finalizer = TRUE]
      BY <1>1, <3>2 DEF Purge, ArtifactWorkflow
    <3>4. Life!Protect(n)
      BY <1>3, <3>2, <3>3 DEF Life!Protect
    <3> QED
      BY <1>1, <3>4 DEF Life!Next, n
  <2>3. CASE UpdateStatus
    <3> DEFINE p == awRec.aw.phase
    <3>1. /\ awRec.aw = [c EXCEPT !.phase = p] /\ c # Absent
          /\ Live(awRec.aw) /\ ~Completed(c.phase)
          /\ StoredAWs[n] = c /\ StoredAWs' = [StoredAWs EXCEPT ![n] = Purge(awRec.aw)]
      BY <1>1, <1>2, <1>4, <1>7, <2>3, UpdateStores
      DEF UpdateStatus, CopyInv, CallInv, n, c
    <3>2. c \in ArtifactWorkflow
      BY <1>5, <3>1 DEF AWVersions
    <3>3. c.finalizer = awRec.aw.finalizer /\ c.deleting = awRec.aw.deleting
      BY <3>1, <3>2 DEF ArtifactWorkflow
    <3>4. Live(c) /\ Purge(awRec.aw) = [c EXCEPT !.phase = p]
      BY <3>1, <3>3 DEF Live, HasFinalizer, Purge
    <3>5. StoredWorkflows[n] # Absent
      BY <1>2, <1>4, <2>3, <3>1, <3>4 DEF CallInv, UpdateStatus, Exists
    <3>6. p \in Phases
      BY <1>1 DEF ArtifactWorkflow
    <3>7. Life!Report(n, p)
      BY <1>3, <3>1, <3>4, <3>5 DEF Life!Report, Life!Live, Live, HasFinalizer, Completed, Life!Completed
    <3> QED
      BY <1>1, <3>6, <3>7 DEF Life!Next, Life!Phases, Phases, Life!WorkflowUnknown, WorkflowUnknown, n
  <2> QED
    BY <2>1, <2>2, <2>3
<1> QED
  BY <1>6, <1>7

\* The calls that create and delete the Workflow.
LEMMA WorkflowCallsImplement ==
  ASSUME AWTypeOK, AWInv, DeleteWorkflow \/ CreateWorkflow
  PROVE  [Life!Next]_(Life!vars)
<1> DEFINE n == awRec.name
<1>1. awRec \in Busy /\ awRec # Idle /\ n \in Names
  BY DEF AWTypeOK, DeleteWorkflow, CreateWorkflow, Idle, Busy
<1>2. CallInv(awRec, awLog[n], wfLog[n]) /\ WorkflowInv(awLog[n], wfLog[n])
  BY <1>1 DEF AWInv
<1>3. UNCHANGED StoredAWs
  BY StoredUnchanged DEF DeleteWorkflow, CreateWorkflow
<1>4. StoredAWs[n] = Stored(awLog[n]) /\ StoredWorkflows[n] = Stored(wfLog[n])
  BY <1>1, StoredTypes
<1>5. IsHistory(wfLog[n], WFVersions)
  BY <1>1, Histories
<1>6. CASE DeleteWorkflow
  <2>1. Stored(Write(wfLog[n], Absent)) = Absent
    BY <1>5, WriteVersion DEF WFVersions
  <2>2. StoredWorkflows' = [StoredWorkflows EXCEPT ![n] = Absent]
    BY <1>1, <1>6, <2>1, StoredWorkflowStep DEF DeleteWorkflow
  <2>3. CASE StoredWorkflows[n] = Absent
    <3>1. UNCHANGED StoredWorkflows
      BY <1>1, <2>2, <2>3 DEF StoredWorkflows
    <3> QED
      BY <1>3, <3>1 DEF Life!vars
  <2>4. CASE StoredWorkflows[n] # Absent
    <3>1. HasFinalizer(StoredAWs[n]) /\ ~Live(StoredAWs[n])
      BY <1>2, <1>4, <1>6, <2>4 DEF WorkflowInv, CallInv, DeleteWorkflow, Exists
    <3>2. Life!Stop(n)
      BY <1>3, <2>2, <3>1 DEF Life!Stop, Live, HasFinalizer
    <3> QED
      BY <1>1, <3>2 DEF Life!Next
  <2> QED
    BY <2>3, <2>4
<1>7. CASE CreateWorkflow
  <2> DEFINE new == [phase |-> WorkflowUnknown]
  <2>1. new \in WFVersions
    BY DEF WFVersions, Workflow, Phases
  <2>2. CASE StoredWorkflows[n] = Absent
    <3>1. Stored(Append(wfLog[n], new)) = new
      BY <1>5, <2>1, AppendVersion
    <3>2. StoredWorkflows' = [StoredWorkflows EXCEPT ![n] = new]
      <4>1. wfLog' = [wfLog EXCEPT ![n] = Append(wfLog[n], new)]
        BY <1>4, <1>7, <2>2 DEF CreateWorkflow
      <4> QED
        BY <1>1, <3>1, <4>1, StoredWorkflowStep
    <3>3. HasFinalizer(StoredAWs[n])
      BY <1>2, <1>4, <1>7 DEF CallInv, CreateWorkflow
    <3>4. Life!Start(n)
      BY <1>3, <2>2, <3>2, <3>3
      DEF Life!Start, HasFinalizer, WorkflowUnknown, Life!WorkflowUnknown
    <3> QED
      BY <1>1, <3>4 DEF Life!Next
  <2>3. CASE StoredWorkflows[n] # Absent
    <3>1. wfLog' = [wfLog EXCEPT ![n] = wfLog[n]]
      BY <1>4, <1>7, <2>3 DEF CreateWorkflow
    <3>2. UNCHANGED StoredWorkflows
      BY <1>1, <1>4, <3>1, StoredWorkflowStep DEF StoredWorkflows
    <3> QED
      BY <1>3, <3>2 DEF Life!vars
  <2> QED
    BY <2>2, <2>3
<1> QED
  BY <1>6, <1>7

\* Whoever creates and deletes ArtifactWorkflows.
LEMMA EnvironmentImplements ==
  ASSUME AWTypeOK, AWInv, NEW n \in Names,
         EnvDelete(n) \/ \E o \in Owners : EnvCreate(n, o)
  PROVE  [Life!Next]_(Life!vars)
<1>1. UNCHANGED StoredWorkflows
  BY StoredUnchanged DEF EnvDelete, EnvCreate
<1>2. /\ StoredAWs[n] = Stored(awLog[n]) /\ StoredAWs[n] \in AWVersions
      /\ StoredWorkflows[n] = Stored(wfLog[n])
      /\ IsHistory(awLog[n], AWVersions)
  BY StoredTypes, Histories
<1>3. CASE EnvDelete(n)
  <2> DEFINE s == StoredAWs[n]
             marked == [s EXCEPT !.deleting = TRUE]
  <2>1. s # Absent /\ s \in ArtifactWorkflow
    BY <1>2, <1>3 DEF EnvDelete, Exists, AWVersions
  <2>2. marked \in ArtifactWorkflow /\ marked.finalizer = s.finalizer /\ marked.deleting
    BY <2>1 DEF ArtifactWorkflow
  <2>3. Purge(marked) = IF s.finalizer THEN marked ELSE Absent
    BY <2>2 DEF Purge
  <2>4. Stored(Delete(awLog[n])) = Purge(marked)
    <3>1. Delete(awLog[n]) = Write(awLog[n], Purge(marked))
      BY <1>2, <2>1 DEF Delete, Exists
    <3>2. Purge(marked) \in AWVersions
      BY <2>2, PurgeType
    <3>3. Stored(Write(awLog[n], Purge(marked))) = Purge(marked)
      BY <1>2, <3>2, WriteVersion
    <3> QED
      BY <3>1, <3>3
  <2>5. StoredAWs' = [StoredAWs EXCEPT ![n] = IF s.finalizer THEN marked ELSE Absent]
    <3>1. awLog' = [awLog EXCEPT ![n] = Delete(awLog[n])]
      BY <1>3 DEF EnvDelete
    <3>2. StoredAWs' = [StoredAWs EXCEPT ![n] = Stored(Delete(awLog[n]))]
      BY <3>1, StoredAWStep
    <3> QED
      BY <2>3, <2>4, <3>2
  <2>6. CASE ~s.deleting
    <3>1. Life!Delete(n)
      BY <1>1, <2>1, <2>5, <2>6 DEF Life!Delete
    <3> QED
      BY <3>1 DEF Life!Next
  <2>7. CASE s.deleting
    <3>1. HistoryInv(awLog[n]) /\ Len(awLog[n]) \in 1..Len(awLog[n])
      BY <1>2, HistoryEnds DEF AWInv
    <3>2. s.finalizer
      BY <1>2, <2>1, <2>7, <3>1 DEF HistoryInv, Version, Stored
    <3>3. marked = s
      BY <2>1, <2>7 DEF ArtifactWorkflow
    <3>4. UNCHANGED StoredAWs
      BY <2>5, <3>2, <3>3 DEF StoredAWs
    <3> QED
      BY <1>1, <3>4 DEF Life!vars
  <2> QED
    BY <2>6, <2>7
<1>4. ASSUME NEW o \in Owners, EnvCreate(n, o) PROVE [Life!Next]_(Life!vars)
  <2>1. NewArtifactWorkflow(o) \in AWVersions
    BY DEF NewArtifactWorkflow, AWVersions, ArtifactWorkflow, Phases
  <2>2. StoredAWs' = [StoredAWs EXCEPT ![n] = NewArtifactWorkflow(o)]
    <3>1. Stored(Append(awLog[n], NewArtifactWorkflow(o))) = NewArtifactWorkflow(o)
      BY <1>2, <2>1, AppendVersion
    <3>2. awLog' = [awLog EXCEPT ![n] = Append(awLog[n], NewArtifactWorkflow(o))]
      BY <1>4 DEF EnvCreate
    <3> QED
      BY <3>1, <3>2, StoredAWStep
  <2>3. StoredAWs[n] = Absent
    BY <1>2, <1>4 DEF EnvCreate, Exists
  <2>4. WorkflowInv(awLog[n], wfLog[n])
    BY DEF AWInv
  <2>5. StoredWorkflows[n] = Absent
    BY <1>2, <2>3, <2>4 DEF WorkflowInv, HasFinalizer, Exists
  <2>6. Life!Create(n, o)
    BY <1>1, <2>2, <2>3, <2>5
    DEF Life!Create, NewArtifactWorkflow, WorkflowUnknown, Life!WorkflowUnknown
  <2> QED
    BY <2>6 DEF Life!Next
<1> QED
  BY <1>3, <1>4

\* Argo moves a Workflow on.
LEMMA ArgoImplements ==
  ASSUME AWTypeOK, NEW n \in Names, ArgoStep(n)
  PROVE  [Life!Next]_(Life!vars)
<1>1. PICK p \in Phases : /\ Rank(p) > Rank(Stored(wfLog[n]).phase)
                          /\ wfLog' = [wfLog EXCEPT ![n] = Append(wfLog[n], [phase |-> p])]
  BY DEF ArgoStep
<1>2. UNCHANGED StoredAWs
  BY StoredUnchanged DEF ArgoStep
<1>3. StoredWorkflows[n] = Stored(wfLog[n]) /\ StoredWorkflows[n] \in Workflow
  BY StoredTypes DEF ArgoStep, Exists, WFVersions
<1>4. [phase |-> p] = [StoredWorkflows[n] EXCEPT !.phase = p]
  BY <1>3 DEF Workflow
<1>5. [phase |-> p] \in WFVersions
  BY DEF WFVersions, Workflow
<1>6. Stored(Append(wfLog[n], [phase |-> p])) = [phase |-> p]
  BY <1>5, Histories, AppendVersion
<1>7. StoredWorkflows' = [StoredWorkflows EXCEPT ![n].phase = p]
  BY <1>1, <1>4, <1>6, StoredWorkflowStep
<1>8. ~Completed(StoredWorkflows[n].phase)
  <2>1. Rank(p) \in 0..3
    BY DEF Rank
  <2>2. ASSUME NEW q \in Phases, Completed(q) PROVE Rank(q) = 3
    BY <2>2 DEF Rank, Completed, WorkflowUnknown
  <2>3. StoredWorkflows[n].phase \in Phases
    BY <1>3 DEF Workflow
  <2> QED
    BY <1>1, <1>3, <2>1, <2>2, <2>3
<1>9. Life!Progress(n, p)
  BY <1>2, <1>3, <1>7, <1>8 DEF Life!Progress, ArgoStep, Exists, Completed, Life!Completed
<1> QED
  BY <1>9 DEF Life!Next, Phases, Life!Phases, WorkflowUnknown, Life!WorkflowUnknown

\* Every step is a step of the life of an ArtifactWorkflow, or changes nothing of it.
LEMMA StepImplements ==
  AWTypeOK /\ AWInv /\ [AWNext]_awVars => [Life!Next]_(Life!vars)
<1> SUFFICES ASSUME AWTypeOK, AWInv, [AWNext]_awVars PROVE [Life!Next]_(Life!vars)
  OBVIOUS
<1>1. CASE RemoveFinalizer \/ AddFinalizer \/ UpdateStatus
  BY <1>1, UpdatesImplement
<1>2. CASE DeleteWorkflow \/ CreateWorkflow
  BY <1>2, WorkflowCallsImplement
<1>3. ASSUME NEW n \in Names, EnvDelete(n) \/ \E o \in Owners : EnvCreate(n, o)
      PROVE  [Life!Next]_(Life!vars)
  BY <1>3, EnvironmentImplements
<1>4. ASSUME NEW n \in Names, ArgoStep(n) PROVE [Life!Next]_(Life!vars)
  BY <1>4, ArgoImplements
<1>5. ASSUME NEW n \in Names, DeliverArtifactWorkflow(n) PROVE [Life!Next]_(Life!vars)
  <2>1. Stored(Tail(awLog[n])) = Stored(awLog[n])
    BY <1>5, Histories, DeliverVersion DEF DeliverArtifactWorkflow
  <2>2. UNCHANGED StoredAWs
    BY <1>5, <2>1, StoredAWStep DEF DeliverArtifactWorkflow, StoredAWs
  <2> QED
    BY <1>5, <2>2, StoredUnchanged DEF DeliverArtifactWorkflow, Life!vars
<1>6. ASSUME NEW n \in Names, DeliverWorkflow(n) PROVE [Life!Next]_(Life!vars)
  <2>1. Stored(Tail(wfLog[n])) = Stored(wfLog[n])
    BY <1>6, Histories, DeliverVersion DEF DeliverWorkflow
  <2>2. UNCHANGED StoredWorkflows
    BY <1>6, <2>1, StoredWorkflowStep DEF DeliverWorkflow, StoredWorkflows
  <2> QED
    BY <1>6, <2>2, StoredUnchanged DEF DeliverWorkflow, Life!vars
<1>7. CASE UNCHANGED <<awLog, wfLog>>
  BY <1>7, StoredUnchanged DEF Life!vars
<1> QED
  BY <1>1, <1>2, <1>3, <1>4, <1>5, <1>6, <1>7
  DEF AWNext, AWWorker, Reconcile, GetWorkflow, AWFail, AWCrash, Resync, Provide, Withdraw, awVars

\* The ArtifactWorkflow controller, with caches that lag, failures and crashes,
\* implements the life of an ArtifactWorkflow.
THEOREM ControllerImplementsLife == AWSpec => ImplementsLife
<1>1. AWInit => Life!Init
  BY DEF AWInit, Life!Init, StoredAWs, StoredWorkflows, Stored
<1>2. AWTypeOK /\ AWInv /\ [AWNext]_awVars => [Life!Next]_(Life!vars)
  BY StepImplements
<1> QED
  BY <1>1, <1>2, AWTypeCorrect, AWInvariant, PTL DEF AWSpec, ImplementsLife, Life!Spec

-----------------------------------------------------------------------------
(* What the rest of the system sees of the worker *)

\* How the controller changes an ArtifactWorkflow: it adds its finalizer, lets
\* go of one that is being deleted, or sets a phase that is not yet completed.
OwnChange(aw, obj) ==
  \/ aw.deleting /\ obj = Absent
  \/ ~aw.deleting /\ obj = [aw EXCEPT !.finalizer = TRUE]
  \/ /\ aw.finalizer /\ ~aw.deleting /\ ~Completed(aw.phase)
     /\ \E p \in Phases : obj = [aw EXCEPT !.phase = p]

\* A step of the controller writes nothing to the ArtifactWorkflow but its own changes.
LEMMA WorkerWrites ==
  ASSUME AWTypeOK, AWInv, AWWorker, awLog' # awLog
  PROVE  \E n \in Names, obj \in AWVersions :
           /\ Exists(awLog[n])
           /\ awLog' = [awLog EXCEPT ![n] = Write(awLog[n], obj)]
           /\ OwnChange(Stored(awLog[n]), obj)
<1> DEFINE n == awRec.name
           c == Cached(awLog[n])
<1>1. RemoveFinalizer \/ AddFinalizer \/ UpdateStatus
  BY DEF AWWorker, Reconcile, DeleteWorkflow, CreateWorkflow, GetWorkflow
<1>2. awRec \in Busy /\ awRec # Idle /\ n \in Names /\ awRec.aw \in ArtifactWorkflow
  BY <1>1 DEF AWTypeOK, RemoveFinalizer, AddFinalizer, UpdateStatus, Idle, Busy
<1>3. CopyInv(awRec, awLog[n]) /\ CallInv(awRec, awLog[n], wfLog[n])
  BY <1>2 DEF AWInv
<1>4. IsHistory(awLog[n], AWVersions)
  BY <1>2, Histories
<1>5. c \in AWVersions
  BY <1>4, HistoryEnds
<1>6. ASSUME NEW obj, Update(obj)
      PROVE  /\ awRec.current /\ c # Absent /\ c = Stored(awLog[n])
             /\ awLog' = [awLog EXCEPT ![n] = Write(awLog[n], Purge(obj))]
  <2>1. /\ awRec.current /\ InSync(awLog[n])
        /\ awLog' = [awLog EXCEPT ![n] = Write(awLog[n], Purge(obj))]
    BY <1>6 DEF Update
  <2>2. c = Stored(awLog[n])
    BY <1>4, <2>1, HistoryEnds
  <2> QED
    BY <1>3, <2>1, <2>2 DEF CopyInv
<1> HIDE DEF c
<1>7. CASE RemoveFinalizer
  <2> DEFINE obj == [awRec.aw EXCEPT !.finalizer = FALSE]
  <2>1. /\ awRec.current /\ c # Absent /\ c = Stored(awLog[n])
        /\ awLog' = [awLog EXCEPT ![n] = Write(awLog[n], Purge(obj))]
    BY <1>6, <1>7 DEF RemoveFinalizer
  <2>2. awRec.aw = c /\ c.deleting
    BY <1>3, <1>7, <2>1 DEF RemoveFinalizer, CopyInv, CallInv, c
  <2>3. obj.deleting /\ ~obj.finalizer
    BY <1>2, <2>2 DEF ArtifactWorkflow
  <2>4. Purge(obj) = Absent
    BY <2>3 DEF Purge
  <2> QED
    BY <1>2, <2>1, <2>2, <2>4 DEF OwnChange, Exists, AWVersions
<1>8. CASE AddFinalizer
  <2> DEFINE obj == [awRec.aw EXCEPT !.finalizer = TRUE]
  <2>1. /\ awRec.current /\ c # Absent /\ c = Stored(awLog[n])
        /\ awLog' = [awLog EXCEPT ![n] = Write(awLog[n], Purge(obj))]
    BY <1>6, <1>8 DEF AddFinalizer
  <2>2. awRec.aw = c /\ ~c.deleting
    BY <1>3, <1>8, <2>1 DEF AddFinalizer, CopyInv, CallInv, c
  <2>3. obj \in AWVersions /\ obj.finalizer
    BY <1>2 DEF ArtifactWorkflow, AWVersions
  <2>4. Purge(obj) = obj
    BY <2>3 DEF Purge
  <2> QED
    BY <1>2, <2>1, <2>2, <2>3, <2>4 DEF OwnChange, Exists
<1>9. CASE UpdateStatus
  <2> DEFINE p == awRec.aw.phase
  <2>1. /\ awRec.current /\ c # Absent /\ c = Stored(awLog[n])
        /\ awLog' = [awLog EXCEPT ![n] = Write(awLog[n], Purge(awRec.aw))]
    BY <1>6, <1>9 DEF UpdateStatus
  <2>2. awRec.aw = [c EXCEPT !.phase = p] /\ Live(awRec.aw) /\ ~Completed(c.phase)
    BY <1>3, <1>9, <2>1 DEF UpdateStatus, CopyInv, CallInv, c
  <2>3. c \in ArtifactWorkflow
    BY <1>5, <2>1 DEF AWVersions
  <2>4. c.finalizer = awRec.aw.finalizer /\ c.deleting = awRec.aw.deleting
    BY <2>2, <2>3 DEF ArtifactWorkflow
  <2>5. c.finalizer /\ ~c.deleting /\ Purge(awRec.aw) = awRec.aw
    BY <2>2, <2>4 DEF Live, HasFinalizer, Purge
  <2>6. p \in Phases /\ awRec.aw \in AWVersions
    BY <1>2 DEF ArtifactWorkflow, AWVersions
  <2>7. OwnChange(c, awRec.aw)
    BY <2>2, <2>5, <2>6 DEF OwnChange
  <2> QED
    BY <1>2, <2>1, <2>5, <2>6, <2>7 DEF Exists
<1> QED
  BY <1>1, <1>7, <1>8, <1>9
=============================================================================
