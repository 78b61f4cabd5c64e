--------------------- MODULE ArtifactWorkflowController ---------------------
(***************************************************************************)
(* ArtifactWorkflowReconciler (pkg/controller/artifactworkflow_            *)
(* controller.go): one worker that turns each ArtifactWorkflow into an     *)
(* Argo Workflow of the same name, copies the phase of the Workflow into   *)
(* the status of the ArtifactWorkflow and removes the Workflow before the  *)
(* ArtifactWorkflow goes.                                                  *)
(*                                                                         *)
(* A reconcile is cut where it talks to the API server or reads another    *)
(* object: everything else happens between two of its actions.  Whoever    *)
(* creates and deletes ArtifactWorkflows (the Order controller, the        *)
(* garbage collector, a user) and Argo are the environment.                *)
(***************************************************************************)
EXTENDS ObjectHistory, WorkflowPhase

CONSTANTS
  Names,       \* names of ArtifactWorkflows, and of the Workflows behind them
  Owners,      \* UIDs of the Orders that own them
  MaxLag,      \* bound: the environment leaves a history alone at this length
  ReuseLag,    \* bound: a name is used (again) while fewer than this many versions
               \* of its Workflow are in the cache or on their way (2: caught up)
  MaxFaults    \* bound: failed API calls and crashes in a behaviour

VARIABLES
  awLog,       \* history of each ArtifactWorkflow
  wfLog,       \* history of each Argo Workflow
  ready,       \* names whose ArtifactType and Secrets are in the cache
  awQueue,     \* the work queue: names waiting for a reconcile
  awRec,       \* the reconcile in progress
  awFaults     \* failures so far

awVars == <<awLog, wfLog, ready, awQueue, awRec, awFaults>>

ArtifactWorkflow ==
  [owner: Owners, deleting: BOOLEAN, finalizer: BOOLEAN, phase: Phases]

Workflow == [phase: Phases]

ASSUME AbsentAssumption == Absent \notin ArtifactWorkflow /\ Absent \notin Workflow

ASSUME BoundAssumption == MaxFaults \in Nat

\* pc: the next API call or read; name: the request; aw: the working copy;
\* current: no event of the object was delivered since aw was read.
Idle == [pc |-> "idle"]

Busy == [pc: {"deleteWorkflow", "removeFinalizer", "addFinalizer",
              "createWorkflow", "getWorkflow", "updateStatus"},
         name: Names, aw: ArtifactWorkflow, current: BOOLEAN]

\* The queue, the caches, the worker and the fault count have their types.
AWTypeOK ==
  /\ awLog \in [Names -> Seq(ArtifactWorkflow \union {Absent})]
  /\ wfLog \in [Names -> Seq(Workflow \union {Absent})]
  /\ \A n \in Names : awLog[n] # <<>> /\ wfLog[n] # <<>>
  /\ ready \subseteq Names
  /\ awQueue \subseteq Names
  /\ awRec \in {Idle} \union Busy
  /\ awFaults \in 0..MaxFaults

AWInit ==
  /\ awLog = [n \in Names |-> <<Absent>>]
  /\ wfLog = [n \in Names |-> <<Absent>>]
  /\ ready \in SUBSET Names
  /\ awQueue = {}
  /\ awRec = Idle
  /\ awFaults = 0

-----------------------------------------------------------------------------
(* Reconcile *)

\* Faulty variant: the Workflow is created before there is a finalizer.
FirstCallWithoutFinalizer(aw, isReady) ==
  IF aw = Absent THEN "return"
  ELSE IF aw.deleting THEN "deleteWorkflow"
  ELSE IF Completed(aw.phase) THEN "return"
  ELSE IF aw.phase = WorkflowUnknown
       THEN IF isReady THEN "createWorkflow" ELSE "fail"
  ELSE "getWorkflow"

\* Faulty variant: the Workflow is left to the garbage collector.
FirstCallKeepingWorkflow(aw, isReady) ==
  IF aw = Absent THEN "return"
  ELSE IF aw.deleting THEN "removeFinalizer"
  ELSE IF ~aw.finalizer THEN "addFinalizer"
  ELSE IF Completed(aw.phase) THEN "return"
  ELSE IF aw.phase = WorkflowUnknown
       THEN IF isReady THEN "createWorkflow" ELSE "fail"
  ELSE "getWorkflow"

\* Where the early returns of Reconcile lead for a cached ArtifactWorkflow.
\* createArgoWorkflow fails before its first API call when the ArtifactType
\* or a Secret it reads is missing.
FirstCall(aw, isReady) ==
  IF aw = Absent THEN "return"
  ELSE IF aw.deleting THEN "deleteWorkflow"
  ELSE IF ~aw.finalizer THEN "addFinalizer"
  ELSE IF Completed(aw.phase) THEN "return"
  ELSE IF aw.phase = WorkflowUnknown
       THEN IF isReady THEN "createWorkflow" ELSE "fail"
  ELSE "getWorkflow"

\* Faulty variant: the error of a missing ArtifactType or Secret is dropped.
ReconcileWithoutRetry(n) ==
  /\ awRec = Idle
  /\ n \in awQueue
  /\ LET pc == FirstCall(Cached(awLog[n]), n \in ready) IN
     awRec' = IF pc \in {"return", "fail"} THEN Idle
              ELSE [pc |-> pc, name |-> n, aw |-> Cached(awLog[n]), current |-> TRUE]
  /\ awQueue' = awQueue \ {n}
  /\ UNCHANGED <<awLog, wfLog, ready, awFaults>>

Reconcile(n) ==
  /\ awRec = Idle
  /\ n \in awQueue
  /\ LET pc == FirstCall(Cached(awLog[n]), n \in ready) IN
     /\ awQueue' = IF pc = "fail" THEN awQueue ELSE awQueue \ {n}
     /\ awRec' = IF pc \in {"return", "fail"} THEN Idle
                 ELSE [pc |-> pc, name |-> n, aw |-> Cached(awLog[n]), current |-> TRUE]
  /\ UNCHANGED <<awLog, wfLog, ready, awFaults>>

\* Reconcile returns: nil, or an error that puts the request back.
Done == awRec' = Idle /\ UNCHANGED awQueue

Retry == awRec' = Idle /\ awQueue' = awQueue \union {awRec.name}

\* Faulty variant: an unconditional update.
UpdateUnconditionally(obj) ==
  awLog' = [awLog EXCEPT ![awRec.name] = Write(@, Purge(obj))] /\ Done

\* Update and Status().Update of the working copy.  The strategies refuse an
\* unconditional update, so that a copy that is not the stored version is a
\* Conflict (NotFound if the object is gone).
Update(obj) ==
  LET n == awRec.name IN
  IF awRec.current /\ InSync(awLog[n])
  THEN awLog' = [awLog EXCEPT ![n] = Write(@, Purge(obj))] /\ Done
  ELSE UNCHANGED awLog /\ Retry

\* Faulty variant: Reconcile returns when the Workflow is deleted, and the
\* finalizer stays.
DeleteWorkflowOnly ==
  /\ awRec.pc = "deleteWorkflow"
  /\ wfLog' = [wfLog EXCEPT ![awRec.name] = Write(@, Absent)]
  /\ Done
  /\ UNCHANGED <<awLog, ready, awFaults>>

DeleteWorkflow ==
  /\ awRec.pc = "deleteWorkflow"
  /\ wfLog' = [wfLog EXCEPT ![awRec.name] = Write(@, Absent)]
  /\ IF awRec.aw.finalizer
     THEN awRec' = [awRec EXCEPT !.pc = "removeFinalizer"] /\ UNCHANGED awQueue
     ELSE Done
  /\ UNCHANGED <<awLog, ready, awFaults>>

RemoveFinalizer ==
  /\ awRec.pc = "removeFinalizer"
  /\ Update([awRec.aw EXCEPT !.finalizer = FALSE])
  /\ UNCHANGED <<wfLog, ready, awFaults>>

AddFinalizer ==
  /\ awRec.pc = "addFinalizer"
  /\ Update([awRec.aw EXCEPT !.finalizer = TRUE])
  /\ UNCHANGED <<wfLog, ready, awFaults>>

\* Faulty variant: any error of the Create is ignored, not only AlreadyExists.
CreateWorkflowIgnoringErrors ==
  /\ awRec.pc = "createWorkflow"
  /\ \E created \in BOOLEAN :
       wfLog' = [wfLog EXCEPT ![awRec.name] =
                   IF created /\ Stored(@) = Absent
                   THEN Append(@, [phase |-> WorkflowUnknown]) ELSE @]
  /\ awRec' = [awRec EXCEPT !.pc = "updateStatus", !.aw.phase = "Pending"]
  /\ UNCHANGED <<awLog, ready, awQueue, awFaults>>

\* Faulty variant: the new phase is none of the enumeration.
CreateWorkflowSubmitted ==
  /\ awRec.pc = "createWorkflow"
  /\ wfLog' = [wfLog EXCEPT ![awRec.name] =
                 IF Stored(@) = Absent THEN Append(@, [phase |-> WorkflowUnknown]) ELSE @]
  /\ awRec' = [awRec EXCEPT !.pc = "updateStatus", !.aw.phase = "Submitted"]
  /\ UNCHANGED <<awLog, ready, awQueue, awFaults>>

\* createArgoWorkflow: a Workflow that already exists is left as it is.
CreateWorkflow ==
  /\ awRec.pc = "createWorkflow"
  /\ wfLog' = [wfLog EXCEPT ![awRec.name] =
                 IF Stored(@) = Absent THEN Append(@, [phase |-> WorkflowUnknown]) ELSE @]
  /\ awRec' = [awRec EXCEPT !.pc = "updateStatus", !.aw.phase = "Pending"]
  /\ UNCHANGED <<awLog, ready, awQueue, awFaults>>

\* Faulty variant: a Workflow the cache does not know is taken to have failed.
GetWorkflowOrFail ==
  /\ awRec.pc = "getWorkflow"
  /\ LET wf == Cached(wfLog[awRec.name]) IN
     awRec' = [awRec EXCEPT !.pc = "updateStatus",
                            !.aw.phase = IF wf = Absent THEN "Failed" ELSE wf.phase]
  /\ UNCHANGED <<awLog, wfLog, ready, awQueue, awFaults>>

\* checkArgoWorkflow: read the Workflow from the cache.
GetWorkflow ==
  /\ awRec.pc = "getWorkflow"
  /\ LET wf == Cached(wfLog[awRec.name]) IN
     IF wf = Absent
     THEN Retry
     ELSE /\ awRec' = [awRec EXCEPT !.pc = "updateStatus", !.aw.phase = wf.phase]
          /\ UNCHANGED awQueue
  /\ UNCHANGED <<awLog, wfLog, ready, awFaults>>

UpdateStatus ==
  /\ awRec.pc = "updateStatus"
  /\ Update(awRec.aw)
  /\ UNCHANGED <<wfLog, ready, awFaults>>

\* The API call of the next step fails: Reconcile returns the error.
AWFail ==
  /\ awRec # Idle
  /\ awFaults < MaxFaults
  /\ awFaults' = awFaults + 1
  /\ Retry
  /\ UNCHANGED <<awLog, wfLog, ready>>

\* The manager stops anywhere and starts again: the reconcile in progress and
\* the queue are lost, and the first list of the informer queues every object.
AWCrash ==
  /\ awFaults < MaxFaults
  /\ awFaults' = awFaults + 1
  /\ awRec' = Idle
  /\ awQueue' = {n \in Names : Cached(awLog[n]) # Absent}
  /\ UNCHANGED <<awLog, wfLog, ready>>

-----------------------------------------------------------------------------
(* Watches: For(ArtifactWorkflow), Owns(Workflow) *)

\* The working copy of a reconcile whose object the cache has moved past.
Outdated(n) == IF awRec # Idle /\ awRec.name = n
               THEN [awRec EXCEPT !.current = FALSE] ELSE awRec

DeliverArtifactWorkflow(n) ==
  /\ ~InSync(awLog[n])
  /\ awLog' = [awLog EXCEPT ![n] = Tail(@)]
  /\ awQueue' = awQueue \union {n}
  /\ awRec' = Outdated(n)
  /\ UNCHANGED <<wfLog, ready, awFaults>>

\* Faulty variant: the controller does not own Workflows.
DeliverWorkflowUnowned(n) ==
  /\ ~InSync(wfLog[n])
  /\ wfLog' = [wfLog EXCEPT ![n] = Tail(@)]
  /\ UNCHANGED <<awLog, ready, awQueue, awRec, awFaults>>

DeliverWorkflow(n) ==
  /\ ~InSync(wfLog[n])
  /\ wfLog' = [wfLog EXCEPT ![n] = Tail(@)]
  /\ awQueue' = awQueue \union {n}
  /\ UNCHANGED <<awLog, ready, awRec, awFaults>>

\* The periodic resync of the informer repeats the event of a cached object.
Resync(n) ==
  /\ Cached(awLog[n]) # Absent
  /\ awQueue' = awQueue \union {n}
  /\ UNCHANGED <<awLog, wfLog, ready, awRec, awFaults>>

-----------------------------------------------------------------------------
(* Environment *)

NewArtifactWorkflow(o) ==
  [owner |-> o, deleting |-> FALSE, finalizer |-> FALSE, phase |-> WorkflowUnknown]

EnvCreate(n, o) ==
  /\ ~Exists(awLog[n])
  /\ Room(awLog[n], MaxLag) /\ Room(wfLog[n], ReuseLag)
  /\ awLog' = [awLog EXCEPT ![n] = Append(@, NewArtifactWorkflow(o))]
  /\ UNCHANGED <<wfLog, ready, awQueue, awRec, awFaults>>

EnvDelete(n) ==
  /\ Exists(awLog[n])
  /\ Room(awLog[n], MaxLag)
  /\ awLog' = [awLog EXCEPT ![n] = Delete(@)]
  /\ UNCHANGED <<wfLog, ready, awQueue, awRec, awFaults>>

\* Argo moves a Workflow forward, possibly over several phases at once.
Rank(phase) == IF phase = WorkflowUnknown THEN 0
               ELSE IF phase = "Pending" THEN 1
               ELSE IF phase = "Running" THEN 2 ELSE 3

ArgoStep(n) ==
  /\ Exists(wfLog[n])
  /\ Room(wfLog[n], MaxLag)
  /\ \E p \in Phases :
       /\ Rank(p) > Rank(Stored(wfLog[n]).phase)
       /\ wfLog' = [wfLog EXCEPT ![n] = Append(@, [phase |-> p])]
  /\ UNCHANGED <<awLog, ready, awQueue, awRec, awFaults>>

\* An administrator creates what a Workflow needs, or takes it away.
Provide(n) ==
  /\ ready' = ready \union {n}
  /\ UNCHANGED <<awLog, wfLog, awQueue, awRec, awFaults>>

Withdraw(n) ==
  /\ ready' = ready \ {n}
  /\ UNCHANGED <<awLog, wfLog, awQueue, awRec, awFaults>>

-----------------------------------------------------------------------------
AWWorker ==
  \/ \E n \in Names : Reconcile(n)
  \/ DeleteWorkflow \/ RemoveFinalizer \/ AddFinalizer
  \/ CreateWorkflow \/ GetWorkflow \/ UpdateStatus

AWNext ==
  \/ AWWorker \/ AWFail \/ AWCrash
  \/ \E n \in Names :
       \/ DeliverArtifactWorkflow(n) \/ DeliverWorkflow(n) \/ Resync(n)
       \/ \E o \in Owners : EnvCreate(n, o)
       \/ EnvDelete(n) \/ ArgoStep(n) \/ Provide(n) \/ Withdraw(n)

AWSpec == AWInit /\ [][AWNext]_awVars

\* The worker runs, takes the requests of its queue in turn (first in, first
\* out, hence strong fairness for each name), and watch events arrive.  Argo
\* runs what it is given.  Nobody has to create, delete or provide anything.
AWFairness ==
  /\ WF_awVars(DeleteWorkflow) /\ WF_awVars(RemoveFinalizer)
  /\ WF_awVars(AddFinalizer) /\ WF_awVars(CreateWorkflow)
  /\ WF_awVars(GetWorkflow) /\ WF_awVars(UpdateStatus)
  /\ \A n \in Names :
       /\ SF_awVars(Reconcile(n))
       /\ WF_awVars(DeliverArtifactWorkflow(n)) /\ WF_awVars(DeliverWorkflow(n))
       /\ WF_awVars(ArgoStep(n))

AWFairSpec == AWSpec /\ AWFairness

-----------------------------------------------------------------------------
(* Properties *)

\* A Workflow never outlives its ArtifactWorkflow, and never belongs to one
\* that could vanish without the reconciler noticing: while it exists, the
\* stored ArtifactWorkflow exists and carries the finalizer.  So a later
\* ArtifactWorkflow of the same name never adopts the Workflow of a former
\* one through the ignored AlreadyExists of createArgoWorkflow.
WorkflowHasOwner ==
  \A n \in Names :
    Exists(wfLog[n]) => Exists(awLog[n]) /\ Stored(awLog[n]).finalizer

\* The status is backed by a run: an ArtifactWorkflow that is not being
\* deleted and reports a phase has its Workflow, however stale the copy was
\* the phase was written from.  So the Get of checkArgoWorkflow only fails
\* for a cache that lags.
PhaseBackedByWorkflow ==
  \A n \in Names :
    Exists(awLog[n]) /\ ~Stored(awLog[n]).deleting /\ Stored(awLog[n]).phase # WorkflowUnknown
      => Exists(wfLog[n])

\* The result is the result of the corresponding Workflow: "Phase tracks which
\* phase the corresponding Workflow is in" (ArtifactWorkflowStatus), which for
\* a completed phase, the reconciler's last word, must be exact.
ResultIsOfWorkflow ==
  \A n \in Names :
    Exists(awLog[n]) /\ ~Stored(awLog[n]).deleting /\ Completed(Stored(awLog[n]).phase)
      => Exists(wfLog[n]) /\ Stored(wfLog[n]).phase = Stored(awLog[n]).phase

\* A result is final: no reconcile, working from a stale copy, replaces the
\* completed phase of an ArtifactWorkflow.
CompletedIsFinal ==
  [][\A n \in Names :
       Exists(awLog[n]) /\ Completed(Stored(awLog[n]).phase) /\ Exists(awLog[n])' =>
         Stored(awLog[n])'.phase = Stored(awLog[n]).phase]_awVars

\* The controller implements ArtifactWorkflowLife: seen at the API server, an
\* ArtifactWorkflow and its Workflow come, report and go in the order promised
\* there, whatever the caches show and whichever calls fail.
StoredAWs == [n \in Names |-> Stored(awLog[n])]

StoredWorkflows == [n \in Names |-> Stored(wfLog[n])]

Life == INSTANCE ArtifactWorkflowLife WITH aw <- StoredAWs, wf <- StoredWorkflows

ImplementsLife == Life!Spec

\* A deleted ArtifactWorkflow goes, and its Workflow with it.
DeletionCompletes ==
  \A n \in Names :
    (Exists(awLog[n]) /\ Stored(awLog[n]).deleting) ~> (~Exists(awLog[n]) /\ ~Exists(wfLog[n]))

\* The result of a Workflow is reported, unless the ArtifactWorkflow is
\* deleted first: the phase is not left at Pending, nor at the empty phase
\* the Workflow had before Argo picked it up.  From the empty phase the way to
\* the result is through createArgoWorkflow, so the ArtifactType and the
\* Secrets have to be there even though the Workflow has long been created.
ResultReported ==
  \A n \in Names :
    <>[](n \in ready) =>
      ((Exists(wfLog[n]) /\ Completed(Stored(wfLog[n]).phase)) ~>
         (~Exists(awLog[n]) \/ Stored(awLog[n]).deleting \/ Completed(Stored(awLog[n]).phase)))

\* An ArtifactWorkflow whose ArtifactType and Secrets arrive late is run in
\* the end, although neither is watched: the failed reconcile is retried.
EventuallyStarted ==
  \A n \in Names :
    <>[](n \in ready) =>
      (Exists(awLog[n]) ~> (~Exists(awLog[n]) \/ Stored(awLog[n]).deleting \/ Exists(wfLog[n])))
=============================================================================
