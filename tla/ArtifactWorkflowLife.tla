------------------------ MODULE ArtifactWorkflowLife ------------------------
(***************************************************************************)
(* What the ArtifactWorkflow controller promises: the lives of an          *)
(* ArtifactWorkflow and of the Workflow behind it as the API server shows  *)
(* them, without caches, work queue, working copies, failures or restarts. *)
(* ArtifactWorkflowController implements this specification.               *)
(***************************************************************************)
EXTENDS Naturals, WorkflowPhase

CONSTANTS
  Names,       \* names of ArtifactWorkflows and Workflows
  Owners,      \* UIDs of their owners
  Absent       \* no object

VARIABLES
  aw,          \* the ArtifactWorkflow of each name
  wf           \* the Workflow of each name

vars == <<aw, wf>>

Init == aw = [n \in Names |-> Absent] /\ wf = [n \in Names |-> Absent]

Live(n) == aw[n] # Absent /\ aw[n].finalizer /\ ~aw[n].deleting

\* An ArtifactWorkflow starts without a Workflow: it adopts none.
Create(n, o) ==
  /\ aw[n] = Absent /\ wf[n] = Absent
  /\ aw' = [aw EXCEPT ![n] = [owner |-> o, deleting |-> FALSE,
                              finalizer |-> FALSE, phase |-> WorkflowUnknown]]
  /\ UNCHANGED wf

Protect(n) ==
  /\ aw[n] # Absent /\ ~aw[n].deleting
  /\ aw' = [aw EXCEPT ![n].finalizer = TRUE]
  /\ UNCHANGED wf

\* The Workflow starts under the protection of the finalizer.  It may be that
\* the ArtifactWorkflow is being deleted by then.
Start(n) ==
  /\ aw[n] # Absent /\ aw[n].finalizer
  /\ wf[n] = Absent
  /\ wf' = [wf EXCEPT ![n] = [phase |-> WorkflowUnknown]]
  /\ UNCHANGED aw

\* Argo moves a Workflow on; it does not leave a completed phase.
Progress(n, p) ==
  /\ wf[n] # Absent /\ ~Completed(wf[n].phase)
  /\ wf' = [wf EXCEPT ![n].phase = p]
  /\ UNCHANGED aw

\* A phase is reported while there is a Workflow, until one is completed.
Report(n, p) ==
  /\ Live(n) /\ ~Completed(aw[n].phase)
  /\ wf[n] # Absent
  /\ aw' = [aw EXCEPT ![n].phase = p]
  /\ UNCHANGED wf

\* Deleting an ArtifactWorkflow removes it at once if nothing protects it.
Delete(n) ==
  /\ aw[n] # Absent /\ ~aw[n].deleting
  /\ aw' = [aw EXCEPT ![n] = IF aw[n].finalizer THEN [aw[n] EXCEPT !.deleting = TRUE]
                             ELSE Absent]
  /\ UNCHANGED wf

\* A Workflow is removed for no other reason than that its ArtifactWorkflow is
\* being deleted.
Stop(n) ==
  /\ aw[n] # Absent /\ aw[n].deleting
  /\ wf' = [wf EXCEPT ![n] = Absent]
  /\ UNCHANGED aw

\* The ArtifactWorkflow goes after its Workflow.
Release(n) ==
  /\ aw[n] # Absent /\ aw[n].deleting
  /\ wf[n] = Absent
  /\ aw' = [aw EXCEPT ![n] = Absent]
  /\ UNCHANGED wf

Next ==
  \E n \in Names :
    \/ \E o \in Owners : Create(n, o)
    \/ \E p \in Phases : Progress(n, p) \/ Report(n, p)
    \/ Protect(n) \/ Start(n) \/ Delete(n) \/ Stop(n) \/ Release(n)

Spec == Init /\ [][Next]_vars
=============================================================================
