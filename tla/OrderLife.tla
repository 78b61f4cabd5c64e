----------------------------- MODULE OrderLife -----------------------------
(***************************************************************************)
(* What the Order controller promises: the life of an Order and of the     *)
(* ArtifactWorkflows of its name as the API server shows them, without     *)
(* caches, work queue, working copies, failures or restarts.               *)
(* OrderController implements this specification.                          *)
(***************************************************************************)
EXTENDS WorkflowPhase

CONSTANTS
  OrderSpecs,  \* the specs users give the Order
  Shas,        \* the ArtifactWorkflows there may be, by hash
  Runnable,    \* those whose artifact spec can be turned into parameters
  Wanted,      \* what a spec may ask for, depending on Endpoints and Secrets
  UIDs,        \* UIDs of Orders
  Absent       \* no object

VARIABLES
  order,       \* the Order
  aw           \* the ArtifactWorkflow of each hash

vars == <<order, aw>>

NoAWs == [s \in {} |-> 0]

Init == order = Absent /\ aw = [s \in Shas |-> Absent]

\* A new Order owns nothing: what an earlier one of its name has left behind
\* belongs to another UID.
Create(spec, u) ==
  /\ order = Absent
  /\ \A s \in Shas : aw[s] # Absent => aw[s].owner # u
  /\ order' = [uid |-> u, deleting |-> FALSE, finalizer |-> FALSE, spec |-> spec, status |-> NoAWs]
  /\ UNCHANGED aw

Edit(spec) ==
  /\ order # Absent
  /\ order' = [order EXCEPT !.spec = spec]
  /\ UNCHANGED aw

Protect ==
  /\ order # Absent /\ ~order.deleting
  /\ order' = [order EXCEPT !.finalizer = TRUE]
  /\ UNCHANGED aw

\* Deleting an Order removes it at once if nothing protects it.
Delete ==
  /\ order # Absent /\ ~order.deleting
  /\ order' = IF order.finalizer THEN [order EXCEPT !.deleting = TRUE] ELSE Absent
  /\ UNCHANGED aw

\* The status lists all that the spec of the Order, as it is stored, asks for,
\* with the indices of the artifacts; what is listed for the first time has no
\* phase yet.
Report(desired, phase) ==
  /\ order # Absent /\ order.finalizer /\ ~order.deleting
  /\ desired \in Wanted[order.spec]
  /\ \A s \in DOMAIN desired \ DOMAIN order.status : phase[s] = WorkflowUnknown
  /\ order' = [order EXCEPT !.status = [s \in DOMAIN desired |->
                                         [index |-> desired[s], phase |-> phase[s]]]]
  /\ UNCHANGED aw

Clear ==
  /\ order # Absent /\ order.deleting
  /\ order' = [order EXCEPT !.status = NoAWs]
  /\ UNCHANGED aw

\* A protected Order goes after what its status listed.
Release ==
  /\ order # Absent /\ order.deleting
  /\ DOMAIN order.status = {}
  /\ order' = Absent
  /\ UNCHANGED aw

\* An ArtifactWorkflow is created where there is none, and while the Order it
\* is created for is there, under the protection of the finalizer.  It may be
\* that the Order is being deleted by then.
CreateArtifactWorkflow(s) ==
  /\ order # Absent /\ order.finalizer
  /\ aw[s] = Absent /\ s \in Runnable
  /\ aw' = [aw EXCEPT ![s] = [owner |-> order.uid, deleting |-> FALSE,
                              finalizer |-> FALSE, phase |-> WorkflowUnknown]]
  /\ UNCHANGED order

\* The Order controller, the garbage collector and users delete.
DeleteArtifactWorkflow(s) ==
  /\ aw[s] # Absent /\ ~aw[s].deleting
  /\ aw' = [aw EXCEPT ![s] = IF aw[s].finalizer THEN [aw[s] EXCEPT !.deleting = TRUE]
                             ELSE Absent]
  /\ UNCHANGED order

\* The ArtifactWorkflow controller adds its finalizer, reports and releases.
RunArtifactWorkflow(s) ==
  /\ aw[s] # Absent
  /\ \/ ~aw[s].deleting /\ aw' = [aw EXCEPT ![s].finalizer = TRUE]
     \/ /\ aw[s].finalizer /\ ~aw[s].deleting /\ ~Completed(aw[s].phase)
        /\ \E p \in Phases : aw' = [aw EXCEPT ![s].phase = p]
     \/ aw[s].deleting /\ aw' = [aw EXCEPT ![s] = Absent]
  /\ UNCHANGED order

Next ==
  \/ \E spec \in OrderSpecs : Edit(spec) \/ \E u \in UIDs : Create(spec, u)
  \/ Protect \/ Delete \/ Clear \/ Release
  \/ \E spec \in OrderSpecs : \E desired \in Wanted[spec] :
       \E phase \in [DOMAIN desired -> Phases] : Report(desired, phase)
  \/ \E s \in Shas :
       CreateArtifactWorkflow(s) \/ DeleteArtifactWorkflow(s) \/ RunArtifactWorkflow(s)

Spec == Init /\ [][Next]_vars
============================================================================
