--------------------------- MODULE WorkflowPhase ---------------------------
(***************************************************************************)
(* The phases of an ArtifactWorkflow (api/arc/v1alpha1).  They are the     *)
(* phases of the Argo Workflow behind it; the empty string, which is what  *)
(* a freshly created object of either kind carries, is WorkflowUnknown.    *)
(***************************************************************************)

WorkflowUnknown == ""

Completed(phase) == phase \in {"Succeeded", "Failed", "Error"}

InProgress(phase) == phase \in {"Pending", "Running"}

Phases == {WorkflowUnknown, "Pending", "Running", "Succeeded", "Failed", "Error"}
=============================================================================
