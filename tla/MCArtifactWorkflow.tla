------------------------- MODULE MCArtifactWorkflow -------------------------
(***************************************************************************)
(* Instances of ArtifactWorkflowController for TLC.                        *)
(***************************************************************************)
EXTENDS ArtifactWorkflowResults

MCOwners == {1}
=============================================================================
