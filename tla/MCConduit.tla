------------------------------ MODULE MCConduit ------------------------------
(***************************************************************************)
(* An instance of Conduit for TLC.                                         *)
(***************************************************************************)
EXTENDS Conduit

CONSTANTS e, x, u          \* an Endpoint, a raw artifact spec, a URL

MCTypes == {"oci"}

Artifacts(seq) == [src |-> e, dst |-> e, artifacts |-> seq]

OneOrNone ==
  {Artifacts(<<[type |-> "oci", raw |-> x, src |-> NoRef, dst |-> NoRef]>>), Artifacts(<<>>)}

BriefPhases == {"Succeeded"}

\* The Endpoint of the Order is missing, or is there.
EndpointOrNot ==
  {[endpoints |-> [n \in Endpoints |-> ep], secrets |-> {}] :
     ep \in {Absent, [generation |-> 0, url |-> u, secretRef |-> NoRef]}}
=============================================================================
