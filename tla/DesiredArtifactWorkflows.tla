---------------------- MODULE DesiredArtifactWorkflows ----------------------
(***************************************************************************)
(* The desired state of an Order: which ArtifactWorkflows it asks for      *)
(* (order_controller.go, the first loop of Reconcile).  An ArtifactWorkflow*)
(* is identified by the hash of the data it is made from.  The hash is     *)
(* taken to be injective, so the record of that data stands for it.        *)
(***************************************************************************)
EXTENDS ObjectHistory, FiniteSetsExt

CONSTANTS
  Types,        \* artifact types
  Raws,         \* raw artifact specs
  Unparsable,   \* those that are no JSON object
  Endpoints,    \* names of Endpoints
  Secrets,      \* names of Secrets
  URLs,         \* where an Endpoint may point to
  NoRef         \* the empty reference

Refs == Endpoints \union {NoRef}

SecretRefs == Secrets \union {NoRef}

Artifact == [type: Types, raw: Raws, src: Refs, dst: Refs]

OrderSpec == [src: Refs, dst: Refs, artifacts: Seq(Artifact)]

\* The strategy of the Endpoint storage prepares nothing on create or update:
\* the generation an Endpoint has is the one it was created with, zero.
EndpointGeneration == 0

Endpoint == [generation: {EndpointGeneration}, url: URLs, secretRef: SecretRefs]

\* What the reconciler finds in its caches: the Endpoints and the Secrets.
Cluster == [endpoints: [Endpoints -> Endpoint \union {Absent}], secrets: SUBSET Secrets]

\* The references of an artifact, or the defaults of the Order.
SrcRefName(spec, a) == IF a.src = NoRef THEN spec.src ELSE a.src

DstRefName(spec, a) == IF a.dst = NoRef THEN spec.dst ELSE a.dst

\* The Gets of an Endpoint and of the Secret it may name both succeed.
Fetched(c, ref) ==
  /\ ref # NoRef
  /\ c.endpoints[ref] # Absent
  /\ c.endpoints[ref].secretRef \in c.secrets \union {NoRef}

\* A single failing Get ends the reconcile of the whole Order.
AllFetched(spec, c) ==
  \A i \in DOMAIN spec.artifacts :
    /\ Fetched(c, SrcRefName(spec, spec.artifacts[i]))
    /\ Fetched(c, DstRefName(spec, spec.artifacts[i]))

\* Every artifact spec can be turned into parameters.
AllParsable(spec) == \A i \in DOMAIN spec.artifacts : spec.artifacts[i].raw \notin Unparsable

Shas == [type: Types, raw: Raws,
         srcEndpoint: Endpoints, srcGeneration: {EndpointGeneration},
         dstEndpoint: Endpoints, dstGeneration: {EndpointGeneration},
         srcSecret: SecretRefs, dstSecret: SecretRefs]

\* Secrets have no generation: the hash knows them by name.
Sha(spec, c, a) ==
  LET src == SrcRefName(spec, a)  dst == DstRefName(spec, a) IN
  [type |-> a.type, raw |-> a.raw,
   srcEndpoint |-> src, srcGeneration |-> c.endpoints[src].generation,
   dstEndpoint |-> dst, dstGeneration |-> c.endpoints[dst].generation,
   srcSecret |-> c.endpoints[src].secretRef, dstSecret |-> c.endpoints[dst].secretRef]

\* desiredAWs: the hashes of the artifacts, each with the index of its
\* artifact; equal artifacts share an entry and the last index stays.
DesiredAWs(spec, c) ==
  LET shaAt(i) == Sha(spec, c, spec.artifacts[i]) IN
  [s \in {shaAt(i) : i \in DOMAIN spec.artifacts} |->
     Max({i \in DOMAIN spec.artifacts : shaAt(i) = s})]
=============================================================================
