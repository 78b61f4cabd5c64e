# ARC (artifact-conduit): TLA+ models, checks and proofs

ARC moves artifacts between registries. A user writes an `Order` that lists
artifacts; a controller turns each artifact into an `ArtifactWorkflow`; a second
controller turns each `ArtifactWorkflow` into an Argo `Workflow` and reports its
phase back. All state lives in API objects. What makes the controllers hard is
not in any single line: they read from caches that lag behind the API server,
they share objects with each other, with users, with the garbage collector and
with Argo, and they can fail or restart between any two API calls.

## 1. Inventory

| Component | State it keeps | Operations | Talks to |
|---|---|---|---|
| Order controller (`pkg/controller/order_controller.go`) | finalizer and `status.artifactWorkflows` of the Order; the ArtifactWorkflows it creates | `Reconcile`: clean up, finalizer, compute desired state, create, delete, sync phases, write status; endpoint mapping | API server, cache, work queue |
| ArtifactWorkflow controller (`pkg/controller/artifactworkflow_controller.go`) | finalizer and `status.phase` of the ArtifactWorkflow; the Workflow it creates | `Reconcile`: delete Workflow, finalizer, `createArgoWorkflow`, `checkArgoWorkflow` | API server, cache, work queue, Argo |
| Storage (`pkg/registry/*`) | the objects in etcd, their resourceVersion and deletionTimestamp | create, conditional update, status update, delete | both controllers, users |
| Parameters (`dawToParameters`, `flattenMap`, `hydrateArgoWorkflow`) | none: the ArtifactWorkflow carries them from one controller to the other | flatten the artifact spec, add those of Endpoints and ArtifactType, mount secrets | both controllers |
| Controller manager (`cmd/arc-controller-manager`) | none | runs the two controllers in one process, over one cache; no field index | |
| API server (`pkg/apiserver`, `cmd/arc-apiserver`) | none of its own | wires storage into the generic server; version mapping | |
| Phases (`api/arc/v1alpha1/artifactworkflow_types.go`) | | `Completed`, `InProgress` | |

The hard behaviours: stale reads and the conflicts they lead to; an object
deleted between the read and the use of it; a name used again while the caches
still show its former bearer; a crash between the steps of a reconcile; errors
that are ignored on purpose (`AlreadyExists`, failed Deletes in the deletion
branch); events that nobody turns into a request; waiting for objects that are
not watched.

What has to be true:

* *ArtifactWorkflow controller*: a Workflow does not outlive its
  ArtifactWorkflow; a reported phase has a Workflow behind it; a result is the
  result of the right Workflow and is final; a deletion completes; a result is
  reported.
* *Order controller*: it comes to rest only when status and ArtifactWorkflows
  match the spec; users' edits survive; an Order goes only with an empty status;
  an Order that owns ArtifactWorkflows has a finalizer; an Order is fulfilled in the end; a deleted Order leaves nothing behind.
* *Both together*: each controller is the environment the other one counts on;
  what an Order asks for is run and its result shown; nothing runs on after an
  Order is deleted.
* *Parameters*: they are the leaves of the artifact spec, whatever the order of
  the walk; the ArtifactType overrides; the secret flags fit the mounted secrets.

`PROJECT.json` lists the components, the hazards with the line at which each
one bites, and the lines each definition models.

## 2. Modules

| Module | Models |
|---|---|
| `WorkflowPhase` | the phases and their predicates |
| `ObjectHistory` | one API object: what etcd holds, what the cache shows, what is under way |
| `ObjectHistoryTheorems` | lemmas about writing to and delivering from a history |
| `ArtifactWorkflowController` | the ArtifactWorkflow controller, with Argo and users as environment |
| `ArtifactWorkflowLife` | what it promises: the objects as the API server shows them, without caches, queue, failures or restarts |
| `ArtifactWorkflowProofs` | its inductive invariant and the safety theorems |
| `ArtifactWorkflowRefinement` | the proof that it implements `ArtifactWorkflowLife`; what it writes |
| `ArtifactWorkflowResults` | the proof that a result is that of the right Workflow, and when |
| `DesiredArtifactWorkflows` | the desired state of an Order: references, hash, `desiredAWs` |
| `OrderController` | the Order controller, with users, garbage collector and the other controller as environment |
| `OrderLife` | what it promises: an Order and its ArtifactWorkflows as the API server shows them |
| `OrderProofs` | its types, its inductive invariants and the theorems |
| `OrderRefinement` | the proof that it implements `OrderLife`; owners are protected |
| `Conduit` | the controller manager: both controllers over the same ArtifactWorkflows |
| `ConduitProofs` | the proofs that the composition implements both modules |
| `WorkflowParameters` | the contents of ArtifactWorkflow and Workflow: `dawToParameters`, `flattenMap`, the two `hydrate` functions |
| `WorkflowParametersProofs` | the theorems about them |
| `MCArtifactWorkflow`, `MCOrder`, `MCConduit`, `MCParameters` | instances for TLC |

### Histories

A controller reads an object from the informer cache and writes it to the API
server. A history is the sequence of the cached version and all later versions
the watch has not delivered yet. `Cached(h)` is its first element, `Stored(h)`
its last; a write appends, a watch event drops the first element and puts a
request into the work queue. An absent object is the version `Absent`.

Both strategies answer `AllowUnconditionalUpdate` with false, so an update whose
resourceVersion is not the stored one is a Conflict. Since each working copy
comes from the cache, its resourceVersion is the stored one exactly when no
event of the object was delivered since the read (`current`) and none is
outstanding (`InSync`). That makes version numbers superfluous and keeps the
state spaces finite, which the liveness checks need. DELETE marks an object that
has a finalizer and removes any other; an update that removes the last finalizer
of a marked object removes the object (`Purge`); an update without a change is
not a new version (`Write`).

### A reconcile

A reconcile is cut where it calls the API server; everything between two calls
is one step, including the reads from the cache that precede the call. The
state of a reconcile in progress is its next call, its working copy and what is
left of its loops. An error puts the request back into the queue; a crash loses
reconcile and queue, and the initial list of the informers queues every cached
object. A failed call is an action of its own (`AWFail`, `Fail`) that can hit
any call; for the Deletes of the deletion branch, whose errors are ignored, it
is an alternative of the step (`Cleanup`).

`ArtifactWorkflowController.FirstCall` holds the early returns of `Reconcile`
up to its first API call; `DeleteWorkflow`, `RemoveFinalizer`, `AddFinalizer`,
`CreateWorkflow`, `GetWorkflow` and `UpdateStatus` are the calls. The contents of
the Workflow are abstracted to its phase here (`WorkflowParameters` has them). Whether the ArtifactType and Secrets
of a name are in the cache is the set `ready`; no event belongs to it, as in the
code.

`OrderController` follows all the Orders of one name, one after the other, each
with its UID: the names of ArtifactWorkflows start with the name of the Order,
so the reconciles of two names touch different objects. `ReconcileOrder`
computes `desiredAWs`, `createAWs` and `deleteAWs`; `CreateArtifactWorkflow`,
`RejectArtifact` (an artifact spec that is no JSON object ends the reconcile),
`DeleteArtifactWorkflow`, `SyncPhases`, `UpdateStatus` are the rest of the
handler; `Cleanup`, `CleanupStatus` and `RemoveFinalizer` the deletion branch.
Map iterations happen in any order. An Endpoint has a URL, a Secret it may
name and a generation; the generation is that of a strategy that never sets one.
A hash is the record of what is hashed, that
is, SHA-256 cut to 16 digits is taken to be injective. `SyncPhases` reads the
phases of all ArtifactWorkflows in one step; the code reads them one after the
other from the same cache.

### The composition

`Conduit` instantiates both controllers over one `awLog`. A step of it is a step
of one controller that leaves the private state of the other alone, or a step of
both: one informer hands the event of an ArtifactWorkflow to both queues, and a
crash stops both workers. The actions by which each module guesses what the other
controller does (`EnvCreate`, `EnvDelete`; `AWAddsFinalizer`, `AWSetsPhase`,
`AWRemovesFinalizer`) do not occur. That the guesses are right is
`ImplementsOrder` and `ImplementsArtifactWorkflow`: the composition implements
`OrderController!Spec` and `ArtifactWorkflowController!AWSpec`, with no bound on
the histories (`NoBound`). Left out of the composition, to keep it small: the
informers' resync, deletion of ArtifactWorkflows by hand, and ArtifactTypes and
Secrets that come and go.

### What the ArtifactWorkflow controller promises

`ArtifactWorkflowLife` has two variables, the stored ArtifactWorkflow and the
stored Workflow of each name, and eight actions. An ArtifactWorkflow starts
without a Workflow. A Workflow starts only under the protection of the finalizer,
is removed only because its ArtifactWorkflow is being deleted, and an
ArtifactWorkflow with a finalizer goes only after its Workflow. A phase is
reported only while there is a Workflow, and not after a completed one. The
refinement mapping takes the last version of each history.

### What the Order controller promises

`OrderLife` has the stored Order and the stored ArtifactWorkflow of each hash, and
ten actions. An ArtifactWorkflow is created only for the Order that is there, and
only under its finalizer; the Order may be marked for deletion by then, since the
reconcile works from a cached copy. A status lists exactly what the spec it is
stored with asks for, with the Endpoints and Secrets of some moment (`Wanted`),
and has no phase for what it lists for the first time. An Order with a finalizer
goes only after its status was cleared. Edits are the users' only: no action of
the controller changes a spec. Nothing is promised about when ArtifactWorkflows
are deleted, by whom, or how many are left behind: `order_orphan` shows why.

### Parameters

`WorkflowParameters` follows one ArtifactWorkflow from the artifact spec to the
arguments of the Workflow. An artifact spec is a function from the paths of its
leaves to their values (a scalar, or a list of scalars); keys and names are
sequences of letters, since `flattenMap` builds names out of keys. Each iteration
of a loop over a Go map is an action that takes any remaining key, and the
recursion is a stack of calls: `FlattenLeaf`, `FlattenChild` (a map within the
map), `Return`, and `Panic` for an empty key. `HydrateArtifactWorkflow` completes
the Order controller's part from the Endpoints as it read them;
`HydrateArgoWorkflow` is the other controller's part, before which users may
change the Endpoints. `fmt.Sprintf` turns null into `<nil>`. Which of two entries
of one name Argo uses is not part of this repository; `TypeOverrides` states that
the ArtifactType's entry is the last one. A map without entries is the value
`EmptyMap`: it adds nothing, but its key is looked at all the same. `LeafNames`, the
reference for the names, has the last key of a path capitalized and leaves open
which of the inner keys are, so `ParametersAreLeaves` says nothing on a point on
which code and documentation differ and which no run checks: `flattenMap` adds the
key of a nested map to the prefix as it is (`order_controller.go:428`), so the value
at `a.b` is `specaB`, while `docs/operator-manual/workflow-config.md:95` says that
names are "translated to camelCase", which would be `specAB`.
Left out: maps within lists (printed by `fmt` as one value), and keys whose first
character is not ASCII.

The operators called *Faulty variant* stand for plausible mistakes in the code.
No specification uses them; each one is there to show that a property notices.

## 3. Runs

| Run | Checks | Outcome |
|---|---|---|
| `aw_safety` | `AWTypeOK`, `AWInv`, `WorkflowHasOwner`, `PhaseBackedByWorkflow`, `CompletedIsFinal`, `ImplementsLife` | holds |
| `aw_result_reuse` | `ResultIsOfWorkflow`, names reused at once | violated |
| `aw_liveness` | names reused after the Workflow cache has caught up: `ResultIsOfWorkflow`, `ResultInv`, `DeletionCompletes`, `ResultReported`, `EventuallyStarted` | holds |
| `order_safety` | `TypeOK`, `RestMeansDone`, `OrderInv`, `RestInv`, `OwnerProtected`, `LifeInv`, `EditsSurvive`, `GoesWithEmptyStatus`, `ImplementsOrderLife` | holds |
| `order_static` | `OrderFulfilled`, `ResultReachesOrder`, `DeletedOrderLeavesNothing`, for an Order nobody edits | holds |
| `order_orphan` | `NoFragmentLeftBehind` | violated |
| `order_index` | `IndexUpToDate` | violated |
| `order_readd` | `OrderFulfilled`, for an Order that is edited | violated |
| `order_endpoint` | `EndpointChangesReconciled` | violated |
| `order_generation` | `EndpointChangeDetected` | violated |
| `parameters` | `ParametersAreLeaves`, `TypeOverrides`, `SecretFlagMatchesVolume`, `WalkEnds` | holds |
| `conduit` | `WorkflowProtected`, `ImplementsOrder`, `ImplementsArtifactWorkflow`, `OrderDelivered`, `NothingRunsOn` | holds |

What the violations show, in short (the findings in `PROJECT.json` quote the
sentence of the repository each one contradicts):

1. `aw_result_reuse`: an ArtifactWorkflow created again under its name can adopt
   the result of the former Workflow, for good: the cache still shows the old
   Workflow, `checkArgoWorkflow` does not compare owners, and a completed phase
   is never looked at again.
2. `order_orphan`: an artifact removed between the Create and the status update
   leaves its ArtifactWorkflow running; only the deletion of the Order removes it.
3. `order_index`: exchanging artifacts does not refresh the indices.
4. `order_readd`: removing and re-adding an artifact can wedge the Order: it
   lists an ArtifactWorkflow that is gone, and every reconcile fails on its Get.
5. `order_endpoint`: a changed Endpoint reconciles nothing, for want of a field
   index.
6. `order_generation`: a reconcile would not notice a changed Endpoint either:
   its generation never changes, and the hash knows nothing else of its contents.

The comments at `order_controller.go:89` and `:92` ("All fragments are gone,
remove finalizer") say more than the code does: the finalizer goes when the
status is empty, while ArtifactWorkflows may still exist. That they do go in the
end, those the status never listed included, is left to the garbage collector;
`DeletedOrderLeavesNothing` and `NothingRunsOn` check that it works out, down to
the Workflows.

### Bounds

`MaxLag` bounds the length of a history *for the environment only*: the
controllers' own steps are never cut off. Three versions (cached, under way,
stored) are what it takes to have a deleted, an absent and a new object under one
name at once. One name suffices for `ArtifactWorkflowController`, whose actions
touch the objects of one name; that other names do not interfere is part of the
proofs. The phases are all there in the safety runs of that module. `MaxFaults`
allows one failure, or two, at any point; `MaxUserOps` two or three
operations of users: create, edit and edit back, or create, delete and create
again. The Orders have one to three artifacts, two of them equal up to the
defaults, over one Endpoint; in `order_safety` one of them cannot be parsed.
`AWPhases` is reduced to a result, since the Order controller only copies phases.
`ReuseLag`, the length of a Workflow's history at which its name may be used
again, separates the two runs on `ResultIsOfWorkflow`; `NoBound` stands for no
bound. `order_static` stops at two operations (create and delete, or create and
an Endpoint that appears), because a third, creating the Order again, leads into
the state `order_readd` shows: the new Order adopts ArtifactWorkflows that are
about to be collected. So `OrderFulfilled`, and `OrderDelivered` in `conduit`, hold
within two operations and without deletion by hand, not beyond; no passing run checks
liveness for an Order that is deleted and created again, or that loses an
ArtifactWorkflow by hand. `conduit` has one artifact or none, an Endpoint that may
be missing, two operations and one fault; Argo leaves a Workflow alone while an
event of it is under way (`MaxLag` = 2). The Order runs and `conduit` do not
check for deadlock: when users and faults are used up and the controllers are at
rest, nothing is left to happen. Neither does the run on parameters: the walk is
over when the Workflow is made.

The artifact specs of `parameters` are all those with up to three leaves
(`MCLeaves`) out of nine paths. These contain each way for two paths to spell
one name: by case (`a`, `A`), by number (the list `b` and the key `b0`), by
nesting (`b` in `A`, and `aB`). Empty keys occur at the top and below, and maps
without entries at `a` and at the empty key. The two
contents of Endpoints differ in whether there is a secret.

### Fairness

controller-runtime keeps its worker running and retries a failed request with a
bounded delay, hence weak fairness of the worker's steps. Its queue is first in,
first out, so each queued name gets its turn: strong fairness of `Reconcile(n)`.
Watch events arrive (weak fairness of the deliveries). The garbage collector
collects, Argo moves Workflows on, and, for the Order controller, the other
controller removes its finalizer from what is deleted, which is
`DeletionCompletes` of the other module. The composition needs no such
assumption: both controllers are there, and fairness is stated for each worker,
each watch and each name, since fairness of their union would let one watch
starve another. Users, failures, crashes and the
informers' resync are never assumed to happen. In `WorkflowParameters` the code
runs on (weak fairness of `Step`); users who change Endpoints need not. Where a property needs an
ArtifactType, a Secret or an Endpoint to be there, it says so.

## 4. Proofs

All theorems are for any sets of names, owners, Order specs, Endpoints and
Secrets, for any artifact specs, and for any bounds. The assumptions on the
constants are that `Absent` is no object, that the bounds are natural numbers, that
the sets of an instance consist of Orders and clusters, and that an artifact spec is
a map: a leaf has a path that is not empty, no path of a leaf is the beginning of
another one's, a list is finite, and a leaf that is neither list nor scalar is a map
without entries. The theorems that need a hypothesis of their own
name it in the table (`ReuseCaughtUp`, `SameCluster`, `DistinctTypeNames`,
`TypeSetsNoFlag`).

| Theorem | States |
|---|---|
| `AWTypeCorrect`, `AWInvariant` | `AWSpec => []AWTypeOK`, `[]AWInv` |
| `WorkflowAlwaysHasOwner` | `AWSpec => []WorkflowHasOwner` |
| `PhaseAlwaysBacked` | `AWSpec => []PhaseBackedByWorkflow` |
| `CompletedStaysFinal` | `AWSpec => CompletedIsFinal` |
| `ControllerImplementsLife` | `AWSpec => ImplementsLife` |
| `ResultInvariant`, `ResultAlwaysOfWorkflow` | `ReuseCaughtUp` implies `AWSpec => []ResultInv`, `[]ResultIsOfWorkflow` |
| `TypeCorrect`, `OrderInvariant` | `Spec => []TypeOK`, `[]OrderInv` |
| `NoEditLost` | `Spec => EditsSurvive` |
| `CleanedUpBeforeGone` | `Spec => GoesWithEmptyStatus` |
| `RestInvariant`, `RestOnlyWhenDone` | `SameCluster` implies `Spec => []RestInv`, `[]RestMeansDone` |
| `LifeInvariant`, `OwnerAlwaysProtected` | `Spec => []LifeInv`, `[]OwnerProtected` |
| `ControllerImplementsOrderLife` | `Spec => ImplementsOrderLife` |
| `ManagerImplementsOrder` | `ConduitSpec => ImplementsOrder` |
| `ManagerImplementsArtifactWorkflow` | `ConduitSpec => ImplementsArtifactWorkflow` |
| `ManagerKeepsPromises` | `ConduitSpec` implies `EditsSurvive`, `GoesWithEmptyStatus`, `ImplementsOrderLife`, `[]WorkflowHasOwner`, `[]PhaseBackedByWorkflow`, `CompletedIsFinal`, `ImplementsLife` |
| `WorkflowAlwaysProtected` | `ConduitSpec => []WorkflowProtected` |
| `ParametersAlwaysLeaves` | `Spec => []ParametersAreLeaves` |
| `TypeHasLastWord` | `DistinctTypeNames` implies `Spec => []TypeOverrides` |
| `FlagsAgree` | `TypeSetsNoFlag` implies `Spec => []SecretFlagMatchesVolume` |

### ArtifactWorkflow controller

None of the safety properties is inductive. A stale copy is what breaks them:
when the worker creates a Workflow from a cached ArtifactWorkflow, why does the
stored one still have the finalizer? `AWInv` answers with four parts:

* `HistoryInv`: in a history, everything after a live version (finalizer, not
  being deleted) has the finalizer, and nothing before a live version is absent
  or being deleted. Only this controller removes the finalizer, only by an
  update of the current version, and a new object gets its finalizer only when
  the cache has caught up with it.
* `CopyInv`: a current working copy is the cached version, but for the phase.
* `CallInv`: what the next call relies on. Before `createWorkflow`, the stored
  ArtifactWorkflow has the finalizer; before `removeFinalizer`, the Workflow is
  gone; before `deleteWorkflow`, the stored ArtifactWorkflow is not live, even
  if it is a later one of the same name; before a status update with a current
  copy, the phase is not completed.
* `WorkflowInv`: a Workflow has an ArtifactWorkflow with a finalizer, and a
  phase anywhere in the history of a live ArtifactWorkflow has a Workflow.

One lemma per action shows that it preserves `AWInv`; the lemmas on histories
are in `ObjectHistoryTheorems`. The refinement follows from `AWInv` as well: each
call of the controller that succeeds is one step of `ArtifactWorkflowLife`,
everything else stutters.

`ResultIsOfWorkflow` is false in general (`aw_result_reuse`) and proved under
`ReuseCaughtUp`: a name is used again only once the cache shows that the former
Workflow is gone. `ResultInv` says that then every version of the Workflow the
cache knows or will know is the present Workflow on its way to its result, and
that a result the worker holds and can still write is that of the Workflow.

### Order controller

`OrderInv` has three parts. `Sound`: every version of the Order, cached, under way
or stored, has its finalizer before it has a status. `CopyInv`: a current working
copy is the cached version but for the status, and a status that is written is a
change. `CallInv`: what the reconcile found out about its copy still holds at its
next call; before `removeFinalizer` the status of the copy is empty. Since only an
update with a current copy succeeds, `NoEditLost` and `CleanedUpBeforeGone` follow.

`RestMeansDone` needs `RestInv`, which adds that a reconcile whose copy is
outdated has left a request in the queue, and that the reconcile compares the
status with what the Order asks for now. A reconcile that ends without a write
then has found all as it should be; one that ends with a write has made an event.
`SameCluster`, that Endpoints and Secrets stay as they are, is needed because a
change of theirs makes no request (`order_endpoint`).

`OwnerProtected` and the refinement need `LifeInv`. The question is again that of
the outdated copy: a reconcile that creates ArtifactWorkflows checks neither that
its Order is still there nor that it is still the one it read. `LifeInv` says:

* `Held`: the Order of a version with finalizer and without deletion mark, however
  old, is still there under its finalizer in all later versions. Only a reconcile
  that has seen the mark removes the finalizer, and its update succeeds only when
  no older version is cached.
* `ApplyHeld`: the Order of the working copy is stored, with its finalizer, at each
  Create of the reconcile. It follows from `Held` when the reconcile starts, and
  no step of anyone else removes a finalizer.
* `Numbered`: UIDs are given out in turn, so a new Order owns nothing.
* `WantedInv` and `StatusInv`: the status about to be written lists what the spec of
  the copy asks for. An update that succeeds has a current copy, so that is the
  spec it is stored with.

Each step is shown to be a step of `OrderLife` or to stutter (`StepImplements`);
that owners stay protected is then an invariant of the steps of `OrderLife` alone
(`LifeOfOrder`, `LifeOfArtifactWorkflow`). No hypothesis on the cluster is needed.

### Composition

`ManagerImplementsOrder` and `ManagerImplementsArtifactWorkflow` are proved by one
induction. Each controller guarantees its writes to ArtifactWorkflows only if its
own invariant holds, and its invariant only holds if the other one guarantees
its writes. `ConduitInv` is the conjunction of both controllers' invariants; under
it, every step of the composition is a step of either specification or a stutter
(`OrderSide`, `ArtifactWorkflowSide`), and so `ConduitInv` is kept by the lemmas
that are there already. What a worker writes is stated once, next to its
proofs: `WorkerWrites` in `ArtifactWorkflowRefinement`, `WorkerWritesAW` in
`OrderProofs`. With the two refinements, what is proved of each controller holds of
the manager (`ManagerKeepsPromises`), and what is proved of both combines:
`WorkflowAlwaysProtected` needs `WorkflowInv` of the one and `OwnerProtected` of the
other.

### Parameters

The invariant `ParametersInv` follows the names: the calls of `flattenMap` have
prefixes that start with "spec", so every name it writes does, none is a flag, and
the flags stand alone at their places in the list. `DistinctTypeNames` is needed
because of two entries of one name only the later one can be last;
`TypeSetsNoFlag` because an ArtifactType may override the flags too.

`ParametersAlwaysLeaves` needs `LeavesInv` on top of it: a call of `flattenMap` has
the prefix its path spells (`PrefixInv`); every leaf of the spec is written or still
before one of the calls under way (`PendingInv`), so when the last call returns all
are written, in whatever order the maps were walked; and whatever is written is the
value of a leaf of that name (`SourceInv`). The invariants use `FlatName`, the exact
name the code gives a leaf, which is one of its `LeafNames`. What `FlattenSeq` makes of a path
takes an induction over its length: there is no least length for which the claim
fails (`LeastNatural`, from the library's well-foundedness theorem).

### Only model-checked

The liveness properties, since liveness under fairness is out of the prover's
reach (`DeletionCompletes`, `ResultReported`, `EventuallyStarted`,
`OrderFulfilled`, `ResultReachesOrder`, `DeletedOrderLeavesNothing`,
`OrderDelivered`, `NothingRunsOn`, `WalkEnds`). Every safety property that a passing
run checks has a theorem.

## 5. Not modelled

* Workflows that Argo (by a time to live) or users remove while their
  ArtifactWorkflow is Pending or Running: every later `checkArgoWorkflow` fails.
  `PhaseBackedByWorkflow` and the proofs rest on Workflows that stay.
* Users who write status or finalizers.
* More than one controller manager. Leader election is off unless asked for;
  the manifests under `config/` ask for it and run one replica.
* The contents of Secrets: neither a generation nor a watch would show a change.
* In the storage: field selectors, table output and the reset fields of
  server-side apply, which no controller uses, and the storage of ArtifactTypes,
  which the controllers only read.
* The wiring of the API server (`pkg/apiserver`, with the version mapping
  `ARCVersionToKubeVersion`) and of the manager (flags, certificates, metrics,
  probes), the admission initializer, the test environment: no state, or pure
  I/O.
* Generated code: the OpenAPI definitions, deep copies, conversions, apply
  configurations, typed clients, listers and informers. They make up nine tenths
  of the lines of the repository.
