------------------------- MODULE WorkflowParameters -------------------------
(***************************************************************************)
(* The contents of a run.  hydrateArtifactWorkflow, dawToParameters and    *)
(* flattenMap (order_controller.go) turn the spec of an artifact and its   *)
(* Endpoints into the parameters of an ArtifactWorkflow; later, and in the *)
(* other controller, hydrateArgoWorkflow adds the parameters of the        *)
(* ArtifactType and the volumes with the secrets.                          *)
(*                                                                         *)
(* flattenMap ranges over Go maps, in an order that differs from run to    *)
(* run, and writes into one result map.  The module follows it entry by    *)
(* entry.  Names of parameters are sequences of words and letters, because *)
(* they are put together from keys.                                        *)
(***************************************************************************)
EXTENDS Naturals, Sequences, SequencesExt

CONSTANTS
  ArtifactSpecs,    \* the specs of artifacts: each a function from the paths
                    \* of its leaves to their values
  Endpoints,        \* the contents of Endpoints: type, remoteURL, secretRef
  TypeParameters,   \* the parameters of the ArtifactType
  Malformed,        \* an artifact spec that is no JSON object
  Null,             \* the JSON value null
  NoRef             \* the empty secretRef

\* A map without entries, the only kind of map that is a value at a path.
EmptyMap == [list |-> FALSE, items |-> <<>>]

\* Keys are strings, here sequences of letters; a list has finitely many elements,
\* a scalar is one.  The spec is a map, and no path goes on behind a value.
ASSUME ParametersAssumption ==
  /\ TypeParameters \in Seq(Range(TypeParameters))
  /\ \A spec \in ArtifactSpecs \ {Malformed} :
       /\ \A path \in DOMAIN spec :
            /\ path \in Seq(Seq(STRING)) \ {<<>>}
            /\ IsFiniteSet(DOMAIN spec[path].items)
            /\ spec[path].list \/ DOMAIN spec[path].items = {1} \/ spec[path] = EmptyMap
       /\ \A p, q \in DOMAIN spec : ~IsStrictPrefix(p, q)

VARIABLES
  endpoints,        \* the two Endpoints now
  daw,              \* the desired ArtifactWorkflow: its spec and the Endpoints as read
  stack,            \* the calls of flattenMap under way, the innermost first
  flattened,        \* the result map of flattenMap
  aw,               \* the ArtifactWorkflow, once it is made
  wf,               \* the Workflow, once it is made
  pc                \* "unmarshal", "flatten", "create", "done", "error" or "panic"

vars == <<endpoints, daw, stack, flattened, aw, wf, pc>>

Empty == [name \in {} |-> Null]

\* strings.ToUpper of a letter.
Upper ==
  [a |-> "A", b |-> "B", c |-> "C", d |-> "D", e |-> "E", f |-> "F", g |-> "G",
   h |-> "H", i |-> "I", j |-> "J", k |-> "K", l |-> "L", m |-> "M", n |-> "N",
   o |-> "O", p |-> "P", q |-> "Q", r |-> "R", s |-> "S", t |-> "T", u |-> "U",
   v |-> "V", w |-> "W", x |-> "X", y |-> "Y", z |-> "Z"]

ToUpper(letter) == IF letter \in DOMAIN Upper THEN Upper[letter] ELSE letter

Capitalized(key) == <<ToUpper(Head(key))>> \o Tail(key)

\* fmt.Sprintf("%v") of a JSON value that is no map and no list.
Sprintf(value) == IF value = Null THEN "<nil>" ELSE value

\* The keys of the map at a path.
KeysAt(path) ==
  {p[Len(path) + 1] : p \in {q \in DOMAIN daw.spec : IsStrictPrefix(path, q)}}

\* The value at a path is a map: keys follow, or it has no entries.
IsMap(path) == path \in DOMAIN daw.spec => daw.spec[path] = EmptyMap

\* A call flattenMap(prefix, src, flattened) that starts.
Call(prefix, path) == [prefix |-> prefix, path |-> path, todo |-> KeysAt(path)]

Init ==
  /\ endpoints \in [{"src", "dst"} -> Endpoints]
  /\ daw \in [spec : ArtifactSpecs, srcEndpoint : {endpoints["src"]}, dstEndpoint : {endpoints["dst"]}]
  /\ stack = <<>>
  /\ flattened = Empty
  /\ aw = [parameters |-> <<>>, srcSecretRef |-> NoRef, dstSecretRef |-> NoRef]
  /\ wf = [parameters |-> <<>>, srcVolume |-> NoRef, dstVolume |-> NoRef]
  /\ pc = "unmarshal"

-----------------------------------------------------------------------------
(* The Order controller. *)

\* Faulty variant: no "{}" in place of an empty spec.
UnmarshalEmpty ==
  /\ pc = "unmarshal"
  /\ IF daw.spec \in {Malformed, Empty}
     THEN /\ pc' = "error"
          /\ UNCHANGED stack
     ELSE /\ pc' = "flatten"
          /\ stack' = <<Call(<<"spec">>, <<>>)>>
  /\ UNCHANGED <<endpoints, daw, flattened, aw, wf>>

\* json.Unmarshal, with "{}" in place of an empty spec; a spec that is no object ends in an error.
Unmarshal ==
  /\ pc = "unmarshal"
  /\ IF daw.spec = Malformed
     THEN /\ pc' = "error"
          /\ UNCHANGED stack
     ELSE /\ pc' = "flatten"
          /\ stack' = <<Call(<<"spec">>, <<>>)>>
  /\ UNCHANGED <<endpoints, daw, flattened, aw, wf>>

\* A new entry of a map replaces the one with the same key.
Assign(map, entries) ==
  [name \in DOMAIN map \union DOMAIN entries |->
     IF name \in DOMAIN entries THEN entries[name] ELSE map[name]]

\* Faulty variant: the elements of a list share one name.
EntriesUnnumbered(prefix, key, leaf) ==
  [name \in {prefix \o Capitalized(key)} |-> leaf.items[1]]

\* What flattenMap writes for a leaf: a list has an entry per element.
Entries(prefix, key, leaf) ==
  LET name == prefix \o Capitalized(key) IN
  IF leaf.list
  THEN [n \in {name \o <<ToString(i - 1)>> : i \in DOMAIN leaf.items} |->
          leaf.items[CHOOSE i \in DOMAIN leaf.items : n = name \o <<ToString(i - 1)>>]]
  ELSE [n \in {name} |-> leaf.items[1]]

\* The keys that are left of the innermost map; the loop takes any of them.
Todo == IF stack = <<>> THEN {} ELSE Head(stack).todo

Take(key) == pc = "flatten" /\ key \in Todo

Rest(key) == <<[Head(stack) EXCEPT !.todo = @ \ {key}]>> \o Tail(stack)

\* k[:1] of an empty key.
Panic ==
  /\ Take(<<>>)
  /\ pc' = "panic"
  /\ UNCHANGED <<endpoints, daw, stack, flattened, aw, wf>>

FlattenLeaf(key) ==
  LET path == Append(Head(stack).path, key) IN
  /\ Take(key) /\ key # <<>>
  /\ ~IsMap(path)
  /\ flattened' = Assign(flattened, Entries(Head(stack).prefix, key, daw.spec[path]))
  /\ stack' = Rest(key)
  /\ UNCHANGED <<endpoints, daw, aw, wf, pc>>

\* A map within the map: its key is added to the prefix as it is.
FlattenChild(key) ==
  LET path == Append(Head(stack).path, key) IN
  /\ Take(key) /\ key # <<>>
  /\ IsMap(path)
  /\ stack' = <<Call(Head(stack).prefix \o key, path)>> \o Rest(key)
  /\ UNCHANGED <<endpoints, daw, flattened, aw, wf, pc>>

\* The end of the loop.
Return ==
  /\ pc = "flatten" /\ stack # <<>>
  /\ Head(stack).todo = {}
  /\ stack' = Tail(stack)
  /\ UNCHANGED <<endpoints, daw, flattened, aw, wf, pc>>

Parameter(name, value) == [name |-> name, value |-> value]

\* fmt.Sprintf("%v") of whether there is a secret.
Flag(secretRef) == IF secretRef # NoRef THEN "true" ELSE "false"

\* The parameters made from the Endpoints.
EndpointParameters(src, dst) ==
  <<Parameter(<<"srcType">>, src.type), Parameter(<<"srcRemoteURL">>, src.remoteURL),
    Parameter(<<"dstType">>, dst.type), Parameter(<<"dstRemoteURL">>, dst.remoteURL),
    Parameter(<<"srcSecret">>, Flag(src.secretRef)),
    Parameter(<<"dstSecret">>, Flag(dst.secretRef))>>

\* The rest of dawToParameters, with the flattened parameters in any order,
\* and hydrateArtifactWorkflow.
HydrateArtifactWorkflow ==
  /\ pc = "flatten" /\ stack = <<>>
  /\ \E names \in SetToSeqs(DOMAIN flattened) :
       aw' = [parameters |-> EndpointParameters(daw.srcEndpoint, daw.dstEndpoint)
                \o [i \in DOMAIN names |-> Parameter(names[i], Sprintf(flattened[names[i]]))],
              srcSecretRef |-> daw.srcEndpoint.secretRef,
              dstSecretRef |-> daw.dstEndpoint.secretRef]
  /\ pc' = "create"
  /\ UNCHANGED <<endpoints, daw, stack, flattened, wf>>

-----------------------------------------------------------------------------
(* The ArtifactWorkflow controller, and users. *)

\* Faulty variant: the parameters of the ArtifactType come first.
HydrateTypeFirst ==
  /\ pc = "create"
  /\ wf' = [parameters |-> TypeParameters \o aw.parameters,
            srcVolume |-> aw.srcSecretRef, dstVolume |-> aw.dstSecretRef]
  /\ pc' = "done"
  /\ UNCHANGED <<endpoints, daw, stack, flattened, aw>>

\* Faulty variant: the secrets are those of the Endpoints now.
HydrateFromEndpoints ==
  /\ pc = "create"
  /\ wf' = [parameters |-> aw.parameters \o TypeParameters,
            srcVolume |-> endpoints["src"].secretRef, dstVolume |-> endpoints["dst"].secretRef]
  /\ pc' = "done"
  /\ UNCHANGED <<endpoints, daw, stack, flattened, aw>>

\* A volume is the secret of its name, or an emptyDir (NoRef).
HydrateArgoWorkflow ==
  /\ pc = "create"
  /\ wf' = [parameters |-> aw.parameters \o TypeParameters,
            srcVolume |-> aw.srcSecretRef, dstVolume |-> aw.dstSecretRef]
  /\ pc' = "done"
  /\ UNCHANGED <<endpoints, daw, stack, flattened, aw>>

\* A user changes an Endpoint while the ArtifactWorkflow waits.
ChangeEndpoint ==
  /\ pc = "create"
  /\ \E side \in {"src", "dst"}, new \in Endpoints :
       endpoints' = [endpoints EXCEPT ![side] = new]
  /\ UNCHANGED <<daw, stack, flattened, aw, wf, pc>>

Step ==
  \/ Unmarshal \/ Panic \/ Return
  \/ \E key \in Todo : FlattenLeaf(key) \/ FlattenChild(key)
  \/ HydrateArtifactWorkflow \/ HydrateArgoWorkflow

Next == Step \/ ChangeEndpoint

Spec == Init /\ [][Next]_vars /\ WF_vars(Step)

-----------------------------------------------------------------------------
(* Properties *)

\* The leaves of the spec: a scalar, or an element of a list.
Leaves == UNION {{path} \X DOMAIN daw.spec[path].items : path \in DOMAIN daw.spec}

LeafValue(leaf) == Sprintf(daw.spec[leaf[1]].items[leaf[2]])

Number(leaf) == IF daw.spec[leaf[1]].list THEN <<ToString(leaf[2] - 1)>> ELSE <<>>

\* A name for a leaf: the keys on the way to it, those at the positions caps and
\* the last one capitalized.
LeafName(leaf, caps) ==
  LET inner == Front(leaf[1]) IN
  <<"spec">>
    \o FlattenSeq([i \in DOMAIN inner |-> IF i \in caps THEN Capitalized(inner[i]) ELSE inner[i]])
    \o Capitalized(Last(leaf[1])) \o Number(leaf)

\* The names a leaf may have, whichever of the inner keys are capitalized.
LeafNames(leaf) == {LeafName(leaf, caps) : caps \in SUBSET DOMAIN Front(leaf[1])}

Named(params, name) == {i \in DOMAIN params : params[i].name = name}

\* What the parameters of the list say of a name: its last entry.
LastValue(params, name) ==
  params[CHOOSE i \in Named(params, name) : \A j \in Named(params, name) : j <= i].value

EndpointNames == {p.name : p \in Range(EndpointParameters(daw.srcEndpoint, daw.dstEndpoint))}

\* The parameters of a list are those of the Endpoints and the leaves of the spec.
\* Every leaf has one, no name is there twice, and the value is that of a leaf of
\* the name: of the only one, unless two paths spell the same name.
LeavesListed(params) ==
  /\ EndpointNames \subseteq {p.name : p \in Range(params)}
  /\ \A leaf \in Leaves : \E p \in Range(params) : p.name \in LeafNames(leaf)
  /\ \A i, j \in DOMAIN params : params[i].name = params[j].name => i = j
  /\ \A p \in Range(params) :
       p.name \notin EndpointNames =>
         \E leaf \in Leaves : p.name \in LeafNames(leaf) /\ LeafValue(leaf) = p.value

\* In whatever order dawToParameters walks its maps, the parameters of the
\* ArtifactWorkflow are those of the Endpoints and the leaves of the spec.
\* Which of the inner keys of a name are capitalized is left open: the code
\* capitalizes none, docs/operator-manual/workflow-config.md speaks of camelCase.
ParametersAreLeaves == pc = "create" => LeavesListed(aw.parameters)

\* "These parameters will override parameters coming from ArtifactWorkflows"
\* (ArtifactTypeSpec.Parameters): in the list hydrateArgoWorkflow makes, the
\* last entry of such a name is the ArtifactType's, whatever the spec holds.
TypeOverrides ==
  pc = "done" =>
    \A p \in Range(TypeParameters) : LastValue(wf.parameters, p.name) = p.value

\* The flag srcSecret or dstSecret, written by the Order controller, agrees with
\* the volume the ArtifactWorkflow controller mounts later, although the
\* Endpoint may have changed in between.
SecretFlagMatchesVolume ==
  pc = "done" =>
    /\ LastValue(wf.parameters, <<"srcSecret">>) = Flag(wf.srcVolume)
    /\ LastValue(wf.parameters, <<"dstSecret">>) = Flag(wf.dstVolume)

\* The recursion of flattenMap ends, and the Workflow is made unless the spec is
\* no object or has an empty key.
WalkEnds ==
  <>(\/ pc = "done"
     \/ pc = "error" /\ daw.spec = Malformed
     \/ pc = "panic" /\ \E p \in DOMAIN daw.spec : <<>> \in Range(p))
=============================================================================
