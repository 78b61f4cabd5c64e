---------------------- MODULE WorkflowParametersProofs ----------------------
(***************************************************************************)
(* What the parameters of a Workflow say, for every spec of an artifact,   *)
(* all Endpoints and every ArtifactType: they are the leaves of the spec,  *)
(* the ArtifactType has the last word, and the flags of the secrets agree  *)
(* with the volumes.                                                       *)
(*                                                                         *)
(* ParametersInv follows the names flattenMap makes: each starts with      *)
(* "spec", so none of them is one of the flags, and in the list of the     *)
(* ArtifactWorkflow a flag stands where dawToParameters put it, alone.     *)
(* LeavesInv follows the leaves: each is written, or a call under way will *)
(* come to it, and what is written comes from a leaf.  What a name is made *)
(* of needs an induction over paths; it is one over the least path for     *)
(* which the claim fails (LeastNatural).                                   *)
(***************************************************************************)
EXTENDS WorkflowParameters, FiniteSetTheorems, WellFoundedInduction, TLAPS

\* The letters and words names are made of.  The provers do not know the strings
\* below to be in STRING.
Words == STRING \union Range(Upper) \union {"spec"}

\* The prefixes flattenMap is called with: "spec", and keys after it.
SpecPrefixes == {s \in Seq(Words) : s # <<>> /\ s[1] = "spec"}

Frames == [prefix : SpecPrefixes, path : Seq(Seq(Words)), todo : SUBSET Seq(Words)]

\* The calls under way, and the names written so far.
WalkInv ==
  /\ daw.spec \in ArtifactSpecs
  /\ pc = "flatten" => daw.spec # Malformed
  /\ stack \in Seq(Frames)
  /\ IsFiniteSet(DOMAIN flattened)
  /\ \A name \in DOMAIN flattened : name[1] = "spec"

\* The flag at position i of the parameters tells of a secretRef, and no other
\* parameter has its name.
FlagAt(params, i, name, secretRef) ==
  /\ params[i] = Parameter(name, Flag(secretRef))
  /\ \A j \in DOMAIN params : params[j].name = name => j = i

\* The parameters of an ArtifactWorkflow that is made.
ListInv ==
  pc \in {"create", "done"} =>
    /\ aw.parameters \in Seq(Range(aw.parameters))
    /\ Len(aw.parameters) >= 6
    /\ FlagAt(aw.parameters, 5, <<"srcSecret">>, aw.srcSecretRef)
    /\ FlagAt(aw.parameters, 6, <<"dstSecret">>, aw.dstSecretRef)

\* A Workflow that is made.
MadeInv ==
  pc = "done" =>
    wf = [parameters |-> aw.parameters \o TypeParameters,
          srcVolume |-> aw.srcSecretRef, dstVolume |-> aw.dstSecretRef]

ParametersInv == WalkInv /\ ListInv /\ MadeInv

\* A call will come to the leaf at a path: a key on the way to it is left.
Pending(frame, path) ==
  /\ IsStrictPrefix(frame.path, path)
  /\ path[Len(frame.path) + 1] \in frame.todo

\* The name flattenMap gives a leaf: the inner keys as they are.
FlatName(leaf) ==
  <<"spec">> \o FlattenSeq(Front(leaf[1])) \o Capitalized(Last(leaf[1])) \o Number(leaf)

\* flattenMap has been at the leaf.
Written(path) ==
  \A i \in DOMAIN daw.spec[path].items : FlatName(<<path, i>>) \in DOMAIN flattened

\* The calls under way have spelled their paths.
PrefixInv ==
  pc = "flatten" =>
    \A frame \in Range(stack) : frame.prefix = <<"spec">> \o FlattenSeq(frame.path)

\* No leaf is forgotten.
PendingInv ==
  pc = "flatten" =>
    \A path \in DOMAIN daw.spec :
      (\E frame \in Range(stack) : Pending(frame, path)) \/ Written(path)

\* What was written comes from a leaf.
SourceInv ==
  \A name \in DOMAIN flattened : \E leaf \in Leaves :
    /\ Last(leaf[1]) # <<>> /\ FlatName(leaf) = name
    /\ daw.spec[leaf[1]].items[leaf[2]] = flattened[name]

LeavesInv == PrefixInv /\ PendingInv /\ SourceInv /\ ParametersAreLeaves

-----------------------------------------------------------------------------
(* Sequences *)

\* A name keeps its first word when more is added to it.
LEMMA FirstStays ==
  ASSUME NEW S, NEW s \in Seq(S), s # <<>>, NEW t \in Seq(S)
  PROVE  /\ s \o t \in Seq(S)
         /\ s \o t # <<>>
         /\ (s \o t)[1] = s[1]
  OBVIOUS

\* The same for a number, whatever word it is.
LEMMA NumberedFirst ==
  ASSUME NEW s \in Seq(Words), s # <<>>, NEW x
  PROVE  (s \o <<x>>)[1] = s[1]
<1> DEFINE T == Words \union {x}
<1>1. s \in Seq(T) /\ <<x>> \in Seq(T)
  OBVIOUS
<1> QED
  BY <1>1, FirstStays

\* A key that starts a strict continuation of a path is a key of the spec.
LEMMA NextKey ==
  ASSUME NEW s \in Seq(Seq(Words)), NEW t \in Seq(Seq(Words)), IsStrictPrefix(s, t)
  PROVE  t[Len(s) + 1] \in Seq(Words)
<1>1. Len(s) # Len(t)
  <2> SUFFICES ASSUME Len(s) = Len(t) PROVE s = t
    BY DEF IsStrictPrefix
  <2>1. SubSeq(s, 1, Len(s)) = s /\ SubSeq(t, 1, Len(t)) = t
    OBVIOUS
  <2> QED
    BY <2>1 DEF IsStrictPrefix, IsPrefix
<1>2. Len(s) + 1 \in 1..Len(t)
  BY <1>1 DEF IsStrictPrefix, IsPrefix
<1> QED
  BY <1>2

\* The keys at a path of a spec that is an object.
LEMMA KeysAreStrings ==
  ASSUME daw.spec \in ArtifactSpecs \ {Malformed}, NEW path \in Seq(Seq(Words))
  PROVE  KeysAt(path) \in SUBSET Seq(Words)
<1>1. DOMAIN daw.spec \subseteq Seq(Seq(Words))
  <2>1. Seq(STRING) \subseteq Seq(Words)
    BY DEF Words
  <2>2. Seq(Seq(STRING)) \subseteq Seq(Seq(Words))
    BY <2>1
  <2> QED
    BY <2>2, ParametersAssumption
<1> QED
  BY <1>1, NextKey DEF KeysAt

\* Capitalizing a key makes a string.
LEMMA CapitalizedType ==
  ASSUME NEW key \in Seq(Words), key # <<>>
  PROVE  Capitalized(key) \in Seq(Words)
<1>1. Head(key) \in Words /\ Tail(key) \in Seq(Words)
  OBVIOUS
<1>2. ToUpper(Head(key)) \in Range(Upper) \union {Head(key)}
  BY DEF ToUpper, Range
<1>3. ToUpper(Head(key)) \in Words
  BY <1>1, <1>2 DEF Words
<1> QED
  BY <1>1, <1>3 DEF Capitalized

\* The entries of a leaf: finitely many, and each name starts with "spec".
LEMMA EntriesOfLeaf ==
  ASSUME NEW prefix \in SpecPrefixes, NEW key \in Seq(Words), key # <<>>,
         NEW leaf, IsFiniteSet(DOMAIN leaf.items)
  PROVE  /\ IsFiniteSet(DOMAIN Entries(prefix, key, leaf))
         /\ \A name \in DOMAIN Entries(prefix, key, leaf) : name[1] = "spec"
<1> DEFINE name == prefix \o Capitalized(key)
           numbered == [i \in DOMAIN leaf.items |-> name \o <<ToString(i - 1)>>]
<1>1. name \in Seq(Words) /\ name # <<>> /\ name[1] = "spec"
  BY CapitalizedType, FirstStays DEF SpecPrefixes
<1>2. CASE leaf.list
  <2>1. DOMAIN Entries(prefix, key, leaf) = {numbered[i] : i \in DOMAIN leaf.items}
    BY <1>2 DEF Entries
  <2>2. numbered \in Surjection(DOMAIN leaf.items, {numbered[i] : i \in DOMAIN leaf.items})
    BY DEF Surjection
  <2>3. IsFiniteSet({numbered[i] : i \in DOMAIN leaf.items})
    BY <2>2, FS_Surjection
  <2>4. \A i \in DOMAIN leaf.items : numbered[i][1] = "spec"
    BY <1>1, NumberedFirst
  <2> QED
    BY <2>1, <2>3, <2>4
<1>3. CASE ~leaf.list
  <2>1. DOMAIN Entries(prefix, key, leaf) = {name}
    BY <1>3 DEF Entries
  <2>2. IsFiniteSet({name})
    BY FS_Singleton
  <2> QED
    BY <1>1, <2>1, <2>2
<1> QED
  BY <1>2, <1>3

-----------------------------------------------------------------------------
(* The walk of flattenMap *)

\* A call that starts is a frame.
LEMMA CallType ==
  ASSUME daw.spec \in ArtifactSpecs \ {Malformed},
         NEW prefix \in SpecPrefixes, NEW path \in Seq(Seq(Words))
  PROVE  Call(prefix, path) \in Frames
  BY KeysAreStrings DEF Call, Frames

\* The innermost call, one key further.
LEMMA RestType ==
  ASSUME stack \in Seq(Frames), stack # <<>>, NEW key
  PROVE  /\ Head(stack) \in Frames
         /\ Rest(key) \in Seq(Frames)
<1>1. Head(stack) \in Frames /\ Tail(stack) \in Seq(Frames)
  OBVIOUS
<1>2. [Head(stack) EXCEPT !.todo = @ \ {key}] \in Frames
  BY <1>1 DEF Frames
<1> QED
  BY <1>1, <1>2 DEF Rest

\* A key the loop takes belongs to the innermost call.
LEMMA TakenKey ==
  ASSUME stack \in Seq(Frames), NEW key, Take(key)
  PROVE  stack # <<>> /\ Head(stack) \in Frames /\ key \in Seq(Words)
<1>1. stack # <<>> /\ key \in Head(stack).todo
  BY DEF Take, Todo
<1>2. Head(stack) \in Frames
  BY <1>1
<1> QED
  BY <1>1, <1>2 DEF Frames

\* The walk keeps its frames and its names.
LEMMA WalkInductive == WalkInv /\ [Next]_vars => WalkInv'
<1> SUFFICES ASSUME WalkInv, [Next]_vars PROVE WalkInv'
  OBVIOUS
<1>0. CASE UNCHANGED vars
  BY <1>0 DEF WalkInv, vars
<1>1. CASE Unmarshal
  <2>1. CASE daw.spec = Malformed
    BY <1>1, <2>1 DEF Unmarshal, WalkInv
  <2>2. CASE daw.spec # Malformed
    <3>1. <<"spec">> \in SpecPrefixes /\ <<>> \in Seq(Seq(Words))
      <4>1. "spec" \in Words
        BY DEF Words
      <4> QED
        BY <4>1 DEF SpecPrefixes
    <3>2. Call(<<"spec">>, <<>>) \in Frames
      BY <2>2, <3>1, CallType DEF WalkInv
    <3>3. stack' \in Seq(Frames)
      <4>1. stack' = <<Call(<<"spec">>, <<>>)>>
        BY <1>1, <2>2 DEF Unmarshal
      <4>2. \A x \in Frames : <<x>> \in Seq(Frames)
        OBVIOUS
      <4> QED
        BY <3>2, <4>1, <4>2
    <3>4. UNCHANGED <<daw, flattened>>
      BY <1>1 DEF Unmarshal
    <3> QED
      BY <2>2, <3>3, <3>4 DEF WalkInv
  <2> QED
    BY <2>1, <2>2
<1>2. CASE Panic
  BY <1>2 DEF Panic, WalkInv
<1>3. CASE Return
  <2>1. stack' \in Seq(Frames)
    BY <1>3 DEF Return, WalkInv
  <2> QED
    BY <1>3, <2>1 DEF Return, WalkInv
<1>4. ASSUME NEW key \in Todo, FlattenLeaf(key) PROVE WalkInv'
  <2> DEFINE path == Append(Head(stack).path, key)
             entries == Entries(Head(stack).prefix, key, daw.spec[path])
  <2>1. stack # <<>> /\ Head(stack) \in Frames /\ key \in Seq(Words) /\ key # <<>>
    BY <1>4, TakenKey DEF FlattenLeaf, WalkInv
  <2>2. stack' \in Seq(Frames)
    BY <1>4, <2>1, RestType DEF FlattenLeaf, WalkInv
  <2>3. daw.spec \in ArtifactSpecs \ {Malformed} /\ path \in DOMAIN daw.spec
    BY <1>4 DEF FlattenLeaf, IsMap, Take, WalkInv
  <2>4. IsFiniteSet(DOMAIN daw.spec[path].items)
    BY <2>3, ParametersAssumption
  <2>5. Head(stack).prefix \in SpecPrefixes
    BY <2>1 DEF Frames
  <2>6. /\ IsFiniteSet(DOMAIN entries)
        /\ \A name \in DOMAIN entries : name[1] = "spec"
    BY <2>1, <2>4, <2>5, EntriesOfLeaf
  <2>7. DOMAIN flattened' = DOMAIN flattened \union DOMAIN entries
    BY <1>4 DEF FlattenLeaf, Assign
  <2>8. IsFiniteSet(DOMAIN flattened')
    BY <2>6, <2>7, FS_Union DEF WalkInv
  <2>9. \A name \in DOMAIN flattened' : name[1] = "spec"
    BY <2>6, <2>7 DEF WalkInv
  <2> QED
    BY <1>4, <2>2, <2>3, <2>8, <2>9 DEF FlattenLeaf, WalkInv
<1>5. ASSUME NEW key \in Todo, FlattenChild(key) PROVE WalkInv'
  <2> DEFINE path == Append(Head(stack).path, key)
  <2>1. stack # <<>> /\ Head(stack) \in Frames /\ key \in Seq(Words) /\ key # <<>>
    BY <1>5, TakenKey DEF FlattenChild, WalkInv
  <2>2. Head(stack).prefix \in SpecPrefixes /\ Head(stack).path \in Seq(Seq(Words))
    BY <2>1 DEF Frames
  <2>3. Head(stack).prefix \o key \in SpecPrefixes
    BY <2>1, <2>2, FirstStays DEF SpecPrefixes
  <2>4. path \in Seq(Seq(Words))
    BY <2>1, <2>2
  <2>5. daw.spec \in ArtifactSpecs \ {Malformed}
    BY <1>5 DEF FlattenChild, Take, WalkInv
  <2>6. Call(Head(stack).prefix \o key, path) \in Frames
    BY <2>3, <2>4, <2>5, CallType
  <2>7. Rest(key) \in Seq(Frames)
    BY <2>1, RestType DEF WalkInv
  <2>8. stack' \in Seq(Frames)
    BY <1>5, <2>6, <2>7 DEF FlattenChild
  <2> QED
    BY <1>5, <2>8 DEF FlattenChild, WalkInv
<1>6. CASE HydrateArtifactWorkflow
  BY <1>6 DEF HydrateArtifactWorkflow, WalkInv
<1>7. CASE HydrateArgoWorkflow
  BY <1>7 DEF HydrateArgoWorkflow, WalkInv
<1>8. CASE ChangeEndpoint
  BY <1>8 DEF ChangeEndpoint, WalkInv
<1> QED
  BY <1>0, <1>1, <1>2, <1>3, <1>4, <1>5, <1>6, <1>7, <1>8 DEF Next, Step

-----------------------------------------------------------------------------
(* The lists of parameters *)

\* A sequence is a sequence of its own elements.
LEMMA OwnRange ==
  ASSUME NEW S, NEW u \in Seq(S)
  PROVE  u \in Seq(Range(u))
<1>1. u \in [1..Len(u) -> Range(u)] /\ Len(u) \in Nat
  BY DEF Range
<1> QED
  BY <1>1

\* A list is a sequence of its own elements, and so are two of them, one after the other.
LEMMA Joined ==
  ASSUME NEW s, s \in Seq(Range(s)), NEW t, t \in Seq(Range(t))
  PROVE  /\ s \o t \in Seq(Range(s \o t))
         /\ Len(s \o t) = Len(s) + Len(t)
         /\ DOMAIN (s \o t) = 1..(Len(s) + Len(t))
         /\ \A i \in 1..Len(s) : (s \o t)[i] = s[i]
         /\ \A i \in Len(s) + 1..Len(s) + Len(t) : (s \o t)[i] = t[i - Len(s)]
<1> DEFINE S == Range(s) \union Range(t)
<1>1. s \in Seq(S) /\ t \in Seq(S)
  OBVIOUS
<1>2. /\ s \o t \in Seq(S)
      /\ Len(s \o t) = Len(s) + Len(t)
      /\ DOMAIN (s \o t) = 1..(Len(s) + Len(t))
      /\ \A i \in 1..Len(s) : (s \o t)[i] = s[i]
      /\ \A i \in Len(s) + 1..Len(s) + Len(t) : (s \o t)[i] = t[i - Len(s)]
  BY <1>1
<1>3. s \o t \in Seq(Range(s \o t))
  BY <1>2, OwnRange
<1> QED
  BY <1>2, <1>3

\* A flag stays alone, and in its place, when parameters of other names follow.
LEMMA FlagStays ==
  ASSUME NEW s, s \in Seq(Range(s)), NEW t, t \in Seq(Range(t)),
         NEW k \in 1..Len(s), NEW name, NEW secretRef,
         FlagAt(s, k, name, secretRef),
         \A i \in 1..Len(t) : t[i].name # name
  PROVE  FlagAt(s \o t, k, name, secretRef)
<1> DEFINE u == s \o t
<1>1. Len(s) \in Nat /\ Len(t) \in Nat /\ DOMAIN s = 1..Len(s)
  OBVIOUS
<1>2. /\ DOMAIN u = 1..(Len(s) + Len(t))
      /\ \A i \in 1..Len(s) : u[i] = s[i]
      /\ \A i \in Len(s) + 1..Len(s) + Len(t) : u[i] = t[i - Len(s)]
  BY Joined
<1> HIDE DEF u
<1>3. \A i \in Len(s) + 1..Len(s) + Len(t) : i - Len(s) \in 1..Len(t)
  BY <1>1
<1>4. \A i \in Len(s) + 1..Len(s) + Len(t) : u[i].name # name
  BY <1>2, <1>3
<1>5. \A i \in 1..(Len(s) + Len(t)) : i \in 1..Len(s) \/ i \in Len(s) + 1..Len(s) + Len(t)
  BY <1>1
<1>6. FlagAt(u, k, name, secretRef)
  BY <1>1, <1>2, <1>4, <1>5 DEF FlagAt
<1> QED
  BY <1>6 DEF u

\* The flags among the parameters of the Endpoints.
LEMMA FlagsOfEndpoints ==
  ASSUME NEW src, NEW dst
  PROVE  LET fixed == EndpointParameters(src, dst) IN
         /\ fixed \in Seq(Range(fixed))
         /\ Len(fixed) = 6
         /\ FlagAt(fixed, 5, <<"srcSecret">>, src.secretRef)
         /\ FlagAt(fixed, 6, <<"dstSecret">>, dst.secretRef)
<1> DEFINE fixed == EndpointParameters(src, dst)
           S == {fixed[1], fixed[2], fixed[3], fixed[4], fixed[5], fixed[6]}
<1>1. fixed \in Seq(S) /\ Len(fixed) = 6
  BY DEF EndpointParameters
<1>2. fixed \in Seq(Range(fixed))
  BY <1>1, OwnRange
<1>3. FlagAt(fixed, 5, <<"srcSecret">>, src.secretRef)
  BY DEF EndpointParameters, Parameter, FlagAt
<1>4. FlagAt(fixed, 6, <<"dstSecret">>, dst.secretRef)
  BY DEF EndpointParameters, Parameter, FlagAt
<1> QED
  BY <1>1, <1>2, <1>3, <1>4

\* The parameters made from the spec, in an order of their names.
SpecParameters(names) ==
  [i \in DOMAIN names |-> Parameter(names[i], Sprintf(flattened[names[i]]))]

\* They are no flags, since their names start with "spec".
LEMMA NoFlagInSpec ==
  ASSUME NEW n \in Nat, NEW names, DOMAIN names = 1..n,
         \A i \in 1..n : names[i][1] = "spec"
  PROVE  LET spec == SpecParameters(names) IN
         /\ spec \in Seq(Range(spec))
         /\ Len(spec) = n
         /\ \A i \in 1..n : spec[i].name # <<"srcSecret">> /\ spec[i].name # <<"dstSecret">>
<1> DEFINE spec == SpecParameters(names)
<1>1. DOMAIN spec = 1..n /\ \A i \in 1..n : spec[i].name = names[i]
  BY DEF SpecParameters, Parameter
<1>2. spec \in [1..n -> Range(spec)]
  <2>1. spec = [i \in 1..n |-> spec[i]]
    BY DEF SpecParameters
  <2> QED
    BY <1>1, <2>1 DEF Range
<1>3. <<"srcSecret">>[1] # "spec" /\ <<"dstSecret">>[1] # "spec"
  OBVIOUS
<1>4. \A i \in 1..n : spec[i].name # <<"srcSecret">> /\ spec[i].name # <<"dstSecret">>
  BY <1>1, <1>3
<1> HIDE DEF spec
<1>5. spec \in Seq(Range(spec)) /\ Len(spec) = n
  BY <1>2
<1> QED
  BY <1>4, <1>5 DEF spec

\* The parameters of the ArtifactWorkflow, and the Workflow made from them.
LEMMA ListsInductive == WalkInv /\ ListInv /\ MadeInv /\ [Next]_vars => ListInv' /\ MadeInv'
<1> SUFFICES ASSUME WalkInv, ListInv, MadeInv, [Next]_vars PROVE ListInv' /\ MadeInv'
  OBVIOUS
<1>0. CASE UNCHANGED vars
  BY <1>0 DEF ListInv, MadeInv, vars
<1>1. CASE Unmarshal
  <2>1. pc' \in {"error", "flatten"}
    BY <1>1 DEF Unmarshal
  <2> QED
    BY <2>1 DEF ListInv, MadeInv
<1>2. CASE Panic
  BY <1>2 DEF Panic, ListInv, MadeInv
<1>3. CASE Return
  BY <1>3 DEF Return, ListInv, MadeInv
<1>4. ASSUME NEW key \in Todo, FlattenLeaf(key) \/ FlattenChild(key) PROVE ListInv' /\ MadeInv'
  <2>1. pc' = "flatten"
    BY <1>4 DEF FlattenLeaf, FlattenChild, Take
  <2> QED
    BY <2>1 DEF ListInv, MadeInv
<1>5. CASE HydrateArtifactWorkflow
  <2>1. PICK names \in SetToSeqs(DOMAIN flattened) :
          aw' = [parameters |-> EndpointParameters(daw.srcEndpoint, daw.dstEndpoint)
                   \o SpecParameters(names),
                 srcSecretRef |-> daw.srcEndpoint.secretRef,
                 dstSecretRef |-> daw.dstEndpoint.secretRef]
    BY <1>5 DEF HydrateArtifactWorkflow, SpecParameters
  <2> DEFINE n == Cardinality(DOMAIN flattened)
  <2>2. n \in Nat
    BY FS_CardinalityType DEF WalkInv
  <2>3. names \in [1..n -> DOMAIN flattened]
    BY DEF SetToSeqs
  <2>4. DOMAIN names = 1..n /\ \A i \in 1..n : names[i][1] = "spec"
    BY <2>3 DEF WalkInv
  <2> DEFINE fixed == EndpointParameters(daw.srcEndpoint, daw.dstEndpoint)
             spec == SpecParameters(names)
  <2>5. /\ aw'.parameters = fixed \o spec
        /\ aw'.srcSecretRef = daw.srcEndpoint.secretRef
        /\ aw'.dstSecretRef = daw.dstEndpoint.secretRef
    BY <2>1
  <2>6. /\ aw'.parameters \in Seq(Range(aw'.parameters))
        /\ Len(aw'.parameters) >= 6
        /\ FlagAt(aw'.parameters, 5, <<"srcSecret">>, aw'.srcSecretRef)
        /\ FlagAt(aw'.parameters, 6, <<"dstSecret">>, aw'.dstSecretRef)
    <3> HIDE DEF n
    <3>1. /\ fixed \in Seq(Range(fixed)) /\ Len(fixed) = 6
          /\ FlagAt(fixed, 5, <<"srcSecret">>, daw.srcEndpoint.secretRef)
          /\ FlagAt(fixed, 6, <<"dstSecret">>, daw.dstEndpoint.secretRef)
      BY FlagsOfEndpoints
    <3>2. /\ spec \in Seq(Range(spec)) /\ Len(spec) = n
          /\ \A i \in 1..n : spec[i].name # <<"srcSecret">> /\ spec[i].name # <<"dstSecret">>
      BY <2>2, <2>4, NoFlagInSpec
    <3> HIDE DEF fixed, spec
    <3>3. fixed \in Seq(Range(fixed)) /\ spec \in Seq(Range(spec))
      BY <3>1, <3>2
    <3>4. /\ fixed \o spec \in Seq(Range(fixed \o spec))
          /\ Len(fixed \o spec) = Len(fixed) + Len(spec)
      BY <3>3, Joined, Zenon
    <3>5. 5 \in 1..Len(fixed) /\ 6 \in 1..Len(fixed)
      BY <3>1
    <3>6. FlagAt(fixed \o spec, 5, <<"srcSecret">>, daw.srcEndpoint.secretRef)
      <4>1. \A i \in 1..Len(spec) : spec[i].name # <<"srcSecret">>
        BY <3>2
      <4>2. FlagAt(fixed, 5, <<"srcSecret">>, daw.srcEndpoint.secretRef)
        BY <3>1
      <4> QED
        BY <3>3, <3>5, <4>1, <4>2, FlagStays, Zenon
    <3>7. FlagAt(fixed \o spec, 6, <<"dstSecret">>, daw.dstEndpoint.secretRef)
      <4>1. \A i \in 1..Len(spec) : spec[i].name # <<"dstSecret">>
        BY <3>2
      <4>2. FlagAt(fixed, 6, <<"dstSecret">>, daw.dstEndpoint.secretRef)
        BY <3>1
      <4> QED
        BY <3>3, <3>5, <4>1, <4>2, FlagStays, Zenon
    <3>8. Len(fixed \o spec) >= 6
      BY <2>2, <3>1, <3>2, <3>4
    <3> QED
      BY <2>5, <3>4, <3>6, <3>7, <3>8
  <2>7. pc' = "create"
    BY <1>5 DEF HydrateArtifactWorkflow
  <2>8. ListInv'
    BY <2>6 DEF ListInv
  <2> QED
    BY <2>7, <2>8 DEF MadeInv
<1>6. CASE HydrateArgoWorkflow
  BY <1>6 DEF HydrateArgoWorkflow, ListInv, MadeInv
<1>7. CASE ChangeEndpoint
  BY <1>7 DEF ChangeEndpoint, ListInv, MadeInv
<1> QED
  BY <1>0, <1>1, <1>2, <1>3, <1>4, <1>5, <1>6, <1>7 DEF Next, Step

-----------------------------------------------------------------------------
(* Induction, and what FlattenSeq makes *)

\* Induction: a set of naturals that is not empty has a least element.
LEMMA LeastNatural ==
  ASSUME NEW T \in SUBSET Nat, T # {}
  PROVE  \E x \in T : \A y \in T : x <= y
<1> DEFINE R == {ss \in Nat \X Nat : ss[1] < ss[2]}
<1>1. IsWellFoundedOn(R, Nat)
  BY NatLessThanWellFounded DEF OpToRel
<1>2. PICK x \in T : \A y \in T : ~ (<<y, x>> \in R)
  <2> HIDE DEF R
  <2> QED
    BY <1>1, WFMin
<1>3. ASSUME NEW y \in T PROVE x <= y
  <2>1. ~ (<<y, x>> \in R)
    BY <1>2
  <2>2. ~ (y < x)
    BY <2>1
  <2> QED
    BY <2>2
<1> QED
  BY <1>3

\* A function that puts the first i sequences of s together, as FlattenSeq does.
Unfolds(f, s, n) ==
  f = [i \in 1..n |-> IF i = 1 THEN s[i] ELSE f[i - 1] \o s[i]]

\* There is one such function at most: at the least place where two differ they do not.
LEMMA UnfoldsUnique ==
  ASSUME NEW s, NEW n \in Nat, NEW f, NEW g, Unfolds(f, s, n), Unfolds(g, s, n)
  PROVE  f = g
<1> DEFINE T == {i \in 1..n : f[i] # g[i]}
<1> SUFFICES ASSUME T # {} PROVE FALSE
  <2>1. f = [i \in 1..n |-> f[i]] /\ g = [i \in 1..n |-> g[i]]
    BY DEF Unfolds
  <2> QED
    BY <2>1
<1>1. T \in SUBSET Nat
  OBVIOUS
<1>2. PICK x \in T : \A y \in T : x <= y
  BY <1>1, LeastNatural
<1>3. CASE x = 1
  BY <1>3, <1>2 DEF Unfolds
<1>4. CASE x # 1
  <2>1. x \in 1..n /\ x - 1 \in 1..n /\ x - 1 \notin T
    BY <1>2, <1>4
  <2>2. f[x - 1] = g[x - 1]
    BY <2>1
  <2>3. f[x] = f[x - 1] \o s[x] /\ g[x] = g[x - 1] \o s[x]
    BY <2>1, <1>4 DEF Unfolds
  <2> QED
    BY <2>2, <2>3
<1> QED
  BY <1>3, <1>4

\* There is one: the least length without one would be one more than a length with one.
LEMMA UnfoldsExists ==
  ASSUME NEW s, NEW n \in Nat
  PROVE  \E f : Unfolds(f, s, n)
<1> DEFINE T == {m \in Nat : ~ \E f : Unfolds(f, s, m)}
<1> SUFFICES ASSUME T # {} PROVE FALSE
  OBVIOUS
<1>1. PICK x \in T : \A y \in T : x <= y
  <2>1. T \in SUBSET Nat
    OBVIOUS
  <2> QED
    BY <2>1, LeastNatural
<1>2. CASE x = 0
  <2>1. Unfolds([i \in 1..0 |-> s], s, 0)
    BY DEF Unfolds
  <2> QED
    BY <1>2, <2>1
<1>3. CASE x # 0
  <2>1. x \in Nat /\ x - 1 \in Nat /\ x - 1 \notin T
    BY <1>1, <1>3
  <2>2. PICK f : Unfolds(f, s, x - 1)
    BY <2>1
  <2> DEFINE g == [i \in 1..x |-> IF i # x THEN f[i] ELSE IF x = 1 THEN s[x] ELSE f[x - 1] \o s[x]]
  <2>4. ASSUME NEW i \in 1..x PROVE g[i] = IF i = 1 THEN s[i] ELSE g[i - 1] \o s[i]
    <3>1. CASE i = x
      BY <3>1, <1>3
    <3>2. CASE i # x
      <4>1. i \in 1..(x - 1) /\ (i # 1 => i - 1 \in 1..x /\ i - 1 # x)
        BY <3>2, <2>1
      <4>2. f[i] = IF i = 1 THEN s[i] ELSE f[i - 1] \o s[i]
        BY <4>1, <2>2 DEF Unfolds
      <4> QED
        BY <3>2, <4>1, <4>2
    <3> QED
      BY <3>1, <3>2
  <2>5. Unfolds(g, s, x)
    <3>1. g = [i \in 1..x |-> g[i]]
      OBVIOUS
    <3> HIDE DEF g
    <3>2. [i \in 1..x |-> g[i]] = [i \in 1..x |-> IF i = 1 THEN s[i] ELSE g[i - 1] \o s[i]]
      BY <2>4
    <3> QED
      BY <3>1, <3>2 DEF Unfolds
  <2> QED
    BY <2>5, <2>1
<1> QED
  BY <1>2, <1>3

\* FlattenSeq of a sequence is the last value of such a function.
LEMMA FlattenUnfolds ==
  ASSUME NEW s, Len(s) \in Nat, Len(s) # 0
  PROVE  \E f : Unfolds(f, s, Len(s)) /\ FlattenSeq(s) = f[Len(s)]
<1> DEFINE flatten == CHOOSE f : f = [i \in 1..Len(s) |-> IF i = 1 THEN s[i] ELSE f[i - 1] \o s[i]]
<1>1. \E f : f = [i \in 1..Len(s) |-> IF i = 1 THEN s[i] ELSE f[i - 1] \o s[i]]
  BY UnfoldsExists DEF Unfolds
<1>2. flatten = [i \in 1..Len(s) |-> IF i = 1 THEN s[i] ELSE flatten[i - 1] \o s[i]]
  BY <1>1
<1>3. FlattenSeq(s) = flatten[Len(s)]
  BY DEF FlattenSeq
<1> HIDE DEF flatten
<1>4. Unfolds(flatten, s, Len(s))
  BY <1>2 DEF Unfolds
<1> QED
  BY <1>3, <1>4

\* FlattenSeq of a sequence with one more element.
LEMMA FlattenAppend ==
  ASSUME NEW S, NEW s \in Seq(Seq(S)), NEW k \in Seq(S)
  PROVE  /\ FlattenSeq(<<>>) = <<>>
         /\ s # <<>> => FlattenSeq(Append(s, k)) = FlattenSeq(s) \o k
         /\ s = <<>> => FlattenSeq(Append(s, k)) = k
<1> DEFINE t == Append(s, k)
           n == Len(s)
<1>1. n \in Nat /\ Len(t) = n + 1 /\ t[n + 1] = k /\ \A i \in 1..n : t[i] = s[i]
  OBVIOUS
<1>2. PICK g : Unfolds(g, t, n + 1) /\ FlattenSeq(t) = g[n + 1]
  <2>1. Len(t) \in Nat /\ Len(t) # 0 /\ Len(t) = n + 1
    BY <1>1
  <2> HIDE DEF t, n
  <2>2. \E g : Unfolds(g, t, Len(t)) /\ FlattenSeq(t) = g[Len(t)]
    BY <2>1, FlattenUnfolds
  <2> QED
    BY <2>1, <2>2
<1>3. FlattenSeq(<<>>) = <<>>
  BY DEF FlattenSeq
<1>4. CASE s = <<>>
  <2>1. n = 0
    BY <1>4
  <2>2. g[1] = t[1]
    BY <1>2, <2>1 DEF Unfolds
  <2> QED
    BY <1>1, <1>2, <1>3, <1>4, <2>1, <2>2
<1>5. CASE s # <<>>
  <2>1. n # 0
    BY <1>5
  <2>2. PICK f : Unfolds(f, s, n) /\ FlattenSeq(s) = f[n]
    BY <1>1, <2>1, FlattenUnfolds
  <2> DEFINE h == [i \in 1..n |-> g[i]]
  <2>3. Unfolds(h, s, n)
    <3> SUFFICES ASSUME NEW i \in 1..n PROVE g[i] = IF i = 1 THEN s[i] ELSE h[i - 1] \o s[i]
      BY DEF Unfolds
    <3>1. i \in 1..(n + 1) /\ (i # 1 => i - 1 \in 1..n)
      BY <1>1
    <3>2. g[i] = IF i = 1 THEN t[i] ELSE g[i - 1] \o t[i]
      BY <1>2, <3>1 DEF Unfolds
    <3> QED
      BY <1>1, <3>1, <3>2
  <2>4. h[n] = f[n]
    <3> HIDE DEF h, n
    <3>1. n \in Nat /\ n \in 1..n
      BY <1>1, <2>1
    <3>2. Unfolds(f, s, n) /\ Unfolds(h, s, n)
      BY <2>2, <2>3
    <3>3. h = f
      BY <3>1, <3>2, UnfoldsUnique
    <3> QED
      BY <3>3
  <2>5. g[n] = FlattenSeq(s)
    BY <1>1, <2>1, <2>2, <2>4
  <2>6. g[n + 1] = g[n] \o t[n + 1]
    <3> HIDE DEF t, n
    <3>1. n + 1 \in 1..(n + 1) /\ n + 1 # 1 /\ (n + 1) - 1 = n
      BY <1>1, <2>1
    <3> QED
      BY <1>2, <3>1 DEF Unfolds
  <2> QED
    BY <1>1, <1>2, <1>3, <1>5, <2>5, <2>6
<1> QED
  BY <1>4, <1>5

\* FlattenSeq makes a sequence of what the sequences it puts together consist of.
LEMMA FlattenType ==
  ASSUME NEW S, NEW s \in Seq(Seq(S))
  PROVE  FlattenSeq(s) \in Seq(S)
<1> DEFINE n == Len(s)
<1>1. CASE n = 0
  BY <1>1 DEF FlattenSeq
<1>2. CASE n # 0
  <2>1. n \in Nat
    OBVIOUS
  <2>2. PICK f : Unfolds(f, s, n) /\ FlattenSeq(s) = f[n]
    BY <1>2, <2>1, FlattenUnfolds
  <2> DEFINE T == {i \in 1..n : f[i] \notin Seq(S)}
  <2>3. ASSUME T # {} PROVE FALSE
    <3>1. PICK x \in T : \A y \in T : x <= y
      <4>1. T \in SUBSET Nat
        OBVIOUS
      <4> QED
        BY <2>3, <4>1, LeastNatural
    <3>2. x \in 1..n /\ s[x] \in Seq(S) /\ (x # 1 => x - 1 \in 1..n /\ x - 1 \notin T)
      BY <2>1, <3>1
    <3>3. f[x] = IF x = 1 THEN s[x] ELSE f[x - 1] \o s[x]
      BY <2>2, <3>2 DEF Unfolds
    <3>4. x # 1 => f[x - 1] \in Seq(S)
      BY <3>2
    <3>5. f[x] \in Seq(S)
      BY <3>2, <3>3, <3>4
    <3> QED
      BY <3>1, <3>5
  <2>4. n \in 1..n
    BY <1>2, <2>1
  <2> QED
    BY <2>2, <2>3, <2>4
<1> QED
  BY <1>1, <1>2

\* Prefixes, element by element.
LEMMA PrefixMeans ==
  ASSUME NEW S, NEW s \in Seq(S), NEW t \in Seq(S)
  PROVE  IsStrictPrefix(s, t) <=> Len(s) < Len(t) /\ \A i \in 1..Len(s) : s[i] = t[i]
<1>1. SubSeq(s, 1, Len(s)) = s
  OBVIOUS
<1>2. ASSUME Len(s) <= Len(t)
      PROVE  SubSeq(t, 1, Len(s)) = s <=> \A i \in 1..Len(s) : s[i] = t[i]
  <2> DEFINE u == SubSeq(t, 1, Len(s))
  <2>1. u \in Seq(S) /\ Len(u) = Len(s) /\ \A i \in 1..Len(s) : u[i] = t[i]
    BY <1>2
  <2> HIDE DEF u
  <2>2. (\A i \in 1..Len(s) : u[i] = s[i]) => u = s
    BY <2>1
  <2> QED
    BY <2>1, <2>2 DEF u
<1>3. ASSUME Len(s) = Len(t), \A i \in 1..Len(s) : s[i] = t[i] PROVE s = t
  BY <1>3
<1>4. ASSUME IsStrictPrefix(s, t)
      PROVE  Len(s) < Len(t) /\ \A i \in 1..Len(s) : s[i] = t[i]
  <2>1. Len(s) <= Len(t) /\ SubSeq(t, 1, Len(s)) = s /\ s # t
    BY <1>1, <1>4 DEF IsStrictPrefix, IsPrefix
  <2>2. \A i \in 1..Len(s) : s[i] = t[i]
    BY <1>2, <2>1
  <2>3. Len(s) # Len(t)
    BY <1>3, <2>1, <2>2
  <2> QED
    BY <2>1, <2>2, <2>3
<1>5. ASSUME Len(s) < Len(t), \A i \in 1..Len(s) : s[i] = t[i]
      PROVE  IsStrictPrefix(s, t)
  <2>1. Len(s) <= Len(t) /\ s # t
    BY <1>5
  <2>2. SubSeq(t, 1, Len(s)) = s
    BY <1>2, <1>5, <2>1
  <2> QED
    BY <1>1, <2>1, <2>2 DEF IsStrictPrefix, IsPrefix
<1> QED
  BY <1>4, <1>5

\* One key further on the way to a path one is there, or on the way still.
LEMMA PrefixStep ==
  ASSUME NEW S, NEW s \in Seq(S), NEW t \in Seq(S), IsStrictPrefix(s, t),
         NEW k, k = t[Len(s) + 1]
  PROVE  k \in S /\ (Append(s, k) = t \/ IsStrictPrefix(Append(s, k), t))
<1> DEFINE r == Append(s, k)
<1>1. Len(s) < Len(t) /\ \A i \in 1..Len(s) : s[i] = t[i]
  BY PrefixMeans
<1>2. k \in S
  BY <1>1
<1>3. r \in Seq(S) /\ Len(r) = Len(s) + 1 /\ \A i \in 1..Len(r) : r[i] = t[i]
  BY <1>1, <1>2
<1> HIDE DEF r
<1>4. Len(r) = Len(t) => r = t
  BY <1>3
<1>5. Len(r) < Len(t) => IsStrictPrefix(r, t)
  BY <1>3, PrefixMeans
<1>6. Len(r) = Len(t) \/ Len(r) < Len(t)
  BY <1>1, <1>3
<1> QED
  BY <1>2, <1>4, <1>5, <1>6 DEF r

\* The way to a path starts at the top.
LEMMA PrefixEmpty ==
  ASSUME NEW S, NEW t \in Seq(S), t # <<>>
  PROVE  IsStrictPrefix(<<>>, t)
<1>1. <<>> \in Seq(S) /\ Len(<<>>) = 0 /\ Len(t) > 0
  OBVIOUS
<1>2. \A i \in 1..Len(<<>>) : <<>>[i] = t[i]
  BY <1>1
<1> QED
  BY <1>1, <1>2, PrefixMeans

\* The two ends of a sequence.
LEMMA FrontLast ==
  ASSUME NEW S, NEW s \in Seq(S), NEW k \in S
  PROVE  Front(Append(s, k)) = s /\ Last(Append(s, k)) = k
  BY DEF Front, Last

\* The elements of a sequence with one more before it.
LEMMA ConsRange ==
  ASSUME NEW S, NEW x \in S, NEW t \in Seq(S)
  PROVE  Range(<<x>> \o t) = {x} \union Range(t)
<1> DEFINE u == <<x>> \o t
<1>1. /\ DOMAIN u = 1..(Len(t) + 1) /\ u[1] = x
      /\ \A i \in 1..Len(t) : u[i + 1] = t[i]
      /\ DOMAIN t = 1..Len(t) /\ Len(t) \in Nat
  OBVIOUS
<1> HIDE DEF u
<1>2. ASSUME NEW i \in DOMAIN u PROVE u[i] \in {x} \union Range(t)
  <2>1. i = 1 \/ (i - 1 \in 1..Len(t) /\ i = (i - 1) + 1)
    BY <1>1
  <2> QED
    BY <1>1, <2>1 DEF Range
<1>3. ASSUME NEW i \in 1..Len(t) PROVE t[i] \in Range(u)
  BY <1>1 DEF Range
<1>4. x \in Range(u)
  BY <1>1 DEF Range
<1>5. Range(u) = {x} \union Range(t)
  BY <1>1, <1>2, <1>3, <1>4 DEF Range
<1> QED
  BY <1>5 DEF u

\* The elements of a sequence are its first one and those of the rest.
LEMMA HeadRange ==
  ASSUME NEW S, NEW s \in Seq(S), s # <<>>
  PROVE  Range(s) = {Head(s)} \union Range(Tail(s))
<1>1. Head(s) \in S /\ Tail(s) \in Seq(S) /\ s = <<Head(s)>> \o Tail(s)
  OBVIOUS
<1> QED
  BY <1>1, ConsRange

-----------------------------------------------------------------------------
(* The walk reaches the leaves *)

\* The paths of a spec that is an object: sequences of keys, none of them empty,
\* and none the start of another.
LEMMA PathsOfSpec ==
  ASSUME daw.spec \in ArtifactSpecs \ {Malformed}
  PROVE  /\ \A path \in DOMAIN daw.spec :
              /\ path \in Seq(Seq(Words)) /\ path # <<>>
              /\ \/ daw.spec[path].list \/ DOMAIN daw.spec[path].items = {1}
                 \/ daw.spec[path] = EmptyMap
         /\ \A p, q \in DOMAIN daw.spec : ~IsStrictPrefix(p, q)
<1>1. Seq(STRING) \subseteq Seq(Words)
  BY DEF Words
<1>2. Seq(Seq(STRING)) \subseteq Seq(Seq(Words))
  BY <1>1
<1> QED
  BY <1>2, ParametersAssumption

\* The prefix a call for a child gets.
LEMMA ChildPrefix ==
  ASSUME NEW path \in Seq(Seq(Words)), NEW key \in Seq(Words)
  PROVE  (<<"spec">> \o FlattenSeq(path)) \o key = <<"spec">> \o FlattenSeq(Append(path, key))
<1> DEFINE start == <<"spec">>
           flat == FlattenSeq(path)
<1>1. start \in Seq(Words) /\ flat \in Seq(Words)
  BY FlattenType DEF Words
<1>2. FlattenSeq(<<>>) = <<>>
  BY FlattenAppend
<1>3. path # <<>> => FlattenSeq(Append(path, key)) = flat \o key
  BY FlattenAppend
<1>4. path = <<>> => FlattenSeq(Append(path, key)) = key
  BY FlattenAppend
<1> HIDE DEF start, flat
<1>5. (start \o flat) \o key = start \o (flat \o key) /\ <<>> \o key = key
  BY <1>1
<1>6. FlattenSeq(Append(path, key)) = flat \o key
  <2>1. CASE path = <<>>
    BY <1>2, <1>4, <1>5, <2>1 DEF flat
  <2> QED
    BY <1>3, <2>1
<1> QED
  BY <1>5, <1>6 DEF start, flat

\* The name of a leaf, from the prefix and the key flattenMap has in hand.
LEMMA NameOfLeaf ==
  ASSUME NEW path \in Seq(Seq(Words)), NEW key \in Seq(Words), NEW i
  PROVE  FlatName(<<Append(path, key), i>>)
           = ((<<"spec">> \o FlattenSeq(path)) \o Capitalized(key)) \o Number(<<Append(path, key), i>>)
<1> DEFINE leaf == <<Append(path, key), i>>
<1>1. leaf[1] = Append(path, key)
  OBVIOUS
<1>2. Front(Append(path, key)) = path /\ Last(Append(path, key)) = key
  BY FrontLast
<1>3. FlatName(leaf)
        = ((<<"spec">> \o FlattenSeq(Front(leaf[1]))) \o Capitalized(Last(leaf[1]))) \o Number(leaf)
  BY DEF FlatName
<1> HIDE DEF leaf
<1>4. FlatName(leaf) = ((<<"spec">> \o FlattenSeq(path)) \o Capitalized(key)) \o Number(leaf)
  BY <1>1, <1>2, <1>3
<1> QED
  BY <1>4 DEF leaf

\* Entries are the leaves at a path: each has its name, and a value of that name.
EntriesAt(p, entries) ==
  /\ \A i \in DOMAIN daw.spec[p].items : FlatName(<<p, i>>) \in DOMAIN entries
  /\ \A n \in DOMAIN entries : \E i \in DOMAIN daw.spec[p].items :
       FlatName(<<p, i>>) = n /\ daw.spec[p].items[i] = entries[n]

\* The entries flattenMap writes for a leaf are the leaves at its path.
LEMMA EntriesAreLeaves ==
  ASSUME NEW path \in Seq(Seq(Words)), NEW key \in Seq(Words), key # <<>>,
         NEW p, p = Append(path, key),
         daw.spec[p].list \/ DOMAIN daw.spec[p].items = {1},
         NEW prefix, prefix = <<"spec">> \o FlattenSeq(path),
         NEW entries, entries = Entries(prefix, key, daw.spec[p])
  PROVE  EntriesAt(p, entries)
<1> DEFINE items == daw.spec[p].items
           name == prefix \o Capitalized(key)
<1>1. \A i : FlatName(<<p, i>>) = name \o Number(<<p, i>>)
  BY NameOfLeaf
<1>2. name \in Seq(Words)
  <2>1. <<"spec">> \in Seq(Words) /\ FlattenSeq(path) \in Seq(Words)
    BY FlattenType DEF Words
  <2> QED
    BY <2>1, CapitalizedType
<1>3. CASE daw.spec[p].list
  <2>1. \A i : FlatName(<<p, i>>) = name \o <<ToString(i - 1)>>
    <3>1. \A i : Number(<<p, i>>) = <<ToString(i - 1)>>
      BY <1>3 DEF Number
    <3> QED
      BY <1>1, <3>1
  <2>2. entries = [n \in {name \o <<ToString(i - 1)>> : i \in DOMAIN items} |->
                     items[CHOOSE i \in DOMAIN items : n = name \o <<ToString(i - 1)>>]]
    BY <1>3 DEF Entries
  <2> HIDE DEF items, name
  <2>3. \A i \in DOMAIN items : FlatName(<<p, i>>) \in DOMAIN entries
    BY <2>1, <2>2
  <2>4. ASSUME NEW n \in DOMAIN entries
        PROVE  \E i \in DOMAIN items : FlatName(<<p, i>>) = n /\ items[i] = entries[n]
    <3> DEFINE j == CHOOSE i \in DOMAIN items : n = name \o <<ToString(i - 1)>>
    <3>1. \E i \in DOMAIN items : n = name \o <<ToString(i - 1)>>
      BY <2>2
    <3>2. j \in DOMAIN items /\ n = name \o <<ToString(j - 1)>>
      BY <3>1, Zenon
    <3>3. entries[n] = items[j]
      BY <2>2
    <3> HIDE DEF j
    <3> QED
      BY <2>1, <3>2, <3>3
  <2> QED
    BY <2>3, <2>4 DEF EntriesAt, items
<1>4. CASE ~daw.spec[p].list
  <2>1. DOMAIN items = {1}
    BY <1>4
  <2>2. FlatName(<<p, 1>>) = name
    <3>1. Number(<<p, 1>>) = <<>>
      BY <1>4 DEF Number
    <3>2. name \o <<>> = name
      BY <1>2
    <3> QED
      BY <1>1, <3>1, <3>2
  <2>3. entries = [n \in {name} |-> items[1]]
    BY <1>4 DEF Entries
  <2> HIDE DEF items, name
  <2>4. /\ \A i \in DOMAIN items : FlatName(<<p, i>>) \in DOMAIN entries
        /\ \A n \in DOMAIN entries : \E i \in DOMAIN items :
             FlatName(<<p, i>>) = n /\ items[i] = entries[n]
    BY <2>1, <2>2, <2>3
  <2> QED
    BY <2>4 DEF EntriesAt, items
<1> QED
  BY <1>3, <1>4

\* A step that leaves the spec alone leaves the names of its leaves alone.
LEMMA SameNames ==
  ASSUME daw' = daw
  PROVE  /\ Leaves' = Leaves
         /\ \A leaf : FlatName(leaf)' = FlatName(leaf)
  BY DEF Leaves, FlatName, Number

\* It is one of the names the leaf may have.
LEMMA FlatNameFits ==
  ASSUME daw.spec \in ArtifactSpecs \ {Malformed}, NEW leaf \in Leaves
  PROVE  FlatName(leaf) \in LeafNames(leaf)
<1> DEFINE path == leaf[1]
           inner == Front(path)
<1>1. path \in Seq(Seq(Words)) /\ path # <<>>
  <2>1. path \in DOMAIN daw.spec
    BY DEF Leaves
  <2> QED
    BY <2>1, PathsOfSpec
<1>2. inner \in Seq(Seq(Words))
  BY <1>1 DEF Front
<1>3. [i \in DOMAIN inner |-> IF i \in {} THEN Capitalized(inner[i]) ELSE inner[i]] = inner
  BY <1>2
<1>4. LeafName(leaf, {}) = FlatName(leaf)
  BY <1>3, Zenon DEF LeafName, FlatName
<1>5. {} \in SUBSET DOMAIN inner
  OBVIOUS
<1> QED
  BY <1>4, <1>5, Zenon DEF LeafNames

\* A leaf that is written stays written.
LEMMA WrittenStays ==
  ASSUME daw' = daw, DOMAIN flattened \subseteq DOMAIN flattened', NEW path, Written(path)
  PROVE  Written(path)'
  BY DEF Written, FlatName, Number

\* What was written keeps its source when nothing is written.
LEMMA SourceStays ==
  ASSUME SourceInv, daw' = daw, flattened' = flattened
  PROVE  SourceInv'
<1> SUFFICES ASSUME NEW name \in DOMAIN flattened'
             PROVE  \E leaf \in Leaves :
                      /\ Last(leaf[1]) # <<>> /\ FlatName(leaf) = name
                      /\ daw.spec[leaf[1]].items[leaf[2]] = flattened'[name]
  BY SameNames DEF SourceInv, FlatName, Number
<1> QED
  BY DEF SourceInv

\* The calls under way after the innermost one has taken a key.
LEMMA RestRange ==
  ASSUME stack \in Seq(Frames), stack # <<>>, NEW key
  PROVE  /\ Range(stack) = {Head(stack)} \union Range(Tail(stack))
         /\ Range(Rest(key)) = {[Head(stack) EXCEPT !.todo = @ \ {key}]} \union Range(Tail(stack))
<1>1. Head(stack) \in Frames /\ Tail(stack) \in Seq(Frames)
  OBVIOUS
<1>2. [Head(stack) EXCEPT !.todo = @ \ {key}] \in Frames
  BY <1>1 DEF Frames
<1>3. Range(stack) = {Head(stack)} \union Range(Tail(stack))
  BY HeadRange
<1> DEFINE f == [Head(stack) EXCEPT !.todo = @ \ {key}]
<1>4. Range(<<f>> \o Tail(stack)) = {f} \union Range(Tail(stack))
  <2> HIDE DEF f
  <2>1. f \in Frames
    BY <1>2 DEF f
  <2> DEFINE t == Tail(stack)
  <2>2. t \in Seq(Frames)
    BY <1>1
  <2> HIDE DEF t
  <2>3. Range(<<f>> \o t) = {f} \union Range(t)
    BY ONLY <2>1, <2>2, ConsRange
  <2> QED
    BY <2>3 DEF t
<1> QED
  BY <1>3, <1>4 DEF Rest

\* A leaf that is pending, after the innermost call has taken a key: it is
\* pending still, unless the key leads to it.
LEMMA PendingRest ==
  ASSUME stack \in Seq(Frames), stack # <<>>, Head(stack) \in Frames, NEW key,
         daw.spec \in ArtifactSpecs \ {Malformed},
         NEW path \in DOMAIN daw.spec,
         \E frame \in Range(stack) : Pending(frame, path)
  PROVE  \/ \E frame \in Range(Rest(key)) : Pending(frame, path)
         \/ path = Append(Head(stack).path, key)
         \/ IsStrictPrefix(Append(Head(stack).path, key), path)
<1> DEFINE f == Head(stack)
           r == [f EXCEPT !.todo = @ \ {key}]
<1>1. PICK frame \in Range(stack) : Pending(frame, path)
  OBVIOUS
<1>2. Range(stack) = {f} \union Range(Tail(stack)) /\ Range(Rest(key)) = {r} \union Range(Tail(stack))
  BY RestRange
<1>3. CASE frame \in Range(Tail(stack))
  BY <1>1, <1>2, <1>3
<1>4. CASE frame = f
  <2> DEFINE k == path[Len(f.path) + 1]
  <2>1. IsStrictPrefix(f.path, path) /\ k \in f.todo
    BY <1>1, <1>4 DEF Pending
  <2>2. f.path \in Seq(Seq(Words)) /\ path \in Seq(Seq(Words))
    BY PathsOfSpec DEF Frames
  <2>3. CASE k = key
    <3> HIDE DEF f, k
    <3>1. Append(f.path, k) = path \/ IsStrictPrefix(Append(f.path, k), path)
      BY <2>1, <2>2, PrefixStep DEF k
    <3> QED
      BY <2>3, <3>1 DEF f
  <2>4. CASE k # key
    <3>1. r.path = f.path /\ r.todo = f.todo \ {key}
      BY DEF Frames
    <3>2. Pending(r, path)
      <4> HIDE DEF r, f
      <4> QED
        BY <2>1, <2>4, <3>1 DEF Pending
    <3> QED
      BY <1>2, <3>2
  <2> QED
    BY <2>3, <2>4
<1> QED
  BY <1>1, <1>2, <1>3, <1>4

\* The step of a leaf.
LEMMA LeafStep ==
  ASSUME WalkInv, PrefixInv, PendingInv, SourceInv, NEW key \in Todo, FlattenLeaf(key)
  PROVE  PrefixInv' /\ PendingInv' /\ SourceInv'
<1> DEFINE f == Head(stack)
           r == [f EXCEPT !.todo = @ \ {key}]
<1>0. PICK p, entries : p = Append(f.path, key) /\ entries = Entries(f.prefix, key, daw.spec[p])
  OBVIOUS
<1> DEFINE items == daw.spec[p].items
<1>1. /\ pc = "flatten" /\ key # <<>>
      /\ p \in DOMAIN daw.spec /\ daw.spec[p] # EmptyMap
      /\ flattened' = Assign(flattened, entries)
      /\ stack' = Rest(key) /\ daw' = daw
  BY <1>0 DEF FlattenLeaf, Take, IsMap
<1>2. /\ stack \in Seq(Frames) /\ stack # <<>> /\ f \in Frames
      /\ key \in Seq(Words) /\ daw.spec \in ArtifactSpecs \ {Malformed}
  BY <1>1, TakenKey DEF FlattenLeaf, WalkInv
<1>3. Range(stack) = {f} \union Range(Tail(stack)) /\ Range(stack') = {r} \union Range(Tail(stack))
  BY <1>1, <1>2, RestRange
<1>4. f.path \in Seq(Seq(Words)) /\ r.path = f.path /\ r.prefix = f.prefix
  BY <1>2 DEF Frames
<1>5. f.prefix = <<"spec">> \o FlattenSeq(f.path)
  BY <1>1, <1>3 DEF PrefixInv
<1>6. daw.spec[p].list \/ DOMAIN daw.spec[p].items = {1}
  BY <1>1, <1>2, PathsOfSpec
<1>7. /\ \A i \in DOMAIN items : FlatName(<<p, i>>) \in DOMAIN entries
      /\ \A n \in DOMAIN entries : \E i \in DOMAIN items :
           FlatName(<<p, i>>) = n /\ items[i] = entries[n]
  <2>1. f.path \in Seq(Seq(Words)) /\ key \in Seq(Words) /\ key # <<>>
    BY <1>1, <1>2, <1>4
  <2>2. p = Append(f.path, key)
    BY <1>0
  <2>3. entries = Entries(f.prefix, key, daw.spec[p])
    BY <1>0
  <2>4. EntriesAt(p, entries)
    <3> HIDE DEF f
    <3> QED
      BY <1>5, <1>6, <2>1, <2>2, <2>3, EntriesAreLeaves
  <2> QED
    BY <2>4 DEF EntriesAt
<1>8. /\ DOMAIN flattened' = DOMAIN flattened \union DOMAIN entries
      /\ \A n \in DOMAIN flattened' :
           flattened'[n] = IF n \in DOMAIN entries THEN entries[n] ELSE flattened[n]
  BY <1>1 DEF Assign
<1>9. PrefixInv'
  BY <1>1, <1>3, <1>4, <1>5 DEF PrefixInv
<1> HIDE DEF r
<1>10. PendingInv'
  <2> SUFFICES ASSUME NEW path \in DOMAIN daw.spec
               PROVE  (\E frame \in Range(stack') : Pending(frame, path)) \/ Written(path)'
    BY <1>1 DEF PendingInv, Pending
  <2>1. CASE Written(path)
    BY <1>1, <1>8, <2>1, WrittenStays
  <2>2. CASE \E frame \in Range(stack) : Pending(frame, path)
    <3>1. \/ \E frame \in Range(stack') : Pending(frame, path)
          \/ path = p
          \/ IsStrictPrefix(p, path)
      BY <1>0, <1>1, <1>2, <2>2, PendingRest
    <3>2. ~IsStrictPrefix(p, path)
      BY <1>1, <1>2, PathsOfSpec
    <3>3. Written(p)'
      <4> SUFFICES ASSUME NEW i \in DOMAIN items PROVE FlatName(<<p, i>>)' \in DOMAIN flattened'
        BY <1>1 DEF Written
      <4>1. FlatName(<<p, i>>)' = FlatName(<<p, i>>)
        BY <1>1, SameNames DEF FlatName, Number
      <4> QED
        BY <1>7, <1>8, <4>1
    <3> QED
      BY <3>1, <3>2, <3>3
  <2> QED
    BY <1>1, <2>1, <2>2 DEF PendingInv
<1>11. SourceInv'
  <2> SUFFICES ASSUME NEW name \in DOMAIN flattened'
               PROVE  \E leaf \in Leaves :
                        /\ Last(leaf[1]) # <<>> /\ FlatName(leaf) = name
                        /\ daw.spec[leaf[1]].items[leaf[2]] = flattened'[name]
    BY <1>1, SameNames DEF SourceInv, FlatName, Number
  <2>1. CASE name \in DOMAIN entries
    <3>1. PICK i \in DOMAIN items : FlatName(<<p, i>>) = name /\ items[i] = entries[name]
      BY <1>7, <2>1
    <3>2. <<p, i>> \in Leaves
      <4>1. <<p, i>> \in {p} \X DOMAIN items
        OBVIOUS
      <4> QED
        BY <1>1, <4>1 DEF Leaves
    <3>3. Last(p) = key
      BY <1>0, <1>2, <1>4, FrontLast
    <3>4. flattened'[name] = items[i]
      BY <1>8, <2>1, <3>1
    <3> DEFINE leaf == <<p, i>>
    <3>5. leaf[1] = p /\ leaf[2] = i
      OBVIOUS
    <3> QED
      BY <1>1, <3>1, <3>2, <3>3, <3>4, <3>5
  <2>2. CASE name \notin DOMAIN entries
    <3>1. name \in DOMAIN flattened /\ flattened'[name] = flattened[name]
      BY <1>8, <2>2
    <3> QED
      BY <3>1 DEF SourceInv
  <2> QED
    BY <2>1, <2>2
<1> QED
  BY <1>9, <1>10, <1>11

\* The step of a map within the map.
LEMMA ChildStep ==
  ASSUME WalkInv, PrefixInv, PendingInv, SourceInv, NEW key \in Todo, FlattenChild(key)
  PROVE  PrefixInv' /\ PendingInv' /\ SourceInv'
<1> DEFINE f == Head(stack)
           p == Append(f.path, key)
           r == [f EXCEPT !.todo = @ \ {key}]
           c == Call(f.prefix \o key, p)
<1>1. /\ pc = "flatten" /\ key # <<>> /\ IsMap(p)
      /\ stack' = <<c>> \o Rest(key) /\ UNCHANGED <<daw, flattened>>
  BY DEF FlattenChild, Take
<1>2. /\ stack \in Seq(Frames) /\ stack # <<>> /\ f \in Frames
      /\ key \in Seq(Words) /\ daw.spec \in ArtifactSpecs \ {Malformed}
  BY <1>1, TakenKey DEF FlattenChild, WalkInv
<1>3. /\ Range(stack) = {f} \union Range(Tail(stack))
      /\ Range(Rest(key)) = {r} \union Range(Tail(stack))
  BY <1>2, RestRange
<1>4. /\ f.path \in Seq(Seq(Words)) /\ f.prefix \in SpecPrefixes
      /\ r.path = f.path /\ r.prefix = f.prefix
  BY <1>2 DEF Frames
<1>5. p \in Seq(Seq(Words))
  BY <1>2, <1>4
<1>6. c \in Frames /\ Rest(key) \in Seq(Frames)
  <2>1. f.prefix \o key \in SpecPrefixes
    BY <1>2, <1>4, FirstStays DEF SpecPrefixes
  <2> QED
    BY <1>2, <1>5, <2>1, CallType, RestType
<1>7. c.path = p /\ c.prefix = f.prefix \o key /\ c.todo = KeysAt(p)
  BY DEF Call
<1> HIDE DEF c, r
<1>8. Range(stack') = {c} \union Range(Rest(key))
  BY <1>1, <1>6, ConsRange
<1>9. f.prefix = <<"spec">> \o FlattenSeq(f.path)
  BY <1>1, <1>3 DEF PrefixInv
<1>10. c.prefix = <<"spec">> \o FlattenSeq(c.path)
  BY <1>2, <1>4, <1>7, <1>9, ChildPrefix
<1>11. PrefixInv'
  BY <1>1, <1>3, <1>4, <1>8, <1>9, <1>10 DEF PrefixInv
<1>12. PendingInv'
  <2> SUFFICES ASSUME NEW path \in DOMAIN daw.spec
               PROVE  (\E frame \in Range(stack') : Pending(frame, path)) \/ Written(path)'
    BY <1>1 DEF PendingInv, Pending
  <2>1. CASE Written(path)
    BY <1>1, <2>1, WrittenStays
  <2>2. CASE \E frame \in Range(stack) : Pending(frame, path)
    <3>1. \/ \E frame \in Range(Rest(key)) : Pending(frame, path)
          \/ path = p
          \/ IsStrictPrefix(p, path)
      BY <1>2, <2>2, PendingRest
    <3>2. CASE path = p
      <4>1. DOMAIN daw.spec[path].items = {}
        BY <1>1, <3>2 DEF IsMap, EmptyMap
      <4> QED
        BY <1>1, <4>1 DEF Written
    <3>3. CASE IsStrictPrefix(p, path)
      <4>1. path[Len(p) + 1] \in KeysAt(p)
        BY <3>3 DEF KeysAt
      <4>2. Pending(c, path)
        BY <1>7, <3>3, <4>1 DEF Pending
      <4> QED
        BY <1>8, <4>2
    <3> QED
      BY <1>8, <3>1, <3>2, <3>3
  <2> QED
    BY <1>1, <2>1, <2>2 DEF PendingInv
<1>13. SourceInv'
  BY <1>1, SourceStays
<1> QED
  BY <1>11, <1>12, <1>13

\* The walk starts with every leaf before it.
LEMMA UnmarshalStep ==
  ASSUME WalkInv, SourceInv, Unmarshal
  PROVE  PrefixInv' /\ PendingInv' /\ SourceInv'
<1>1. UNCHANGED <<daw, flattened>>
  BY DEF Unmarshal
<1>2. SourceInv'
  BY <1>1, SourceStays
<1>3. CASE daw.spec = Malformed
  BY <1>2, <1>3 DEF Unmarshal, PrefixInv, PendingInv
<1>4. CASE daw.spec # Malformed
  <2> DEFINE c == Call(<<"spec">>, <<>>)
  <2>1. Range(stack') = {c}
    BY <1>4 DEF Unmarshal, Range
  <2>2. c.prefix = <<"spec">> /\ c.path = <<>> /\ c.todo = KeysAt(<<>>)
    BY DEF Call
  <2> HIDE DEF c
  <2>3. <<"spec">> = <<"spec">> \o FlattenSeq(<<>>)
    <3>1. FlattenSeq(<<>>) = <<>>
      BY DEF FlattenSeq
    <3>2. <<"spec">> \in Seq(Words)
      BY DEF Words
    <3>3. \A s \in Seq(Words) : s = s \o <<>>
      OBVIOUS
    <3> QED
      BY <3>1, <3>2, <3>3
  <2>4. PrefixInv'
    BY <2>1, <2>2, <2>3 DEF PrefixInv
  <2>5. ASSUME NEW path \in DOMAIN daw.spec PROVE Pending(c, path)
    <3>1. path \in Seq(Seq(Words)) /\ path # <<>>
      BY <1>4, PathsOfSpec DEF WalkInv
    <3>2. IsStrictPrefix(<<>>, path)
      BY <3>1, PrefixEmpty
    <3>3. path[Len(<<>>) + 1] \in KeysAt(<<>>)
      BY <3>2 DEF KeysAt
    <3> QED
      BY <2>2, <3>2, <3>3 DEF Pending
  <2>6. PendingInv'
    BY <1>1, <2>1, <2>5 DEF PendingInv, Pending
  <2> QED
    BY <1>2, <2>4, <2>6
<1> QED
  BY <1>3, <1>4

\* A call returns when it has taken all its keys.
LEMMA ReturnStep ==
  ASSUME WalkInv, PrefixInv, PendingInv, SourceInv, Return
  PROVE  PrefixInv' /\ PendingInv' /\ SourceInv'
<1>1. /\ pc = "flatten" /\ stack # <<>> /\ Head(stack).todo = {}
      /\ stack' = Tail(stack) /\ UNCHANGED <<daw, flattened>>
  BY DEF Return
<1>2. Range(stack) = {Head(stack)} \union Range(stack')
  BY <1>1, HeadRange DEF WalkInv
<1>3. PrefixInv'
  BY <1>1, <1>2 DEF PrefixInv
<1>4. PendingInv'
  <2> SUFFICES ASSUME NEW path \in DOMAIN daw.spec
               PROVE  (\E frame \in Range(stack') : Pending(frame, path)) \/ Written(path)'
    BY <1>1 DEF PendingInv, Pending
  <2>1. ~Pending(Head(stack), path)
    BY <1>1 DEF Pending
  <2>2. Written(path) => Written(path)'
    BY <1>1, WrittenStays
  <2> QED
    BY <1>1, <1>2, <2>1, <2>2 DEF PendingInv
<1>5. SourceInv'
  BY <1>1, SourceStays
<1> QED
  BY <1>3, <1>4, <1>5

\* When the walk is over, the names are those of the leaves.
LEMMA WalkOver ==
  ASSUME PendingInv, SourceInv, pc = "flatten", stack = <<>>
  PROVE  DOMAIN flattened = {FlatName(leaf) : leaf \in Leaves}
<1>1. Range(stack) = {}
  BY DEF Range
<1> DEFINE N == {FlatName(leaf) : leaf \in Leaves}
<1>2. ASSUME NEW leaf \in Leaves PROVE FlatName(leaf) \in DOMAIN flattened
  <2>1. PICK path \in DOMAIN daw.spec : leaf \in {path} \X DOMAIN daw.spec[path].items
    BY DEF Leaves
  <2>2. leaf = <<path, leaf[2]>> /\ leaf[2] \in DOMAIN daw.spec[path].items
    BY <2>1
  <2>3. Written(path)
    BY <1>1 DEF PendingInv
  <2>4. FlatName(<<path, leaf[2]>>) \in DOMAIN flattened
    BY <2>2, <2>3 DEF Written
  <2> QED
    BY <2>2, <2>4
<1>3. N \subseteq DOMAIN flattened
  BY <1>2
<1>4. DOMAIN flattened \subseteq N
  BY DEF SourceInv
<1> HIDE DEF N
<1>5. DOMAIN flattened = N
  BY <1>3, <1>4
<1> QED
  BY <1>5 DEF N

\* Six parameters with different names, none of them that of a leaf of the spec.
SixNames(fixed) ==
  /\ \A i, j \in 1..6 : fixed[i].name = fixed[j].name => i = j
  /\ \A i \in 1..6 : fixed[i].name[1] # "spec"

\* The six parameters dawToParameters makes of the Endpoints have such names.
LEMMA NamesOfEndpoints ==
  ASSUME NEW src, NEW dst
  PROVE  SixNames(EndpointParameters(src, dst))
<1> DEFINE fixed == EndpointParameters(src, dst)
<1>1. /\ fixed[1].name = <<"srcType">> /\ fixed[2].name = <<"srcRemoteURL">>
      /\ fixed[3].name = <<"dstType">> /\ fixed[4].name = <<"dstRemoteURL">>
      /\ fixed[5].name = <<"srcSecret">> /\ fixed[6].name = <<"dstSecret">>
  BY DEF EndpointParameters, Parameter
<1> HIDE DEF fixed
<1>2. /\ fixed[1].name[1] = "srcType" /\ fixed[2].name[1] = "srcRemoteURL"
      /\ fixed[3].name[1] = "dstType" /\ fixed[4].name[1] = "dstRemoteURL"
      /\ fixed[5].name[1] = "srcSecret" /\ fixed[6].name[1] = "dstSecret"
  BY <1>1
<1>3. \A i \in 1..6 : i = 1 \/ i = 2 \/ i = 3 \/ i = 4 \/ i = 5 \/ i = 6
  OBVIOUS
<1>4. \A i, j \in 1..6 : fixed[i].name[1] = fixed[j].name[1] => i = j
  BY <1>2, <1>3
<1>5. \A i \in 1..6 : fixed[i].name[1] # "spec"
  BY <1>2, <1>3
<1>6. SixNames(fixed)
  BY <1>4, <1>5 DEF SixNames
<1> QED
  BY <1>6 DEF fixed

\* A sequence of all elements of a finite set names each of them, and once.
LEMMA AllNames ==
  ASSUME NEW S, IsFiniteSet(S), NEW names \in SetToSeqs(S)
  PROVE  LET n == Cardinality(S) IN
         /\ n \in Nat
         /\ names \in [1..n -> S]
         /\ \A i, j \in 1..n : names[i] = names[j] => i = j
         /\ \A x \in S : \E i \in 1..n : names[i] = x
<1> DEFINE n == Cardinality(S)
<1>1. n \in Nat
  BY FS_CardinalityType
<1>2. names \in [1..n -> S] /\ \A i, j \in 1..n : names[i] = names[j] => i = j
  BY DEF SetToSeqs
<1>3. names \in Injection(1..n, S)
  <2> HIDE DEF n
  <2> QED
    BY <1>2 DEF Injection, IsInjective
<1>4. Cardinality(1..n) = n
  <2> HIDE DEF n
  <2> QED
    BY <1>1, FS_Interval
<1>5. names \in Surjection(1..n, S)
  BY <1>3, <1>4, FS_Injection
<1>6. \A x \in S : \E i \in 1..n : names[i] = x
  <2> HIDE DEF n
  <2> QED
    BY <1>5 DEF Surjection
<1> QED
  BY <1>1, <1>2, <1>6

\* The list dawToParameters returns when the walk is over.
LEMMA ListOfLeaves ==
  ASSUME WalkInv, PendingInv, SourceInv, pc = "flatten", stack = <<>>,
         NEW names \in SetToSeqs(DOMAIN flattened),
         NEW params,
         params = EndpointParameters(daw.srcEndpoint, daw.dstEndpoint) \o SpecParameters(names)
  PROVE  LeavesListed(params)
<1> DEFINE n == Cardinality(DOMAIN flattened)
           fixed == EndpointParameters(daw.srcEndpoint, daw.dstEndpoint)
           spec == SpecParameters(names)
<1>1. /\ n \in Nat /\ names \in [1..n -> DOMAIN flattened]
      /\ \A i, j \in 1..n : names[i] = names[j] => i = j
      /\ \A x \in DOMAIN flattened : \E i \in 1..n : names[i] = x
  <2>1. IsFiniteSet(DOMAIN flattened)
    BY DEF WalkInv
  <2> QED
    BY <2>1, AllNames
<1> HIDE DEF n
<1>2. \A i \in 1..n : names[i] \in DOMAIN flattened /\ names[i][1] = "spec"
  BY <1>1 DEF WalkInv
<1>3. fixed \in Seq(Range(fixed)) /\ Len(fixed) = 6
  BY FlagsOfEndpoints
<1>4. /\ \A i, j \in 1..6 : fixed[i].name = fixed[j].name => i = j
      /\ \A i \in 1..6 : fixed[i].name[1] # "spec"
  <2>1. SixNames(fixed)
    BY NamesOfEndpoints, Zenon
  <2> HIDE DEF fixed
  <2> QED
    BY <2>1, Zenon DEF SixNames
<1>5. spec \in Seq(Range(spec)) /\ Len(spec) = n
  BY <1>1, <1>2, NoFlagInSpec
<1>6. \A i \in 1..n : spec[i].name = names[i] /\ spec[i].value = Sprintf(flattened[names[i]])
  BY <1>1 DEF SpecParameters, Parameter
<1>7. EndpointNames = {p.name : p \in Range(fixed)}
  BY DEF EndpointNames
<1> HIDE DEF fixed, spec
<1>8. params = fixed \o spec
  BY DEF fixed, spec
<1>9. /\ DOMAIN params = 1..(6 + n)
      /\ \A i \in 1..6 : params[i] = fixed[i]
      /\ \A i \in 7..6 + n : params[i] = spec[i - 6]
  <2>1. /\ DOMAIN (fixed \o spec) = 1..(Len(fixed) + Len(spec))
        /\ \A i \in 1..Len(fixed) : (fixed \o spec)[i] = fixed[i]
        /\ \A i \in Len(fixed) + 1..Len(fixed) + Len(spec) : (fixed \o spec)[i] = spec[i - Len(fixed)]
    BY <1>3, <1>5, Joined, Zenon
  <2> QED
    BY <1>3, <1>5, <1>8, <2>1
<1>10. \A i \in 1..(6 + n) : i \in 1..6 \/ (i \in 7..6 + n /\ i - 6 \in 1..n)
  BY <1>1
<1>11. DOMAIN fixed = 1..6
  BY <1>3
<1>12. ASSUME NEW x PROVE x \in EndpointNames <=> \E i \in 1..6 : fixed[i].name = x
  BY <1>7, <1>11 DEF Range
<1>13. ASSUME NEW x
       PROVE  x \in DOMAIN flattened <=> \E i \in 7..6 + n : params[i].name = x
  <2>1. ASSUME x \in DOMAIN flattened PROVE \E i \in 7..6 + n : params[i].name = x
    <3>1. PICK i \in 1..n : names[i] = x
      BY <1>1, <2>1
    <3>2. i + 6 \in 7..6 + n /\ (i + 6) - 6 = i
      BY <1>1
    <3>3. params[i + 6].name = x
      BY <1>6, <1>9, <3>1, <3>2
    <3> QED
      BY <3>2, <3>3
  <2>2. ASSUME NEW i \in 7..6 + n PROVE params[i].name \in DOMAIN flattened
    <3>1. i - 6 \in 1..n
      BY <1>1
    <3> QED
      BY <1>2, <1>6, <1>9, <3>1
  <2> QED
    BY <2>1, <2>2
<1>14. {p.name : p \in Range(params)} = EndpointNames \union DOMAIN flattened
  <2>1. ASSUME NEW x
        PROVE  x \in {p.name : p \in Range(params)} <=> \E i \in 1..(6 + n) : params[i].name = x
    BY <1>9 DEF Range
  <2>2. ASSUME NEW x
        PROVE  (\E i \in 1..(6 + n) : params[i].name = x)
                 <=> (\E i \in 1..6 : fixed[i].name = x) \/ \E i \in 7..6 + n : params[i].name = x
    <3>1. \A i \in 1..6 : i \in 1..(6 + n) /\ params[i].name = fixed[i].name
      <4>1. n \in Nat
        BY <1>1
      <4>2. \A i \in 1..6 : i \in 1..(6 + n)
        BY ONLY <4>1
      <4> QED
        BY <1>9, <4>2, Zenon
    <3>2. \A i \in 7..6 + n : i \in 1..(6 + n)
      BY <1>1
    <3>3. ASSUME NEW i \in 1..(6 + n), params[i].name = x
          PROVE  (\E k \in 1..6 : fixed[k].name = x) \/ \E k \in 7..6 + n : params[k].name = x
      <4>1. CASE i \in 1..6
        BY <3>1, <3>3, <4>1
      <4>2. CASE i \in 7..6 + n
        BY <3>3, <4>2
      <4> QED
        BY <1>10, <4>1, <4>2
    <3>4. ASSUME NEW i \in 1..6, fixed[i].name = x
          PROVE  \E k \in 1..(6 + n) : params[k].name = x
      BY <3>1, <3>4
    <3>5. ASSUME NEW i \in 7..6 + n, params[i].name = x
          PROVE  \E k \in 1..(6 + n) : params[k].name = x
      BY <3>2, <3>5
    <3> QED
      BY <3>3, <3>4, <3>5, Zenon
  <2> QED
    BY <1>12, <1>13, <2>1, <2>2
<1>15. \A i, j \in DOMAIN params : params[i].name = params[j].name => i = j
  <2> SUFFICES ASSUME NEW i \in 1..(6 + n), NEW j \in 1..(6 + n), params[i].name = params[j].name
               PROVE  i = j
    BY <1>9
  <2>1. \A k \in 1..6 : params[k].name = fixed[k].name /\ params[k].name[1] # "spec"
    BY <1>4, <1>9
  <2>2. ASSUME NEW k \in 7..6 + n
        PROVE  /\ k - 6 \in 1..n
               /\ params[k].name = names[k - 6] /\ params[k].name[1] = "spec"
    <3>1. k - 6 \in 1..n
      BY <1>1
    <3>2. params[k].name = names[k - 6]
      BY <1>6, <1>9, <3>1
    <3> QED
      BY <1>2, <3>1, <3>2
  <2>3. CASE i \in 1..6 /\ j \in 1..6
    BY <1>4, <2>1, <2>3
  <2>4. CASE i \in 7..6 + n /\ j \in 7..6 + n
    <3>1. i - 6 \in 1..n /\ j - 6 \in 1..n /\ names[i - 6] = names[j - 6]
      BY <2>2, <2>4
    <3>2. i - 6 = j - 6
      BY <1>1, <3>1
    <3> QED
      BY <1>1, <2>4, <3>2
  <2> QED
    BY <1>10, <2>1, <2>2, <2>3, <2>4
<1>16. ASSUME NEW p \in Range(params), p.name \notin EndpointNames
       PROVE  \E leaf \in Leaves : FlatName(leaf) = p.name /\ LeafValue(leaf) = p.value
  <2>1. PICK i \in 1..(6 + n) : p = params[i]
    BY <1>9 DEF Range
  <2>2. i \in 7..6 + n /\ i - 6 \in 1..n
    BY <1>9, <1>10, <1>12, <1>16, <2>1
  <2>3. /\ p.name = names[i - 6] /\ p.name \in DOMAIN flattened
        /\ p.value = Sprintf(flattened[p.name])
    BY <1>2, <1>6, <1>9, <2>1, <2>2
  <2>4. PICK leaf \in Leaves :
          FlatName(leaf) = p.name /\ daw.spec[leaf[1]].items[leaf[2]] = flattened[p.name]
    BY <2>3 DEF SourceInv
  <2>5. LeafValue(leaf) = p.value
    BY <2>3, <2>4 DEF LeafValue
  <2> QED
    BY <2>4, <2>5
<1>17. DOMAIN flattened = {FlatName(leaf) : leaf \in Leaves}
  BY WalkOver
<1>18. \A leaf \in Leaves : FlatName(leaf) \in LeafNames(leaf)
  BY FlatNameFits DEF WalkInv
<1>19. ASSUME NEW leaf \in Leaves
       PROVE  \E p \in Range(params) : p.name \in LeafNames(leaf)
  <2>1. FlatName(leaf) \in {p.name : p \in Range(params)}
    BY <1>14, <1>17
  <2> QED
    BY <1>18, <2>1
<1>20. ASSUME NEW p \in Range(params), p.name \notin EndpointNames
       PROVE  \E leaf \in Leaves : p.name \in LeafNames(leaf) /\ LeafValue(leaf) = p.value
  BY <1>16, <1>18, <1>20
<1>21. EndpointNames \subseteq {p.name : p \in Range(params)}
  BY <1>14
<1> QED
  BY <1>15, <1>19, <1>20, <1>21 DEF LeavesListed

\* What a list says of the leaves, it says as long as the spec stays.
LEMMA ListedStays ==
  ASSUME daw' = daw, NEW params, LeavesListed(params)
  PROVE  LeavesListed(params)'
<1>1. /\ Leaves' = Leaves /\ EndpointNames' = EndpointNames
      /\ \A leaf : LeafNames(leaf)' = LeafNames(leaf) /\ LeafValue(leaf)' = LeafValue(leaf)
  BY SameNames DEF EndpointNames, LeafValue, LeafNames, LeafName, Number
<1> QED
  BY <1>1 DEF LeavesListed

\* The walk and the list it makes.
LEMMA LeavesInductive == WalkInv /\ LeavesInv /\ [Next]_vars => LeavesInv'
<1> SUFFICES ASSUME WalkInv, LeavesInv, [Next]_vars PROVE LeavesInv'
  OBVIOUS
<1>0. PrefixInv /\ PendingInv /\ SourceInv /\ ParametersAreLeaves
  BY DEF LeavesInv
<1>1. CASE Unmarshal
  <2>1. pc' # "create"
    BY <1>1 DEF Unmarshal
  <2> QED
    BY <1>0, <1>1, <2>1, UnmarshalStep DEF LeavesInv, ParametersAreLeaves
<1>2. CASE Return
  <2>1. pc' # "create"
    BY <1>2 DEF Return
  <2> QED
    BY <1>0, <1>2, <2>1, ReturnStep DEF LeavesInv, ParametersAreLeaves
<1>3. ASSUME NEW key \in Todo, FlattenLeaf(key) PROVE LeavesInv'
  <2>1. pc' # "create"
    BY <1>3 DEF FlattenLeaf, Take
  <2> QED
    BY <1>0, <1>3, <2>1, LeafStep DEF LeavesInv, ParametersAreLeaves
<1>4. ASSUME NEW key \in Todo, FlattenChild(key) PROVE LeavesInv'
  <2>1. pc' # "create"
    BY <1>4 DEF FlattenChild, Take
  <2> QED
    BY <1>0, <1>4, <2>1, ChildStep DEF LeavesInv, ParametersAreLeaves
<1>5. CASE HydrateArtifactWorkflow
  <2>1. /\ pc = "flatten" /\ stack = <<>> /\ pc' = "create"
        /\ daw' = daw /\ flattened' = flattened
    BY <1>5 DEF HydrateArtifactWorkflow
  <2>2. PICK names \in SetToSeqs(DOMAIN flattened) :
          aw' = [parameters |-> EndpointParameters(daw.srcEndpoint, daw.dstEndpoint)
                   \o SpecParameters(names),
                 srcSecretRef |-> daw.srcEndpoint.secretRef,
                 dstSecretRef |-> daw.dstEndpoint.secretRef]
    BY <1>5 DEF HydrateArtifactWorkflow, SpecParameters
  <2>3. PICK params : params = EndpointParameters(daw.srcEndpoint, daw.dstEndpoint) \o SpecParameters(names)
    OBVIOUS
  <2>4. LeavesListed(params)
    BY <1>0, <2>1, <2>3, ListOfLeaves
  <2>5. LeavesListed(params)'
    BY <2>1, <2>4, ListedStays
  <2>6. ParametersAreLeaves'
    <3>1. aw'.parameters = params
      BY <2>2, <2>3
    <3> QED
      BY <2>5, <3>1 DEF ParametersAreLeaves
  <2> QED
    BY <1>0, <2>1, <2>6, SourceStays DEF LeavesInv, PrefixInv, PendingInv
<1>6. CASE Panic \/ HydrateArgoWorkflow
  <2>1. pc' \notin {"flatten", "create"} /\ daw' = daw /\ flattened' = flattened
    BY <1>6 DEF Panic, HydrateArgoWorkflow
  <2> QED
    BY <1>0, <2>1, SourceStays DEF LeavesInv, PrefixInv, PendingInv, ParametersAreLeaves
<1>7. CASE ChangeEndpoint \/ UNCHANGED vars
  <2>1. daw' = daw /\ flattened' = flattened /\ stack' = stack /\ aw' = aw /\ pc' = pc
    BY <1>7 DEF ChangeEndpoint, vars
  <2>2. PrefixInv'
    BY <1>0, <2>1 DEF PrefixInv
  <2>3. PendingInv'
    BY <1>0, <2>1, WrittenStays DEF PendingInv, Pending
  <2>4. ParametersAreLeaves'
    <3>1. PICK params : params = aw.parameters
      OBVIOUS
    <3>2. LeavesListed(params) => LeavesListed(params)'
      BY <2>1, ListedStays
    <3> QED
      BY <1>0, <2>1, <3>1, <3>2 DEF ParametersAreLeaves
  <2> QED
    BY <1>0, <2>1, <2>2, <2>3, <2>4, SourceStays DEF LeavesInv
<1> QED
  BY <1>1, <1>2, <1>3, <1>4, <1>5, <1>6, <1>7 DEF Next, Step

-----------------------------------------------------------------------------
(* The theorems *)

\* The invariant holds of the initial states.
LEMMA ParametersInit == Init => ParametersInv
<1> SUFFICES ASSUME Init PROVE ParametersInv
  OBVIOUS
<1>1. IsFiniteSet(DOMAIN flattened) /\ \A name \in DOMAIN flattened : name[1] = "spec"
  BY FS_EmptySet DEF Init, Empty
<1>2. daw.spec \in ArtifactSpecs /\ stack \in Seq(Frames) /\ pc = "unmarshal"
  BY DEF Init
<1> QED
  BY <1>1, <1>2 DEF ParametersInv, WalkInv, ListInv, MadeInv

\* The invariant of the walk and of the lists it makes.
THEOREM ParametersInvariant == Spec => []ParametersInv
<1>1. ParametersInv /\ [Next]_vars => ParametersInv'
  BY WalkInductive, ListsInductive DEF ParametersInv
<1> QED
  BY <1>1, ParametersInit, PTL DEF Spec

\* In whatever order dawToParameters walks the maps of a spec, and whatever the
\* spec is, the parameters of the ArtifactWorkflow are those of the Endpoints and
\* the leaves of the spec: none is missing, none is made up, no name is there
\* twice.  Which of the inner keys of a name are capitalized is left open.
THEOREM ParametersAlwaysLeaves == Spec => []ParametersAreLeaves
<1>1. Init => LeavesInv
  BY DEF Init, Empty, LeavesInv, PrefixInv, PendingInv, SourceInv, ParametersAreLeaves
<1>2. ParametersInv => WalkInv
  BY DEF ParametersInv
<1>3. LeavesInv => ParametersAreLeaves
  BY DEF LeavesInv
<1> QED
  BY <1>1, <1>2, <1>3, LeavesInductive, ParametersInvariant, PTL DEF Spec

\* The last parameter of a name is the one behind which there is none of it.
LEMMA LastIs ==
  ASSUME NEW params, NEW name, DOMAIN params \subseteq Nat,
         NEW k \in DOMAIN params, params[k].name = name,
         \A j \in DOMAIN params : params[j].name = name => j <= k
  PROVE  LastValue(params, name) = params[k].value
<1> DEFINE last == CHOOSE i \in Named(params, name) : \A j \in Named(params, name) : j <= i
<1>1. \E i \in Named(params, name) : \A j \in Named(params, name) : j <= i
  BY DEF Named
<1>2. last \in Named(params, name) /\ \A j \in Named(params, name) : j <= last
  BY <1>1, Zenon
<1>3. last \in DOMAIN params /\ params[last].name = name /\ k <= last
  BY <1>2 DEF Named
<1> HIDE DEF last
<1>4. last = k
  BY <1>3
<1> QED
  BY <1>4 DEF LastValue, last

\* No two parameters of the ArtifactType have one name.
DistinctTypeNames ==
  \A i, j \in DOMAIN TypeParameters : TypeParameters[i].name = TypeParameters[j].name => i = j

\* The ArtifactType does not set the flags of the secrets itself.
TypeSetsNoFlag ==
  \A i \in DOMAIN TypeParameters :
    TypeParameters[i].name # <<"srcSecret">> /\ TypeParameters[i].name # <<"dstSecret">>

\* hydrateArgoWorkflow appends the parameters of the ArtifactType: for each of
\* them the last entry of its name in the Workflow is its own, whatever keys the
\* spec of the artifact has and in whatever order flattenMap walks them.
THEOREM TypeHasLastWord ==
  ASSUME DistinctTypeNames
  PROVE  Spec => []TypeOverrides
<1>1. ParametersInv => TypeOverrides
  <2> SUFFICES ASSUME ParametersInv, pc = "done", NEW k \in DOMAIN TypeParameters
               PROVE  LastValue(wf.parameters, TypeParameters[k].name) = TypeParameters[k].value
    BY DEF TypeOverrides, Range
  <2> DEFINE s == aw.parameters
             t == TypeParameters
             u == s \o t
  <2>1. wf.parameters = u
    BY DEF ParametersInv, MadeInv
  <2>2. s \in Seq(Range(s)) /\ t \in Seq(Range(t))
    BY ParametersAssumption DEF ParametersInv, ListInv
  <2>3. /\ DOMAIN u = 1..(Len(s) + Len(t))
        /\ \A i \in Len(s) + 1..Len(s) + Len(t) : u[i] = t[i - Len(s)]
    BY <2>2, Joined, Zenon
  <2>4. Len(s) \in Nat /\ Len(t) \in Nat /\ DOMAIN t = 1..Len(t)
    BY <2>2
  <2> DEFINE last == Len(s) + k
  <2> HIDE DEF s, u
  <2>5. last \in DOMAIN u /\ DOMAIN u \subseteq Nat /\ u[last] = t[k]
    BY <2>3, <2>4
  <2>6. \A j \in DOMAIN u : u[j].name = t[k].name => j <= last
    <3> SUFFICES ASSUME NEW j \in DOMAIN u, u[j].name = t[k].name, j > last PROVE FALSE
      BY <2>3, <2>4
    <3>1. j \in Len(s) + 1..Len(s) + Len(t) /\ j - Len(s) \in DOMAIN t /\ j - Len(s) # k
      BY <2>3, <2>4
    <3>2. t[j - Len(s)].name = t[k].name
      BY <2>3, <3>1
    <3> QED
      BY <3>1, <3>2 DEF DistinctTypeNames
  <2>7. LastValue(u, t[k].name) = u[last].value
    BY <2>5, <2>6, LastIs
  <2> QED
    BY <2>1, <2>5, <2>7
<1> QED
  BY <1>1, ParametersInvariant, PTL

\* The Order controller writes the flag from the Endpoint it read, the
\* ArtifactWorkflow controller mounts the secret named in the ArtifactWorkflow:
\* they agree for every spec and all Endpoints, although an Endpoint may change
\* between the two, unless the ArtifactType overrides the flag.
THEOREM FlagsAgree ==
  ASSUME TypeSetsNoFlag
  PROVE  Spec => []SecretFlagMatchesVolume
<1>1. ParametersInv => SecretFlagMatchesVolume
  <2> SUFFICES ASSUME ParametersInv, pc = "done"
               PROVE  /\ LastValue(wf.parameters, <<"srcSecret">>) = Flag(wf.srcVolume)
                      /\ LastValue(wf.parameters, <<"dstSecret">>) = Flag(wf.dstVolume)
    BY DEF SecretFlagMatchesVolume
  <2> DEFINE s == aw.parameters
             t == TypeParameters
             u == s \o t
  <2>1. wf.parameters = u /\ wf.srcVolume = aw.srcSecretRef /\ wf.dstVolume = aw.dstSecretRef
    BY DEF ParametersInv, MadeInv
  <2>2. /\ s \in Seq(Range(s)) /\ t \in Seq(Range(t))
        /\ Len(s) >= 6
        /\ FlagAt(s, 5, <<"srcSecret">>, aw.srcSecretRef)
        /\ FlagAt(s, 6, <<"dstSecret">>, aw.dstSecretRef)
    BY ParametersAssumption DEF ParametersInv, ListInv
  <2>3. DOMAIN u = 1..(Len(s) + Len(t))
    BY <2>2, Joined, Zenon
  <2>4. \A i \in 1..Len(t) : t[i].name # <<"srcSecret">> /\ t[i].name # <<"dstSecret">>
    BY <2>2 DEF TypeSetsNoFlag
  <2> HIDE DEF s, u
  <2>5. /\ 5 \in 1..Len(s) /\ 6 \in 1..Len(s)
        /\ 5 \in DOMAIN u /\ 6 \in DOMAIN u /\ DOMAIN u \subseteq Nat
    BY <2>2, <2>3
  <2>6. FlagAt(u, 5, <<"srcSecret">>, aw.srcSecretRef)
    BY <2>2, <2>4, <2>5, FlagStays, Zenon DEF u
  <2>7. FlagAt(u, 6, <<"dstSecret">>, aw.dstSecretRef)
    BY <2>2, <2>4, <2>5, FlagStays, Zenon DEF u
  <2>8. LastValue(u, <<"srcSecret">>) = u[5].value /\ u[5].value = Flag(aw.srcSecretRef)
    BY <2>5, <2>6, LastIs DEF FlagAt, Parameter
  <2>9. LastValue(u, <<"dstSecret">>) = u[6].value /\ u[6].value = Flag(aw.dstSecretRef)
    BY <2>5, <2>7, LastIs DEF FlagAt, Parameter
  <2> QED
    BY <2>1, <2>8, <2>9
<1> QED
  BY <1>1, ParametersInvariant, PTL
=============================================================================
