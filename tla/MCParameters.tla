---------------------------- MODULE MCParameters ----------------------------
(***************************************************************************)
(* Instances of WorkflowParameters for TLC.                                *)
(***************************************************************************)
EXTENDS WorkflowParameters, FiniteSets

\* The most leaves of a spec.
MCLeaves == 3

\* Keys that differ in case, a list "b" and a key "b0", maps within the maps "a"
\* and "A", and the empty key at the top and below.
MCPaths ==
  {<<<<"a">>>>, <<<<"A">>>>, <<<<"b">>>>, <<<<"b", "0">>>>, <<<<>>>>,
   <<<<"a">>, <<"b">>>>, <<<<"A">>, <<"b">>>>, <<<<"a", "B">>>>, <<<<"a">>, <<>>>>}

\* "b" is a list with a null; the text of a leaf tells it from the others.  At "a"
\* and at the empty key there may be a map without entries.
MCValues(path) ==
  IF path = <<<<"b">>>>
  THEN {[list |-> TRUE, items |-> <<"first", Null>>]}
  ELSE {[list |-> FALSE, items |-> <<ToString(path)>>]}
         \union (IF path \in {<<<<"a">>>>, <<<<>>>>} THEN {EmptyMap} ELSE {})

\* No path goes on behind a value.
MCShapes ==
  {S \in SUBSET MCPaths : Cardinality(S) <= MCLeaves /\ \A p, q \in S : ~IsStrictPrefix(p, q)}

MCSpecs ==
  UNION {{spec \in [S -> UNION {MCValues(p) : p \in S}] : \A p \in S : spec[p] \in MCValues(p)} :
           S \in MCShapes}
    \union {Malformed}

MCEndpoints ==
  {[type |-> "oci", remoteURL |-> "url", secretRef |-> "secret"],
   [type |-> "s3", remoteURL |-> "url", secretRef |-> NoRef]}

\* "specB0" is also the name of leaves.
MCTypeParameters ==
  <<Parameter(<<"spec", "B", "0">>, "fixed"), Parameter(<<"srcType">>, "fixed")>>
=============================================================================
