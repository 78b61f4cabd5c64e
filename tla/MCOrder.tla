------------------------------- MODULE MCOrder -------------------------------
(***************************************************************************)
(* Instances of OrderController for TLC.                                   *)
(***************************************************************************)
EXTENDS OrderRefinement

CONSTANT e                 \* an Endpoint
CONSTANTS x, y, z          \* raw artifact specs; z is not parsable
CONSTANTS u, v             \* URLs

\* An artifact that takes both Endpoints from the defaults of its Order, and
\* one that names its own.
Plain(raw) == [type |-> "oci", raw |-> raw, src |-> NoRef, dst |-> NoRef]
Explicit(raw) == [Plain(raw) EXCEPT !.src = e, !.dst = e]

Spec1(artifacts) == [src |-> e, dst |-> e, artifacts |-> artifacts]

MCTypes == {"oci"}

OneOrNone == {Spec1(<<Plain(x)>>), Spec1(<<>>)}
OneOfTwoOrBroken == {Spec1(<<Plain(x)>>), Spec1(<<Plain(y)>>), Spec1(<<Plain(x), Plain(z)>>)}
OneOfTwo == {Spec1(<<Plain(x)>>), Spec1(<<Plain(y)>>)}
Pair == {Spec1(<<Plain(x), Explicit(y), Explicit(x)>>)}
Swapped == {Spec1(<<Plain(x), Plain(y)>>), Spec1(<<Plain(y), Plain(x)>>)}

AllAt(url, ref) == [n \in Endpoints |-> [generation |-> 0, url |-> url, secretRef |-> ref]]

NoSecrets == {[endpoints |-> AllAt(u, NoRef), secrets |-> {}]}

\* The Endpoint of the Order is missing at first.
Incomplete == NoSecrets \union
  {[endpoints |-> [n \in Endpoints |-> Absent], secrets |-> {}]}

\* The Endpoint of the Order is given a Secret, or loses it.
Credentials == {[endpoints |-> AllAt(u, r), secrets |-> Secrets] : r \in SecretRefs}

\* The Endpoint of the Order is moved.
Moves == {[endpoints |-> AllAt(url, NoRef), secrets |-> {}] : url \in URLs}

BriefPhases == {"Succeeded"}
=============================================================================
