----------------------- MODULE ObjectHistoryTheorems -----------------------
(***************************************************************************)
(* What writing to and delivering from a history does to the stored and to *)
(* the cached version.  Both controllers' proofs rest on these facts.      *)
(***************************************************************************)
EXTENDS ObjectHistory, TLAPS

\* A non-empty history of versions from S, as the type invariants state it.
IsHistory(h, S) == h \in Seq(S) /\ h # <<>>

\* The stored and the cached version are versions.
LEMMA HistoryEnds ==
  ASSUME NEW S, NEW h, IsHistory(h, S)
  PROVE  /\ Len(h) \in Nat \ {0}
         /\ Stored(h) \in S
         /\ Cached(h) \in S
         /\ InSync(h) => Cached(h) = Stored(h)
BY DEF IsHistory, Stored, Cached, InSync

\* Appending a version stores it and leaves the cache as it is.
LEMMA AppendVersion ==
  ASSUME NEW S, NEW h, IsHistory(h, S), NEW v \in S
  PROVE  /\ IsHistory(Append(h, v), S)
         /\ Len(Append(h, v)) = Len(h) + 1
         /\ Stored(Append(h, v)) = v
         /\ Cached(Append(h, v)) = Cached(h)
         /\ \A i \in 1..Len(h) : Append(h, v)[i] = h[i]
BY DEF IsHistory, Stored, Cached

\* A write stores its version whether or not it changes the object.
LEMMA WriteVersion ==
  ASSUME NEW S, NEW h, IsHistory(h, S), NEW v \in S
  PROVE  /\ IsHistory(Write(h, v), S)
         /\ Stored(Write(h, v)) = v
         /\ Cached(Write(h, v)) = Cached(h)
         /\ Write(h, v) \in {h, Append(h, v)}
BY AppendVersion DEF Write

\* A delivered event moves the cache on by one version and stores nothing.
LEMMA DeliverVersion ==
  ASSUME NEW S, NEW h, IsHistory(h, S), ~InSync(h)
  PROVE  /\ IsHistory(Tail(h), S)
         /\ Len(Tail(h)) = Len(h) - 1
         /\ Stored(Tail(h)) = Stored(h)
         /\ Cached(Tail(h)) = h[2]
         /\ \A i \in 1..Len(Tail(h)) : Tail(h)[i] = h[i + 1]
<1>1. Len(h) \in Nat /\ Len(h) > 1
  BY DEF IsHistory, InSync
<1>2. Tail(h) \in Seq(S) /\ Len(Tail(h)) = Len(h) - 1
  BY <1>1 DEF IsHistory
<1>3. \A i \in 1..Len(Tail(h)) : Tail(h)[i] = h[i + 1]
  BY <1>1 DEF IsHistory
<1>4. IsHistory(Tail(h), S)
  <2>1. ASSUME NEW t \in Seq(S), Len(t) # 0 PROVE IsHistory(t, S)
    BY <2>1 DEF IsHistory
  <2>2. Len(Tail(h)) # 0
    BY <1>1, <1>2
  <2> QED
    BY <1>2, <2>1, <2>2
<1>5. Tail(h)[Len(Tail(h))] = h[Len(h)]
  BY <1>1, <1>2, <1>3
<1>6. Tail(h)[1] = h[2]
  BY <1>1, <1>2, <1>3
<1> QED
  BY <1>2, <1>3, <1>4, <1>5, <1>6 DEF Stored, Cached
=============================================================================
