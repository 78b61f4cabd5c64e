----------------------- MODULE ArtifactWorkflowProofs -----------------------
(***************************************************************************)
(* Proofs about ArtifactWorkflowController, for any names and owners, any  *)
(* lag of the caches and any number of failures.                           *)
(***************************************************************************)
EXTENDS ArtifactWorkflowController, ObjectHistoryTheorems

AWVersions == ArtifactWorkflow \union {Absent}

WFVersions == Workflow \union {Absent}

\* The histories are what the lemmas on histories speak of.
LEMMA Histories ==
  AWTypeOK => \A n \in Names :
                /\ IsHistory(awLog[n], AWVersions)
                /\ IsHistory(wfLog[n], WFVersions)
BY DEF AWTypeOK, IsHistory, AWVersions, WFVersions

\* Removing what is marked and has no finalizer keeps the type.
LEMMA PurgeType ==
  ASSUME NEW aw \in ArtifactWorkflow
  PROVE  Purge(aw) \in AWVersions
BY DEF Purge, AWVersions

\* Deleting an object of a history leaves a history.
LEMMA DeleteType ==
  ASSUME NEW h, IsHistory(h, AWVersions)
  PROVE  /\ IsHistory(Delete(h), AWVersions)
         /\ Cached(Delete(h)) = Cached(h)
<1>1. CASE ~Exists(h)
  BY <1>1 DEF Delete
<1>2. CASE Exists(h)
  <2> DEFINE marked == [Stored(h) EXCEPT !.deleting = TRUE]
  <2>1. Stored(h) \in ArtifactWorkflow
    BY <1>2, HistoryEnds DEF Exists, AWVersions
  <2>2. marked \in ArtifactWorkflow
    BY <2>1 DEF ArtifactWorkflow
  <2>3. Purge(marked) \in AWVersions
    BY <2>2, PurgeType
  <2> QED
    BY <1>2, <2>3, WriteVersion DEF Delete
<1> QED
  BY <1>1, <1>2

-----------------------------------------------------------------------------
(* Type correctness *)

\* A reconcile begins with a copy of the cached ArtifactWorkflow.
LEMMA BeginsWithCopy ==
  ASSUME AWTypeOK, NEW n \in Names, Reconcile(n), awRec' # Idle
  PROVE  /\ awRec' \in Busy
         /\ awRec'.name = n /\ awRec'.current
         /\ awRec'.aw = Cached(awLog[n]) /\ Cached(awLog[n]) # Absent
         /\ awRec'.pc = FirstCall(Cached(awLog[n]), n \in ready)
<1> DEFINE aw == Cached(awLog[n])
           pc == FirstCall(aw, n \in ready)
<1>1. awRec' = [pc |-> pc, name |-> n, aw |-> aw, current |-> TRUE]
      /\ pc \notin {"return", "fail"}
  BY DEF Reconcile
<1>2. aw # Absent
  BY <1>1 DEF FirstCall
<1>3. aw \in ArtifactWorkflow
  BY <1>2, Histories, HistoryEnds DEF AWVersions
<1>4. pc \in {"deleteWorkflow", "addFinalizer", "createWorkflow", "getWorkflow"}
  BY <1>1 DEF FirstCall
<1> QED
  BY <1>1, <1>2, <1>3, <1>4 DEF Busy

\* An update keeps the types.
LEMMA UpdateType ==
  ASSUME AWTypeOK, awRec \in Busy, NEW obj \in ArtifactWorkflow, Update(obj)
  PROVE  /\ awLog' \in [Names -> Seq(AWVersions)]
         /\ \A n \in Names : awLog'[n] # <<>>
         /\ awQueue' \subseteq Names
         /\ awRec' = Idle
<1>1. awRec.name \in Names
  BY DEF Busy
<1>2. IsHistory(Write(awLog[awRec.name], Purge(obj)), AWVersions)
  BY <1>1, Histories, PurgeType, WriteVersion
<1> QED
  BY <1>1, <1>2 DEF AWTypeOK, Update, Done, Retry, IsHistory, AWVersions

\* Every step of AWNext keeps the types.
LEMMA TypeInductive == AWTypeOK /\ [AWNext]_awVars => AWTypeOK'
<1> SUFFICES ASSUME AWTypeOK, [AWNext]_awVars PROVE AWTypeOK'
  OBVIOUS
<1> USE BoundAssumption
<1>1. ASSUME NEW n \in Names, Reconcile(n) PROVE AWTypeOK'
  BY <1>1, BeginsWithCopy DEF Reconcile, AWTypeOK
<1>2. CASE DeleteWorkflow
  <2>1. awRec \in Busy
    BY <1>2 DEF AWTypeOK, DeleteWorkflow, Idle
  <2>2. IsHistory(Write(wfLog[awRec.name], Absent), WFVersions)
    BY <2>1, Histories, WriteVersion DEF Busy, WFVersions
  <2>3. awRec' \in {Idle} \union Busy
    BY <1>2, <2>1 DEF DeleteWorkflow, Done, Busy
  <2> QED
    BY <1>2, <2>1, <2>2, <2>3 DEF AWTypeOK, DeleteWorkflow, Done, IsHistory, WFVersions, Busy
<1>3. CASE RemoveFinalizer
  <2>1. awRec \in Busy
    BY <1>3 DEF AWTypeOK, RemoveFinalizer, Idle
  <2>2. [awRec.aw EXCEPT !.finalizer = FALSE] \in ArtifactWorkflow
    BY <2>1 DEF Busy, ArtifactWorkflow
  <2> QED
    BY <1>3, <2>1, <2>2, UpdateType DEF AWTypeOK, RemoveFinalizer, AWVersions
<1>4. CASE AddFinalizer
  <2>1. awRec \in Busy
    BY <1>4 DEF AWTypeOK, AddFinalizer, Idle
  <2>2. [awRec.aw EXCEPT !.finalizer = TRUE] \in ArtifactWorkflow
    BY <2>1 DEF Busy, ArtifactWorkflow
  <2> QED
    BY <1>4, <2>1, <2>2, UpdateType DEF AWTypeOK, AddFinalizer, AWVersions
<1>5. CASE CreateWorkflow
  <2>1. awRec \in Busy
    BY <1>5 DEF AWTypeOK, CreateWorkflow, Idle
  <2>2. [phase |-> WorkflowUnknown] \in WFVersions
    BY DEF WFVersions, Workflow, Phases
  <2>3. IsHistory(Append(wfLog[awRec.name], [phase |-> WorkflowUnknown]), WFVersions)
    BY <2>1, <2>2, Histories, AppendVersion DEF Busy
  <2>4. awRec' \in Busy
    BY <1>5, <2>1 DEF CreateWorkflow, Busy, ArtifactWorkflow, Phases
  <2> QED
    BY <1>5, <2>1, <2>3, <2>4 DEF AWTypeOK, CreateWorkflow, IsHistory, WFVersions, Busy
<1>6. CASE GetWorkflow
  <2>1. awRec \in Busy
    BY <1>6 DEF AWTypeOK, GetWorkflow, Idle
  <2>2. CASE Cached(wfLog[awRec.name]) = Absent
    BY <1>6, <2>1, <2>2 DEF AWTypeOK, GetWorkflow, Retry, Busy
  <2>3. CASE Cached(wfLog[awRec.name]) # Absent
    <3>1. Cached(wfLog[awRec.name]) \in Workflow
      BY <2>1, <2>3, Histories, HistoryEnds DEF Busy, WFVersions
    <3>2. Cached(wfLog[awRec.name]).phase \in Phases
      BY <3>1 DEF Workflow
    <3>3. awRec' = [awRec EXCEPT !.pc = "updateStatus",
                                 !.aw.phase = Cached(wfLog[awRec.name]).phase]
      BY <1>6, <2>3 DEF GetWorkflow
    <3>4. awRec' \in Busy
      BY <2>1, <3>2, <3>3 DEF Busy, ArtifactWorkflow
    <3> QED
      BY <1>6, <2>3, <3>4 DEF AWTypeOK, GetWorkflow
  <2> QED
    BY <2>2, <2>3
<1>7. CASE UpdateStatus
  <2>1. awRec \in Busy
    BY <1>7 DEF AWTypeOK, UpdateStatus, Idle
  <2>2. awRec.aw \in ArtifactWorkflow
    BY <2>1 DEF Busy
  <2> QED
    BY <1>7, <2>1, <2>2, UpdateType DEF AWTypeOK, UpdateStatus, AWVersions
<1>8. CASE AWFail
  BY <1>8 DEF AWTypeOK, AWFail, Retry, Busy
<1>9. CASE AWCrash
  BY <1>9 DEF AWTypeOK, AWCrash
<1>10. ASSUME NEW n \in Names, DeliverArtifactWorkflow(n) PROVE AWTypeOK'
  <2>1. IsHistory(Tail(awLog[n]), AWVersions)
    BY <1>10, Histories, DeliverVersion DEF DeliverArtifactWorkflow
  <2>2. awRec' \in {Idle} \union Busy
    BY <1>10 DEF AWTypeOK, DeliverArtifactWorkflow, Outdated, Busy
  <2> QED
    BY <1>10, <2>1, <2>2 DEF AWTypeOK, DeliverArtifactWorkflow, IsHistory, AWVersions
<1>11. ASSUME NEW n \in Names, DeliverWorkflow(n) PROVE AWTypeOK'
  <2>1. IsHistory(Tail(wfLog[n]), WFVersions)
    BY <1>11, Histories, DeliverVersion DEF DeliverWorkflow
  <2> QED
    BY <1>11, <2>1 DEF AWTypeOK, DeliverWorkflow, IsHistory, WFVersions
<1>12. ASSUME NEW n \in Names, Resync(n) PROVE AWTypeOK'
  BY <1>12 DEF AWTypeOK, Resync
<1>13. ASSUME NEW n \in Names, NEW o \in Owners, EnvCreate(n, o) PROVE AWTypeOK'
  <2>1. NewArtifactWorkflow(o) \in AWVersions
    BY DEF NewArtifactWorkflow, AWVersions, ArtifactWorkflow, Phases
  <2>2. IsHistory(Append(awLog[n], NewArtifactWorkflow(o)), AWVersions)
    BY <2>1, Histories, AppendVersion
  <2> QED
    BY <1>13, <2>2 DEF AWTypeOK, EnvCreate, IsHistory, AWVersions
<1>14. ASSUME NEW n \in Names, EnvDelete(n) PROVE AWTypeOK'
  <2>1. IsHistory(Delete(awLog[n]), AWVersions)
    BY Histories, DeleteType
  <2> QED
    BY <1>14, <2>1 DEF AWTypeOK, EnvDelete, IsHistory, AWVersions
<1>15. ASSUME NEW n \in Names, ArgoStep(n) PROVE AWTypeOK'
  <2>1. PICK p \in Phases : wfLog' = [wfLog EXCEPT ![n] = Append(@, [phase |-> p])]
    BY <1>15 DEF ArgoStep
  <2>2. IsHistory(Append(wfLog[n], [phase |-> p]), WFVersions)
    BY Histories, AppendVersion DEF WFVersions, Workflow
  <2> QED
    BY <1>15, <2>1, <2>2 DEF AWTypeOK, ArgoStep, IsHistory, WFVersions
<1>16. ASSUME NEW n \in Names, Provide(n) \/ Withdraw(n) PROVE AWTypeOK'
  BY <1>16 DEF AWTypeOK, Provide, Withdraw
<1>17. CASE UNCHANGED awVars
  BY <1>17 DEF AWTypeOK, awVars
<1> QED
  BY <1>1, <1>2, <1>3, <1>4, <1>5, <1>6, <1>7, <1>8, <1>9, <1>10, <1>11, <1>12,
     <1>13, <1>14, <1>15, <1>16, <1>17 DEF AWNext, AWWorker

\* The variables start with their types.
LEMMA AWTypeInit == AWInit => AWTypeOK
BY BoundAssumption DEF AWInit, AWTypeOK

\* The variables of the ArtifactWorkflow controller keep their types.
THEOREM AWTypeCorrect == AWSpec => []AWTypeOK
BY AWTypeInit, TypeInductive, PTL DEF AWSpec

-----------------------------------------------------------------------------
(* The inductive invariant *)

HasFinalizer(aw) == aw # Absent /\ aw.finalizer

Live(aw) == HasFinalizer(aw) /\ ~aw.deleting

\* An ArtifactWorkflow has a finalizer before it has a phase, and is not found
\* marked for deletion without one.
Version(aw) == aw # Absent /\ ~aw.finalizer => ~aw.deleting /\ aw.phase = WorkflowUnknown

\* What the cache shows of a name is never further from the stored version
\* than this: a live version, however old, means that the stored one still
\* has the finalizer; and nothing before a live version was gone or going.
HistoryInv(h) ==
  /\ \A i \in 1..Len(h) : Version(h[i])
  /\ \A i, j \in 1..Len(h) : i <= j =>
       /\ Live(h[i]) => HasFinalizer(h[j])
       /\ Live(h[j]) => h[i] # Absent /\ ~h[i].deleting

\* A current working copy is the cached version, but for the new phase.
CopyInv(rec, h) ==
  rec.current =>
    /\ Cached(h) # Absent
    /\ rec.aw = [Cached(h) EXCEPT !.phase = rec.aw.phase]
    /\ rec.pc # "updateStatus" => rec.aw = Cached(h)

\* What a reconcile has found out still holds at its next call, although the
\* stored ArtifactWorkflow may have changed since the copy was read.
CallInv(rec, h, wf) ==
  /\ rec.pc \in {"deleteWorkflow", "removeFinalizer"} => rec.aw.deleting /\ ~Live(Stored(h))
  /\ rec.pc = "removeFinalizer" => Stored(wf) = Absent
  /\ rec.pc = "addFinalizer" => ~rec.aw.finalizer /\ ~rec.aw.deleting
  /\ rec.pc \in {"createWorkflow", "getWorkflow", "updateStatus"} =>
       /\ Live(rec.aw)
       /\ HasFinalizer(Stored(h))
       /\ rec.current => ~Completed(Cached(h).phase)
  /\ rec.pc \in {"getWorkflow", "updateStatus"} /\ Live(Stored(h)) => Exists(wf)

\* A live version with a phase is in the cache or on its way.
Phased(h) == \E i \in 1..Len(h) : Live(h[i]) /\ h[i].phase # WorkflowUnknown

\* A Workflow has an ArtifactWorkflow with a finalizer, and every phase that
\* is or will be in the cache of a live one has a Workflow.
WorkflowInv(h, wf) ==
  /\ Exists(wf) => HasFinalizer(Stored(h))
  /\ Live(Stored(h)) /\ Phased(h) => Exists(wf)

\* The working copy, the cache and the two stored objects of a name agree at
\* every step of a reconcile as far as its next API call relies on it.
AWInv ==
  /\ \A n \in Names : HistoryInv(awLog[n]) /\ WorkflowInv(awLog[n], wfLog[n])
  /\ awRec # Idle => /\ CopyInv(awRec, awLog[awRec.name])
                     /\ CallInv(awRec, awLog[awRec.name], wfLog[awRec.name])

-----------------------------------------------------------------------------
(* The invariant is inductive *)

\* A delivered event.
LEMMA DeliverInv ==
  ASSUME NEW h, IsHistory(h, AWVersions), HistoryInv(h), ~InSync(h)
  PROVE  /\ HistoryInv(Tail(h))
         /\ Phased(Tail(h)) => Phased(h)
<1> DEFINE t == Tail(h)
<1>1. /\ Len(h) \in Nat /\ Len(t) = Len(h) - 1
      /\ \A i \in 1..Len(t) : i + 1 \in 1..Len(h) /\ t[i] = h[i + 1]
  BY DeliverVersion, HistoryEnds
<1> HIDE DEF t
<1>2. HistoryInv(t)
  <2>1. \A i \in 1..Len(t) : Version(t[i])
    BY <1>1 DEF HistoryInv
  <2>2. ASSUME NEW i \in 1..Len(t), NEW j \in 1..Len(t), i <= j
        PROVE  /\ Live(t[i]) => HasFinalizer(t[j])
               /\ Live(t[j]) => t[i] # Absent /\ ~t[i].deleting
    <3>1. i + 1 \in 1..Len(h) /\ j + 1 \in 1..Len(h) /\ i + 1 <= j + 1
      BY <1>1, <2>2
    <3> QED
      BY <1>1, <3>1 DEF HistoryInv
  <2> QED
    BY <2>1, <2>2 DEF HistoryInv
<1>3. Phased(t) => Phased(h)
  BY <1>1 DEF Phased
<1> QED
  BY <1>2, <1>3 DEF t

\* A new version at the end.
LEMMA AppendInv ==
  ASSUME NEW h, IsHistory(h, AWVersions), HistoryInv(h),
         NEW v \in AWVersions, Version(v),
         \A i \in 1..Len(h) : /\ Live(h[i]) => HasFinalizer(v)
                              /\ Live(v) => h[i] # Absent /\ ~h[i].deleting
  PROVE  /\ HistoryInv(Append(h, v))
         /\ Phased(Append(h, v)) => Phased(h) \/ (Live(v) /\ v.phase # WorkflowUnknown)
<1> DEFINE t == Append(h, v)
<1>1. /\ Len(h) \in Nat /\ Len(t) = Len(h) + 1
      /\ t[Len(t)] = v
      /\ \A i \in 1..Len(h) : t[i] = h[i]
  BY AppendVersion, HistoryEnds DEF Stored
<1> HIDE DEF t
<1>2. ASSUME NEW i \in 1..Len(t)
      PROVE  (i \in 1..Len(h) /\ t[i] = h[i]) \/ t[i] = v
  <2>1. CASE i = Len(t)
    BY <1>1, <2>1
  <2>2. CASE i # Len(t)
    <3>1. i \in 1..Len(h)
      BY <1>1, <2>2
    <3> QED
      BY <1>1, <3>1
  <2> QED
    BY <2>1, <2>2
<1>3. HistoryInv(t)
  <2>1. \A i \in 1..Len(t) : Version(t[i])
    BY <1>2 DEF HistoryInv
  <2>2. ASSUME NEW i \in 1..Len(t), NEW j \in 1..Len(t), i <= j
        PROVE  /\ Live(t[i]) => HasFinalizer(t[j])
               /\ Live(t[j]) => t[i] # Absent /\ ~t[i].deleting
    <3>1. CASE j \in 1..Len(h)
      <4>1. i \in 1..Len(h)
        BY <1>1, <2>2, <3>1
      <4> QED
        BY <1>1, <2>2, <3>1, <4>1 DEF HistoryInv
    <3>2. CASE t[j] = v /\ i \in 1..Len(h) /\ t[i] = h[i]
      BY <3>2
    <3>3. CASE t[j] = v /\ t[i] = v
      BY <3>3 DEF Live, HasFinalizer
    <3> QED
      BY <1>2, <3>1, <3>2, <3>3
  <2> QED
    BY <2>1, <2>2 DEF HistoryInv
<1>4. ASSUME Phased(t) PROVE Phased(h) \/ (Live(v) /\ v.phase # WorkflowUnknown)
  <2>1. PICK i \in 1..Len(t) : Live(t[i]) /\ t[i].phase # WorkflowUnknown
    BY <1>4 DEF Phased
  <2> QED
    BY <1>2, <2>1 DEF Phased
<1> QED
  BY <1>3, <1>4 DEF t

\* An update of an object whose cache is up to date.
LEMMA WriteInv ==
  ASSUME NEW h, IsHistory(h, AWVersions), HistoryInv(h), InSync(h),
         NEW v \in AWVersions, Version(v),
         Live(Cached(h)) => HasFinalizer(v),
         Live(v) => Cached(h) # Absent /\ ~Cached(h).deleting
  PROVE  /\ HistoryInv(Write(h, v))
         /\ Stored(Write(h, v)) = v
         /\ Phased(Write(h, v)) => Phased(h) \/ (Live(v) /\ v.phase # WorkflowUnknown)
<1>1. \A i \in 1..Len(h) : h[i] = Cached(h)
  BY DEF InSync, Cached
<1>2. /\ HistoryInv(Append(h, v))
      /\ Phased(Append(h, v)) => Phased(h) \/ (Live(v) /\ v.phase # WorkflowUnknown)
  BY <1>1, AppendInv
<1>3. Write(h, v) \in {h, Append(h, v)} /\ Stored(Write(h, v)) = v
  BY WriteVersion
<1> QED
  BY <1>2, <1>3

\* An object is deleted: the finalizer and the Workflow stay.
LEMMA DeleteInv ==
  ASSUME NEW h, IsHistory(h, AWVersions), HistoryInv(h)
  PROVE  /\ HistoryInv(Delete(h))
         /\ ~Live(Stored(Delete(h)))
         /\ HasFinalizer(Stored(h)) <=> HasFinalizer(Stored(Delete(h)))
<1>1. CASE ~Exists(h)
  BY <1>1 DEF Delete, Exists, Live, HasFinalizer
<1>2. CASE Exists(h)
  <2> DEFINE s == Stored(h)
             v == Purge([s EXCEPT !.deleting = TRUE])
  <2>1. s \in ArtifactWorkflow /\ s = h[Len(h)] /\ Len(h) \in 1..Len(h)
    BY <1>2, HistoryEnds DEF Exists, AWVersions, Stored
  <2>2. [s EXCEPT !.deleting = TRUE] \in ArtifactWorkflow
    BY <2>1 DEF ArtifactWorkflow
  <2>3. v \in AWVersions
    BY <2>2, PurgeType
  <2>4. /\ Version(v) /\ ~Live(v)
        /\ HasFinalizer(s) <=> HasFinalizer(v)
    BY <1>2, <2>1, <2>2, AbsentAssumption
    DEF ArtifactWorkflow, Purge, Version, Live, HasFinalizer, Exists
  <2>5. \A i \in 1..Len(h) : Live(h[i]) => HasFinalizer(v)
    BY <2>1, <2>4 DEF HistoryInv
  <2> HIDE DEF v
  <2>6. HistoryInv(Append(h, v))
    BY <2>3, <2>4, <2>5, AppendInv
  <2>7. Delete(h) = Write(h, v)
    BY <1>2 DEF Delete, v
  <2>8. Write(h, v) \in {h, Append(h, v)} /\ Stored(Write(h, v)) = v
    BY <2>3, WriteVersion
  <2> QED
    BY <2>4, <2>6, <2>7, <2>8
<1> QED
  BY <1>1, <1>2

\* A step touches the histories of one name only.
LEMMA OneName ==
  ASSUME AWTypeOK, AWInv, NEW n \in Names, NEW h, NEW w,
         awLog' = [awLog EXCEPT ![n] = h], wfLog' = [wfLog EXCEPT ![n] = w],
         HistoryInv(h), WorkflowInv(h, w),
         awRec' # Idle => CopyInv(awRec', awLog'[awRec'.name])
                          /\ CallInv(awRec', awLog'[awRec'.name], wfLog'[awRec'.name])
  PROVE  AWInv'
<1>1. ASSUME NEW m \in Names
      PROVE  HistoryInv(awLog'[m]) /\ WorkflowInv(awLog'[m], wfLog'[m])
  BY DEF AWTypeOK, AWInv
<1> QED
  BY <1>1 DEF AWInv

\* The live cached version a reconcile starts from.
LEMMA CachedInv ==
  ASSUME AWTypeOK, AWInv, NEW n \in Names
  PROVE  LET h == awLog[n] IN
         /\ Version(Cached(h))
         /\ Live(Cached(h)) => HasFinalizer(Stored(h))
         /\ Live(Stored(h)) => Cached(h) # Absent /\ ~Cached(h).deleting
         /\ Live(Cached(h)) /\ Cached(h).phase # WorkflowUnknown => Phased(h)
<1>1. 1 \in 1..Len(awLog[n]) /\ Len(awLog[n]) \in 1..Len(awLog[n]) /\ 1 <= Len(awLog[n])
  BY Histories, HistoryEnds
<1>2. HistoryInv(awLog[n])
  BY DEF AWInv
<1> QED
  BY <1>1, <1>2 DEF HistoryInv, Cached, Stored, Phased

\* A reconcile ends, and nothing was written.
LEMMA EndsInv ==
  ASSUME AWInv, awRec' = Idle, UNCHANGED <<awLog, wfLog>>
  PROVE  AWInv'
BY DEF AWInv

\* The reconcile in progress is about another name.
LEMMA OtherName ==
  ASSUME AWTypeOK, AWInv, awRec # Idle, UNCHANGED awRec, NEW n \in Names, awRec.name # n,
         NEW h, NEW w, awLog' = [awLog EXCEPT ![n] = h], wfLog' = [wfLog EXCEPT ![n] = w]
  PROVE  CopyInv(awRec', awLog'[awRec'.name])
         /\ CallInv(awRec', awLog'[awRec'.name], wfLog'[awRec'.name])
<1>1. awRec.name \in Names
  BY DEF AWTypeOK, Busy
<1> QED
  BY <1>1 DEF AWInv, AWTypeOK

\* Reconcile only reads: it keeps the invariant of the histories and of the worker.
LEMMA ReconcileInv ==
  ASSUME AWTypeOK, AWInv, NEW n \in Names, Reconcile(n)
  PROVE  AWInv'
<1> DEFINE h == awLog[n]
           c == Cached(h)
           pc == FirstCall(c, n \in ready)
<1>1. UNCHANGED <<awLog, wfLog>>
  BY DEF Reconcile
<1>2. CASE awRec' = Idle
  BY <1>1, <1>2, EndsInv
<1>3. CASE awRec' # Idle
  <2>1. /\ awRec'.name = n /\ awRec'.aw = c /\ c # Absent /\ awRec'.pc = pc
        /\ awRec' \in Busy
    BY <1>3, BeginsWithCopy
  <2>2. c \in ArtifactWorkflow
    BY <2>1 DEF Busy
  <2>3. /\ Version(c)
        /\ Live(c) => HasFinalizer(Stored(h))
        /\ Live(Stored(h)) => ~c.deleting
        /\ Live(c) /\ c.phase # WorkflowUnknown => Phased(h)
    BY CachedInv
  <2>4. WorkflowInv(h, wfLog[n])
    BY DEF AWInv
  <2>5. pc # "updateStatus" /\ pc # "removeFinalizer"
    BY DEF FirstCall
  <2>6. CopyInv(awRec', h)
    BY <2>1, <2>2 DEF CopyInv, ArtifactWorkflow
  <2>7. pc = "deleteWorkflow" => c.deleting
    BY <2>1 DEF FirstCall
  <2>8. pc = "addFinalizer" => ~c.finalizer /\ ~c.deleting
    BY <2>1 DEF FirstCall
  <2>9. pc \in {"createWorkflow", "getWorkflow"} => Live(c) /\ ~Completed(c.phase)
    BY <2>1 DEF FirstCall, Live, HasFinalizer
  <2>10. pc = "getWorkflow" => c.phase # WorkflowUnknown
    BY <2>1 DEF FirstCall
  <2> HIDE DEF pc, c, h
  <2>11. CallInv(awRec', h, wfLog[n])
    BY <2>1, <2>3, <2>4, <2>5, <2>7, <2>8, <2>9, <2>10 DEF CallInv, WorkflowInv, c
  <2> QED
    BY <1>1, <2>1, <2>6, <2>11 DEF AWInv, h
<1> QED
  BY <1>2, <1>3

\* An update of the working copy, provided that what it writes fits what is
\* known of the cached version and of the Workflow.
LEMMA UpdateInv ==
  ASSUME AWTypeOK, AWInv, awRec \in Busy, NEW obj \in ArtifactWorkflow,
         Update(obj), UNCHANGED wfLog,
         Version(Purge(obj)),
         awRec.current /\ InSync(awLog[awRec.name]) =>
           LET c == Cached(awLog[awRec.name]) IN
           /\ Live(c) => HasFinalizer(Purge(obj))
           /\ Live(Purge(obj)) => c # Absent /\ ~c.deleting
           /\ WorkflowInv(Write(awLog[awRec.name], Purge(obj)), wfLog[awRec.name])
  PROVE  AWInv'
<1> DEFINE n == awRec.name
           h == awLog[n]
<1>1. n \in Names
  BY DEF Busy
<1>2. awRec' = Idle
  BY DEF Update, Done, Retry
<1>3. CASE awRec.current /\ InSync(h)
  <2>1. IsHistory(h, AWVersions) /\ HistoryInv(h)
    BY <1>1, Histories DEF AWInv
  <2>2. HistoryInv(Write(h, Purge(obj)))
    BY <1>3, <2>1, PurgeType, WriteInv
  <2>3. /\ awLog' = [awLog EXCEPT ![n] = Write(h, Purge(obj))]
        /\ wfLog' = [wfLog EXCEPT ![n] = wfLog[n]]
    BY <1>1, <1>3 DEF Update, AWTypeOK
  <2>4. WorkflowInv(Write(h, Purge(obj)), wfLog[n])
    BY <1>3
  <2> HIDE DEF n, h
  <2> QED
    BY <1>1, <1>2, <2>2, <2>3, <2>4, OneName
<1>4. CASE ~(awRec.current /\ InSync(h))
  BY <1>2, <1>4, EndsInv DEF Update
<1> QED
  BY <1>3, <1>4

\* The finalizer goes only after the Workflow: the invariant survives its removal.
LEMMA RemoveFinalizerInv ==
  ASSUME AWTypeOK, AWInv, RemoveFinalizer
  PROVE  AWInv'
<1> DEFINE n == awRec.name
           h == awLog[n]
           obj == [awRec.aw EXCEPT !.finalizer = FALSE]
<1>1. awRec \in Busy /\ awRec # Idle
  BY DEF AWTypeOK, RemoveFinalizer, Idle
<1>2. CopyInv(awRec, h) /\ CallInv(awRec, h, wfLog[n])
  BY <1>1 DEF AWInv
<1>3. awRec.aw.deleting /\ Stored(wfLog[n]) = Absent
  BY <1>2 DEF CallInv, RemoveFinalizer
<1>4. obj \in ArtifactWorkflow /\ Purge(obj) = Absent
  BY <1>1, <1>3 DEF Busy, ArtifactWorkflow, Purge
<1>5. IsHistory(h, AWVersions)
  BY <1>1, Histories DEF Busy
<1>6. Stored(Write(h, Absent)) = Absent
  BY <1>5, WriteVersion DEF AWVersions
<1>7. ~Live(Absent) /\ Version(Absent)
  BY DEF Live, HasFinalizer, Version
<1>8. WorkflowInv(Write(h, Absent), wfLog[n])
  BY <1>3, <1>6, <1>7 DEF WorkflowInv, Exists
<1>9. awRec.current => ~Live(Cached(h))
  BY <1>1, <1>2, <1>3 DEF CopyInv, RemoveFinalizer, Live
<1> QED
  BY <1>1, <1>4, <1>7, <1>8, <1>9, UpdateInv DEF RemoveFinalizer

\* The update that adds the finalizer keeps the invariant.
LEMMA AddFinalizerInv ==
  ASSUME AWTypeOK, AWInv, AddFinalizer
  PROVE  AWInv'
<1> DEFINE n == awRec.name
           h == awLog[n]
           c == Cached(h)
           obj == [awRec.aw EXCEPT !.finalizer = TRUE]
<1>1. awRec \in Busy /\ awRec # Idle
  BY DEF AWTypeOK, AddFinalizer, Idle
<1>2. CopyInv(awRec, h) /\ CallInv(awRec, h, wfLog[n])
  BY <1>1 DEF AWInv
<1>3. ~awRec.aw.deleting /\ ~awRec.aw.finalizer
  BY <1>2 DEF CallInv, AddFinalizer
<1>4. /\ obj \in ArtifactWorkflow /\ Purge(obj) = obj /\ obj.finalizer
      /\ ~obj.deleting /\ obj.phase = awRec.aw.phase
  BY <1>1, <1>3 DEF Busy, ArtifactWorkflow, Purge
<1>5. Version(obj) /\ HasFinalizer(obj)
  BY <1>4, AbsentAssumption DEF Version, HasFinalizer
<1>6. ASSUME awRec.current /\ InSync(h)
      PROVE  /\ c # Absent /\ ~c.deleting
             /\ WorkflowInv(Write(h, obj), wfLog[n])
  <2>1. c = awRec.aw /\ c # Absent
    BY <1>2, <1>6 DEF CopyInv, AddFinalizer
  <2>2. Version(c) /\ ~Live(c)
    BY <1>1, <1>3, <2>1, CachedInv DEF Busy, Live, HasFinalizer
  <2>3. obj.phase = WorkflowUnknown
    BY <1>3, <1>4, <2>1, <2>2 DEF Version
  <2>4. IsHistory(h, AWVersions) /\ HistoryInv(h) /\ WorkflowInv(h, wfLog[n])
    BY <1>1, Histories DEF AWInv, Busy
  <2>5. ~Phased(h)
    BY <1>6, <2>2 DEF Phased, InSync, Cached
  <2>6. /\ Stored(Write(h, obj)) = obj
        /\ Phased(Write(h, obj)) => Phased(h) \/ (Live(obj) /\ obj.phase # WorkflowUnknown)
    BY <1>3, <1>4, <1>5, <1>6, <2>1, <2>4, WriteInv DEF AWVersions
  <2> QED
    BY <1>3, <1>5, <2>1, <2>3, <2>4, <2>5, <2>6 DEF WorkflowInv
<1> QED
  BY <1>1, <1>4, <1>5, <1>6, UpdateInv DEF AddFinalizer

\* The status update keeps the invariant.
LEMMA UpdateStatusInv ==
  ASSUME AWTypeOK, AWInv, UpdateStatus
  PROVE  AWInv'
<1> DEFINE n == awRec.name
           h == awLog[n]
           c == Cached(h)
           obj == awRec.aw
<1>1. awRec \in Busy /\ awRec # Idle
  BY DEF AWTypeOK, UpdateStatus, Idle
<1>2. CopyInv(awRec, h) /\ CallInv(awRec, h, wfLog[n])
  BY <1>1 DEF AWInv
<1>3. Live(obj) /\ (Live(Stored(h)) => Exists(wfLog[n]))
  BY <1>2 DEF CallInv, UpdateStatus
<1>4. /\ obj \in ArtifactWorkflow /\ Purge(obj) = obj
      /\ Version(obj) /\ HasFinalizer(obj)
  BY <1>1, <1>3 DEF Busy, Purge, Version, Live, HasFinalizer
<1>5. ASSUME awRec.current /\ InSync(h)
      PROVE  /\ c # Absent /\ ~c.deleting
             /\ WorkflowInv(Write(h, obj), wfLog[n])
  <2>1. c # Absent /\ obj = [c EXCEPT !.phase = obj.phase]
    BY <1>2, <1>5 DEF CopyInv
  <2>2. IsHistory(h, AWVersions)
    BY <1>1, Histories DEF Busy
  <2>3. c \in ArtifactWorkflow /\ Stored(h) = c
    BY <1>5, <2>1, <2>2, HistoryEnds DEF AWVersions
  <2>4. c.deleting = obj.deleting /\ c.finalizer = obj.finalizer
    BY <2>1, <2>3 DEF ArtifactWorkflow
  <2>5. Live(c)
    BY <1>3, <2>1, <2>4 DEF Live, HasFinalizer
  <2>6. Stored(Write(h, obj)) = obj
    BY <1>4, <2>2, WriteVersion DEF AWVersions
  <2> QED
    BY <1>3, <1>4, <2>1, <2>3, <2>5, <2>6 DEF WorkflowInv, Live
<1> QED
  BY <1>1, <1>3, <1>4, <1>5, UpdateInv DEF UpdateStatus

\* The deletion of the Workflow keeps the invariant.
LEMMA DeleteWorkflowInv ==
  ASSUME AWTypeOK, AWInv, DeleteWorkflow
  PROVE  AWInv'
<1> DEFINE n == awRec.name
           h == awLog[n]
           w == Write(wfLog[n], Absent)
<1>1. awRec \in Busy /\ awRec # Idle /\ n \in Names
  BY DEF AWTypeOK, DeleteWorkflow, Idle, Busy
<1>2. CopyInv(awRec, h) /\ CallInv(awRec, h, wfLog[n])
  BY <1>1 DEF AWInv
<1>3. awRec.aw.deleting /\ ~Live(Stored(h))
  BY <1>2 DEF CallInv, DeleteWorkflow
<1>4. Stored(w) = Absent
  BY <1>1, Histories, WriteVersion DEF WFVersions
<1>5. awLog' = [awLog EXCEPT ![n] = h] /\ wfLog' = [wfLog EXCEPT ![n] = w]
  BY <1>1 DEF DeleteWorkflow, AWTypeOK
<1>6. awLog'[n] = h /\ wfLog'[n] = w
  BY <1>1, <1>5 DEF AWTypeOK
<1>7. HistoryInv(h) /\ WorkflowInv(h, w)
  BY <1>1, <1>3, <1>4 DEF AWInv, WorkflowInv, Exists
<1>8. ASSUME awRec' # Idle
      PROVE  awRec'.name = n /\ CopyInv(awRec', h) /\ CallInv(awRec', h, w)
  <2>1. awRec' = [awRec EXCEPT !.pc = "removeFinalizer"]
    BY <1>8 DEF DeleteWorkflow, Done
  <2>2. /\ awRec'.pc = "removeFinalizer" /\ awRec'.name = n
        /\ awRec'.aw = awRec.aw /\ awRec'.current = awRec.current
    BY <1>1, <2>1 DEF Busy
  <2> QED
    BY <1>2, <1>3, <1>4, <2>2 DEF CopyInv, CallInv, DeleteWorkflow
<1> HIDE DEF n, h, w
<1> QED
  BY <1>1, <1>5, <1>6, <1>7, <1>8, OneName

\* The creation of the Workflow keeps the invariant.
LEMMA CreateWorkflowInv ==
  ASSUME AWTypeOK, AWInv, CreateWorkflow
  PROVE  AWInv'
<1> DEFINE n == awRec.name
           h == awLog[n]
           new == [phase |-> WorkflowUnknown]
           w == IF Stored(wfLog[n]) = Absent THEN Append(wfLog[n], new) ELSE wfLog[n]
<1>1. awRec \in Busy /\ awRec # Idle /\ n \in Names
  BY DEF AWTypeOK, CreateWorkflow, Idle, Busy
<1>2. CopyInv(awRec, h) /\ CallInv(awRec, h, wfLog[n])
  BY <1>1 DEF AWInv
<1>3. /\ Live(awRec.aw) /\ HasFinalizer(Stored(h))
      /\ awRec.current => ~Completed(Cached(h).phase)
  BY <1>2 DEF CallInv, CreateWorkflow
<1>4. new \in Workflow
  BY DEF Workflow, Phases
<1>5. Stored(w) # Absent
  BY <1>1, <1>4, Histories, AppendVersion, AbsentAssumption DEF WFVersions
<1>6. awLog' = [awLog EXCEPT ![n] = h] /\ wfLog' = [wfLog EXCEPT ![n] = w]
  BY <1>1 DEF CreateWorkflow, AWTypeOK
<1>7. awLog'[n] = h /\ wfLog'[n] = w
  BY <1>1, <1>6 DEF AWTypeOK
<1>8. HistoryInv(h) /\ WorkflowInv(h, w)
  BY <1>1, <1>3, <1>5 DEF AWInv, WorkflowInv, Exists
<1>9. /\ awRec'.pc = "updateStatus" /\ awRec'.name = n
      /\ awRec'.aw = [awRec.aw EXCEPT !.phase = "Pending"]
      /\ awRec'.current = awRec.current
  BY <1>1 DEF CreateWorkflow, Busy
<1>10. CopyInv(awRec', h)
  <2>1. awRec.aw \in ArtifactWorkflow
    BY <1>1 DEF Busy
  <2>2. awRec.current => Cached(h) # Absent /\ awRec.aw = Cached(h)
    BY <1>2 DEF CopyInv, CreateWorkflow
  <2>3. awRec'.aw.phase = "Pending"
    BY <1>9, <2>1 DEF ArtifactWorkflow
  <2> QED
    BY <1>9, <2>2, <2>3 DEF CopyInv
<1>11. CallInv(awRec', h, w)
  <2>1. awRec.aw \in ArtifactWorkflow /\ "Pending" \in Phases
    BY <1>1 DEF Busy, Phases
  <2>2. /\ awRec'.aw \in ArtifactWorkflow
        /\ awRec'.aw.finalizer = awRec.aw.finalizer
        /\ awRec'.aw.deleting = awRec.aw.deleting
    BY <1>9, <2>1 DEF ArtifactWorkflow
  <2>3. Live(awRec'.aw)
    BY <1>3, <2>2, AbsentAssumption DEF Live, HasFinalizer
  <2> QED
    BY <1>3, <1>5, <1>9, <2>3 DEF CallInv, Exists
<1> HIDE DEF n, h, w
<1>12. /\ CopyInv(awRec', awLog'[awRec'.name])
       /\ CallInv(awRec', awLog'[awRec'.name], wfLog'[awRec'.name])
  BY <1>7, <1>9, <1>10, <1>11
<1> QED
  BY <1>1, <1>6, <1>8, <1>12, OneName

\* What checkArgoWorkflow reads of the Workflow keeps the invariant.
LEMMA GetWorkflowInv ==
  ASSUME AWTypeOK, AWInv, GetWorkflow
  PROVE  AWInv'
<1> DEFINE n == awRec.name
           h == awLog[n]
           w == wfLog[n]
<1>1. awRec \in Busy /\ awRec # Idle /\ n \in Names
  BY DEF AWTypeOK, GetWorkflow, Idle, Busy
<1>2. CopyInv(awRec, h) /\ CallInv(awRec, h, w)
  BY <1>1 DEF AWInv
<1>3. UNCHANGED <<awLog, wfLog>>
  BY DEF GetWorkflow
<1>4. CASE awRec' = Idle
  BY <1>3, <1>4, EndsInv
<1>5. CASE awRec' # Idle
  <2> DEFINE p == Cached(w).phase
  <2>1. awRec' = [awRec EXCEPT !.pc = "updateStatus", !.aw.phase = p]
    BY <1>5 DEF GetWorkflow, Retry
  <2> HIDE DEF p
  <2>2. /\ awRec'.pc = "updateStatus" /\ awRec'.name = n
        /\ awRec'.aw = [awRec.aw EXCEPT !.phase = p]
        /\ awRec'.current = awRec.current
    BY <1>1, <2>1 DEF Busy
  <2>3. CopyInv(awRec', h)
    <3>1. awRec.aw \in ArtifactWorkflow
      BY <1>1 DEF Busy
    <3> QED
      BY <1>2, <2>2, <3>1 DEF CopyInv, GetWorkflow, ArtifactWorkflow
  <2>4. awRec' \in Busy
    BY <1>5, TypeInductive DEF AWNext, AWWorker, AWTypeOK
  <2>5. Live(awRec'.aw)
    <3>1. Live(awRec.aw) /\ awRec'.aw \in ArtifactWorkflow
      BY <1>2, <2>4 DEF CallInv, GetWorkflow, Busy
    <3> QED
      BY <1>1, <2>2, <3>1, AbsentAssumption DEF Live, HasFinalizer, Busy, ArtifactWorkflow
  <2>6. CallInv(awRec', h, w)
    BY <1>2, <2>2, <2>5 DEF CallInv, GetWorkflow
  <2> QED
    BY <1>3, <2>2, <2>3, <2>6 DEF AWInv
<1> QED
  BY <1>4, <1>5

\* An event of the ArtifactWorkflow: a working copy of it is not current any
\* more, and what its next call relies on is about the stored versions.
LEMMA DeliverArtifactWorkflowInv ==
  ASSUME AWTypeOK, AWInv, NEW n \in Names, DeliverArtifactWorkflow(n)
  PROVE  AWInv'
<1> DEFINE h == awLog[n]
           t == Tail(h)
           w == wfLog[n]
<1>1. IsHistory(h, AWVersions) /\ HistoryInv(h) /\ WorkflowInv(h, w) /\ ~InSync(h)
  BY Histories DEF AWInv, DeliverArtifactWorkflow
<1>2. HistoryInv(t) /\ (Phased(t) => Phased(h)) /\ Stored(t) = Stored(h)
  BY <1>1, DeliverInv, DeliverVersion
<1>3. awLog' = [awLog EXCEPT ![n] = t] /\ wfLog' = [wfLog EXCEPT ![n] = w]
  BY DEF DeliverArtifactWorkflow, AWTypeOK
<1>4. awLog'[n] = t /\ wfLog'[n] = w
  BY <1>3 DEF AWTypeOK
<1> HIDE DEF h, t, w
<1>5. WorkflowInv(t, w)
  BY <1>1, <1>2 DEF WorkflowInv
<1>6. ASSUME awRec' # Idle
      PROVE  /\ CopyInv(awRec', awLog'[awRec'.name])
             /\ CallInv(awRec', awLog'[awRec'.name], wfLog'[awRec'.name])
  <2>1. awRec # Idle /\ awRec \in Busy
    BY <1>6 DEF DeliverArtifactWorkflow, Outdated, AWTypeOK
  <2>2. CASE awRec.name # n
    <3>1. UNCHANGED awRec
      BY <2>2 DEF DeliverArtifactWorkflow, Outdated
    <3> QED
      BY <1>3, <2>1, <2>2, <3>1, OtherName
  <2>3. CASE awRec.name = n
    <3>1. /\ awRec'.name = n /\ awRec'.pc = awRec.pc /\ awRec'.aw = awRec.aw
          /\ awRec'.current = FALSE
      BY <2>1, <2>3 DEF DeliverArtifactWorkflow, Outdated, Busy
    <3>2. CallInv(awRec, h, w)
      BY <2>1, <2>3 DEF AWInv, h, w
    <3>3. CallInv(awRec', t, w)
      BY <1>2, <3>1, <3>2 DEF CallInv
    <3> QED
      BY <1>4, <3>1, <3>3 DEF CopyInv
  <2> QED
    BY <2>2, <2>3
<1> QED
  BY <1>2, <1>3, <1>5, <1>6, OneName

\* Events of the Workflow and steps of Argo leave its existence alone.
LEMMA WorkflowStepInv ==
  ASSUME AWTypeOK, AWInv, NEW n \in Names, UNCHANGED <<awLog, awRec>>,
         NEW w, wfLog' = [wfLog EXCEPT ![n] = w], Exists(w) <=> Exists(wfLog[n])
  PROVE  AWInv'
<1>1. ASSUME NEW m \in Names PROVE Exists(wfLog'[m]) <=> Exists(wfLog[m])
  BY DEF AWTypeOK
<1>2. \A m \in Names : HistoryInv(awLog'[m]) /\ WorkflowInv(awLog'[m], wfLog'[m])
  BY <1>1 DEF AWInv, WorkflowInv
<1>3. ASSUME awRec # Idle
      PROVE  CallInv(awRec', awLog'[awRec'.name], wfLog'[awRec'.name])
  <2>1. awRec.name \in Names
    BY <1>3 DEF AWTypeOK, Busy
  <2> QED
    BY <1>1, <1>3, <2>1 DEF AWInv, CallInv, Exists
<1> QED
  BY <1>2, <1>3 DEF AWInv

\* A new or a deleted ArtifactWorkflow changes neither the cached version nor
\* whether the stored one has the finalizer, and makes nothing live.
LEMMA EnvironmentInv ==
  ASSUME AWTypeOK, AWInv, NEW n \in Names, UNCHANGED <<wfLog, awRec>>,
         NEW h, awLog' = [awLog EXCEPT ![n] = h],
         HistoryInv(h), Cached(h) = Cached(awLog[n]), ~Live(Stored(h)),
         HasFinalizer(Stored(awLog[n])) <=> HasFinalizer(Stored(h))
  PROVE  AWInv'
<1> DEFINE w == wfLog[n]
<1>1. wfLog' = [wfLog EXCEPT ![n] = w] /\ wfLog'[n] = w /\ awLog'[n] = h
  BY DEF AWTypeOK
<1>2. WorkflowInv(h, w)
  BY DEF AWInv, WorkflowInv
<1>3. ASSUME awRec # Idle
      PROVE  /\ CopyInv(awRec', awLog'[awRec'.name])
             /\ CallInv(awRec', awLog'[awRec'.name], wfLog'[awRec'.name])
  <2>1. CASE awRec.name # n
    BY <1>1, <1>3, <2>1, OtherName
  <2>2. CASE awRec.name = n
    <3>1. CopyInv(awRec, awLog[n]) /\ CallInv(awRec, awLog[n], w)
      BY <1>3, <2>2 DEF AWInv
    <3>2. CopyInv(awRec, h) /\ CallInv(awRec, h, w)
      BY <3>1 DEF CopyInv, CallInv
    <3> QED
      BY <1>1, <2>2, <3>2
  <2> QED
    BY <2>1, <2>2
<1> QED
  BY <1>1, <1>2, <1>3, OneName

\* The creation of the ArtifactWorkflow by the Order controller keeps the invariant.
LEMMA EnvCreateInv ==
  ASSUME AWTypeOK, AWInv, NEW n \in Names, NEW o \in Owners, EnvCreate(n, o)
  PROVE  AWInv'
<1> DEFINE h == awLog[n]
           v == NewArtifactWorkflow(o)
<1>1. IsHistory(h, AWVersions) /\ HistoryInv(h)
  BY Histories DEF AWInv
<1>2. v \in AWVersions /\ Version(v) /\ ~HasFinalizer(v) /\ ~Live(v)
  BY DEF NewArtifactWorkflow, AWVersions, ArtifactWorkflow, Phases, Version, Live, HasFinalizer
<1>3. Stored(h) = Absent /\ ~HasFinalizer(Stored(h))
  BY DEF EnvCreate, Exists, HasFinalizer
<1> HIDE DEF v
<1>4. \A i \in 1..Len(h) : ~Live(h[i])
  BY <1>1, <1>3, HistoryEnds DEF HistoryInv, Stored
<1>5. HistoryInv(Append(h, v))
  BY <1>1, <1>2, <1>4, AppendInv
<1>6. Cached(Append(h, v)) = Cached(h) /\ Stored(Append(h, v)) = v
  <2>1. IsHistory(h, AWVersions)
    BY <1>1 DEF HistoryInv
  <2>2. v \in AWVersions
    BY <1>2
  <2> HIDE DEF h, v
  <2> QED
    BY <2>1, <2>2, AppendVersion
<1>7. awLog' = [awLog EXCEPT ![n] = Append(h, v)] /\ UNCHANGED <<wfLog, awRec>>
  BY DEF EnvCreate, v
<1> QED
  BY <1>2, <1>3, <1>5, <1>6, <1>7, EnvironmentInv

\* Every step of AWNext keeps the invariant.
LEMMA AWInvInductive == AWTypeOK /\ AWInv /\ [AWNext]_awVars => AWInv'
<1> SUFFICES ASSUME AWTypeOK, AWInv, [AWNext]_awVars PROVE AWInv'
  OBVIOUS
<1>1. ASSUME NEW n \in Names, Reconcile(n) PROVE AWInv'
  BY <1>1, ReconcileInv
<1>2. CASE DeleteWorkflow
  BY <1>2, DeleteWorkflowInv
<1>3. CASE RemoveFinalizer
  BY <1>3, RemoveFinalizerInv
<1>4. CASE AddFinalizer
  BY <1>4, AddFinalizerInv
<1>5. CASE CreateWorkflow
  BY <1>5, CreateWorkflowInv
<1>6. CASE GetWorkflow
  BY <1>6, GetWorkflowInv
<1>7. CASE UpdateStatus
  BY <1>7, UpdateStatusInv
<1>8. CASE AWFail
  BY <1>8, EndsInv DEF AWFail, Retry
<1>9. CASE AWCrash
  BY <1>9, EndsInv DEF AWCrash
<1>10. ASSUME NEW n \in Names, DeliverArtifactWorkflow(n) PROVE AWInv'
  BY <1>10, DeliverArtifactWorkflowInv
<1>11. ASSUME NEW n \in Names, DeliverWorkflow(n) PROVE AWInv'
  <2>1. Stored(Tail(wfLog[n])) = Stored(wfLog[n])
    BY <1>11, Histories, DeliverVersion DEF DeliverWorkflow
  <2> QED
    BY <1>11, <2>1, WorkflowStepInv DEF DeliverWorkflow, Exists
<1>12. ASSUME NEW n \in Names, Resync(n) PROVE AWInv'
  BY <1>12 DEF Resync, AWInv
<1>13. ASSUME NEW n \in Names, NEW o \in Owners, EnvCreate(n, o) PROVE AWInv'
  BY <1>13, EnvCreateInv
<1>14. ASSUME NEW n \in Names, EnvDelete(n) PROVE AWInv'
  <2>1. IsHistory(awLog[n], AWVersions) /\ HistoryInv(awLog[n])
    BY Histories DEF AWInv
  <2> QED
    BY <1>14, <2>1, DeleteInv, DeleteType, EnvironmentInv DEF EnvDelete
<1>15. ASSUME NEW n \in Names, ArgoStep(n) PROVE AWInv'
  <2>1. PICK p \in Phases : wfLog' = [wfLog EXCEPT ![n] = Append(wfLog[n], [phase |-> p])]
    BY <1>15 DEF ArgoStep
  <2>2. [phase |-> p] \in Workflow
    BY DEF Workflow
  <2>3. Stored(Append(wfLog[n], [phase |-> p])) # Absent
    BY <2>2, Histories, AppendVersion, AbsentAssumption DEF WFVersions
  <2> QED
    BY <1>15, <2>1, <2>3, WorkflowStepInv DEF ArgoStep, Exists
<1>16. ASSUME NEW n \in Names, Provide(n) \/ Withdraw(n) PROVE AWInv'
  BY <1>16 DEF Provide, Withdraw, AWInv
<1>17. CASE UNCHANGED awVars
  BY <1>17 DEF awVars, AWInv
<1> QED
  BY <1>1, <1>2, <1>3, <1>4, <1>5, <1>6, <1>7, <1>8, <1>9, <1>10, <1>11, <1>12,
     <1>13, <1>14, <1>15, <1>16, <1>17 DEF AWNext, AWWorker

\* The invariant holds initially: no object exists.
LEMMA AWInvInit == AWInit => AWInv
<1> SUFFICES ASSUME AWInit PROVE AWInv
  OBVIOUS
<1>1. ASSUME NEW n \in Names PROVE HistoryInv(awLog[n]) /\ WorkflowInv(awLog[n], wfLog[n])
  <2>1. awLog[n] = <<Absent>> /\ wfLog[n] = <<Absent>>
    BY DEF AWInit
  <2>2. HistoryInv(<<Absent>>)
    BY DEF HistoryInv, Version, Live, HasFinalizer
  <2>3. WorkflowInv(<<Absent>>, <<Absent>>)
    BY DEF WorkflowInv, Live, HasFinalizer, Exists, Stored
  <2> QED
    BY <2>1, <2>2, <2>3
<1> QED
  BY <1>1 DEF AWInv, AWInit

\* What each step of a reconcile relies on holds at every step: the inductive
\* invariant the other theorems follow from.
THEOREM AWInvariant == AWSpec => []AWInv
BY AWInvInit, AWTypeCorrect, AWInvInductive, PTL DEF AWSpec

-----------------------------------------------------------------------------
(* Its consequences *)

\* A Workflow never outlives its ArtifactWorkflow and never belongs to one
\* without the finalizer.
THEOREM WorkflowAlwaysHasOwner == AWSpec => []WorkflowHasOwner
<1>1. AWInv => WorkflowHasOwner
  BY DEF AWInv, WorkflowInv, WorkflowHasOwner, HasFinalizer, Exists
<1> QED
  BY <1>1, AWInvariant, PTL

\* The phase of an ArtifactWorkflow that is not being deleted is backed by a
\* Workflow.
THEOREM PhaseAlwaysBacked == AWSpec => []PhaseBackedByWorkflow
<1>1. AWTypeOK /\ AWInv => PhaseBackedByWorkflow
  <2> SUFFICES ASSUME AWTypeOK, AWInv, NEW n \in Names, Exists(awLog[n]),
                      ~Stored(awLog[n]).deleting, Stored(awLog[n]).phase # WorkflowUnknown
               PROVE  Exists(wfLog[n])
    BY DEF PhaseBackedByWorkflow
  <2>1. Len(awLog[n]) \in 1..Len(awLog[n])
    BY Histories, HistoryEnds
  <2>2. Live(Stored(awLog[n]))
    BY <2>1 DEF AWInv, HistoryInv, Version, Stored, Exists, Live, HasFinalizer
  <2> QED
    BY <2>1, <2>2 DEF AWInv, WorkflowInv, Phased, Stored
<1> QED
  BY <1>1, AWTypeCorrect, AWInvariant, PTL

\* An update leaves the completed phase of an ArtifactWorkflow alone.
LEMMA UpdateKeepsResult ==
  ASSUME AWTypeOK, awRec \in Busy, NEW obj \in ArtifactWorkflow, Update(obj), NEW n \in Names,
         awRec.current /\ InSync(awLog[awRec.name]) =>
           \/ ~Completed(Stored(awLog[awRec.name]).phase)
           \/ obj.phase = Stored(awLog[awRec.name]).phase,
         Completed(Stored(awLog[n]).phase), Exists(awLog[n])'
  PROVE  Stored(awLog[n])'.phase = Stored(awLog[n]).phase
<1>1. CASE awLog'[n] = awLog[n]
  BY <1>1
<1>2. CASE awLog'[n] # awLog[n]
  <2>1. /\ awRec.current /\ InSync(awLog[n]) /\ n = awRec.name
        /\ awLog'[n] = Write(awLog[n], Purge(obj))
    BY <1>2 DEF Update, AWTypeOK
  <2>2. Stored(awLog'[n]) = Purge(obj)
    <3>1. IsHistory(awLog[n], AWVersions) /\ Purge(obj) \in AWVersions
      BY Histories, PurgeType
    <3>2. Stored(Write(awLog[n], Purge(obj))) = Purge(obj)
      BY <3>1, WriteVersion
    <3> QED
      BY <2>1, <3>2
  <2>3. Purge(obj) = obj
    BY <2>2 DEF Exists, Purge
  <2> QED
    BY <2>1, <2>2, <2>3
<1> QED
  BY <1>1, <1>2

\* No step replaces the completed phase of an ArtifactWorkflow.
THEOREM CompletedStaysFinal == AWSpec => CompletedIsFinal
<1> DEFINE Keeps(n) == Exists(awLog[n]) /\ Completed(Stored(awLog[n]).phase) /\ Exists(awLog[n])'
                         => Stored(awLog[n])'.phase = Stored(awLog[n]).phase
<1>1. ASSUME AWTypeOK, AWInv, [AWNext]_awVars, NEW n \in Names
      PROVE  Keeps(n)
  <2> SUFFICES ASSUME Exists(awLog[n]), Completed(Stored(awLog[n]).phase), Exists(awLog[n])'
               PROVE  Stored(awLog[n])'.phase = Stored(awLog[n]).phase
    OBVIOUS
  <2> USE <1>1
  <2>1. CASE RemoveFinalizer \/ AddFinalizer
    <3>1. awRec \in Busy /\ awRec # Idle /\ awRec.name \in Names
      BY <2>1 DEF AWTypeOK, RemoveFinalizer, AddFinalizer, Idle, Busy
    <3>2. PICK b \in BOOLEAN : Update([awRec.aw EXCEPT !.finalizer = b])
      BY <2>1 DEF RemoveFinalizer, AddFinalizer
    <3> DEFINE obj == [awRec.aw EXCEPT !.finalizer = b]
    <3>3. obj \in ArtifactWorkflow /\ obj.phase = awRec.aw.phase
      BY <3>1 DEF Busy, ArtifactWorkflow
    <3>4. awRec.current => awRec.aw = Cached(awLog[awRec.name])
      BY <2>1, <3>1 DEF AWInv, CopyInv, RemoveFinalizer, AddFinalizer
    <3>5. awRec.current /\ InSync(awLog[awRec.name]) =>
            obj.phase = Stored(awLog[awRec.name]).phase
      BY <3>1, <3>3, <3>4, Histories, HistoryEnds
    <3> HIDE DEF obj
    <3>6. Update(obj)
      BY <3>2 DEF obj
    <3> QED
      BY <3>1, <3>3, <3>5, <3>6, UpdateKeepsResult
  <2>2. CASE UpdateStatus
    <3>1. awRec \in Busy /\ awRec # Idle /\ awRec.name \in Names /\ awRec.aw \in ArtifactWorkflow
      BY <2>2 DEF AWTypeOK, UpdateStatus, Idle, Busy
    <3>2. awRec.current => ~Completed(Cached(awLog[awRec.name]).phase)
      BY <2>2, <3>1 DEF AWInv, CallInv, UpdateStatus
    <3>3. awRec.current /\ InSync(awLog[awRec.name]) =>
            ~Completed(Stored(awLog[awRec.name]).phase)
      BY <3>1, <3>2, Histories, HistoryEnds
    <3> QED
      BY <2>2, <3>1, <3>3, UpdateKeepsResult DEF UpdateStatus
  <2>3. ASSUME NEW m \in Names, DeliverArtifactWorkflow(m)
        PROVE  Stored(awLog[n])'.phase = Stored(awLog[n]).phase
    <3>1. Stored(Tail(awLog[m])) = Stored(awLog[m])
      BY <2>3, Histories, DeliverVersion DEF DeliverArtifactWorkflow
    <3> QED
      BY <2>3, <3>1 DEF DeliverArtifactWorkflow, AWTypeOK
  <2>4. ASSUME NEW m \in Names, NEW o \in Owners, EnvCreate(m, o)
        PROVE  Stored(awLog[n])'.phase = Stored(awLog[n]).phase
    BY <2>4 DEF EnvCreate, AWTypeOK
  <2>5. ASSUME NEW m \in Names, EnvDelete(m)
        PROVE  Stored(awLog[n])'.phase = Stored(awLog[n]).phase
    <3>1. CASE m = n
      <4> DEFINE s == Stored(awLog[n])
                 obj == [s EXCEPT !.deleting = TRUE]
      <4>1. s \in ArtifactWorkflow
        BY Histories, HistoryEnds DEF Exists, AWVersions
      <4>2. obj \in ArtifactWorkflow /\ obj.phase = s.phase
        BY <4>1 DEF ArtifactWorkflow
      <4>3. awLog'[n] = Write(awLog[n], Purge(obj))
        BY <2>5, <3>1 DEF EnvDelete, Delete, AWTypeOK
      <4>4. Stored(awLog'[n]) = Purge(obj)
        BY <4>2, <4>3, Histories, PurgeType, WriteVersion
      <4>5. Purge(obj) = obj
        BY <4>4 DEF Exists, Purge
      <4> QED
        BY <4>2, <4>4, <4>5
    <3>2. CASE m # n
      BY <2>5, <3>2 DEF EnvDelete, AWTypeOK
    <3> QED
      BY <3>1, <3>2
  <2>6. CASE UNCHANGED awLog
    BY <2>6
  <2> QED
    BY <2>1, <2>2, <2>3, <2>4, <2>5, <2>6
    DEF AWNext, AWWorker, Reconcile, DeleteWorkflow, CreateWorkflow, GetWorkflow, AWFail,
        AWCrash, DeliverWorkflow, Resync, ArgoStep, Provide, Withdraw, awVars
<1>2. AWTypeOK /\ AWInv /\ [AWNext]_awVars => [\A n \in Names : Keeps(n)]_awVars
  BY <1>1
<1> QED
  BY <1>2, AWTypeCorrect, AWInvariant, PTL DEF AWSpec, CompletedIsFinal
=============================================================================
