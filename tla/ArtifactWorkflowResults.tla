----------------------- MODULE ArtifactWorkflowResults -----------------------
(***************************************************************************)
(* The result of an ArtifactWorkflow is that of its Workflow, if the name  *)
(* of a former ArtifactWorkflow is used again only once the cache shows    *)
(* that the former Workflow is gone (ReuseLag = 2).  Without that the run  *)
(* on reused names refutes it.                                             *)
(***************************************************************************)
EXTENDS ArtifactWorkflowProofs

\* A name is used again only when the cache of its Workflow has caught up.
ReuseCaughtUp == ReuseLag = 2 /\ NoBound # 2

\* A Workflow the cache knows, or will know, is the stored one: it is neither
\* removed nor replaced later on, and keeps its result.
Forward(w) ==
  \A i, j \in 1..Len(w) : i <= j /\ w[i] # Absent =>
    w[j] # Absent /\ (Completed(w[i].phase) => w[j] = w[i])

\* The result is that of the Workflow, and will be.
NameInv(h, w) ==
  Exists(h) /\ ~Stored(h).deleting =>
    /\ Forward(w)
    /\ Completed(Stored(h).phase) => Exists(w) /\ Stored(w).phase = Stored(h).phase

\* A result that is about to be written, and will not be a Conflict.
WriteResultInv(rec, h, w) ==
  rec.pc = "updateStatus" /\ rec.current /\ InSync(h) /\ Completed(rec.aw.phase) =>
    Exists(w) /\ Stored(w).phase = rec.aw.phase

\* Every result is that of the Workflow, and so is the one the reconcile in
\* progress has read from the cache and is going to write.
ResultInv ==
  /\ \A n \in Names : NameInv(awLog[n], wfLog[n])
  /\ awRec # Idle => WriteResultInv(awRec, awLog[awRec.name], wfLog[awRec.name])

\* A step that concerns one name.
LEMMA OneResult ==
  ASSUME AWTypeOK, ResultInv, NEW n \in Names, NEW h, NEW w,
         awLog' = [awLog EXCEPT ![n] = h], wfLog' = [wfLog EXCEPT ![n] = w],
         NameInv(h, w),
         awRec' # Idle => /\ awRec'.name \in Names
                          /\ awRec'.name = n => WriteResultInv(awRec', h, w)
                          /\ awRec'.name # n => awRec' = awRec
  PROVE  ResultInv'
<1>1. awLog'[n] = h /\ wfLog'[n] = w
  BY DEF AWTypeOK
<1>2. ASSUME NEW m \in Names, m # n PROVE awLog'[m] = awLog[m] /\ wfLog'[m] = wfLog[m]
  BY <1>2 DEF AWTypeOK
<1>3. ASSUME NEW m \in Names PROVE NameInv(awLog'[m], wfLog'[m])
  BY <1>1, <1>2 DEF ResultInv
<1>4. ASSUME awRec' # Idle
      PROVE  WriteResultInv(awRec', awLog'[awRec'.name], wfLog'[awRec'.name])
  BY <1>1, <1>2, <1>4 DEF ResultInv
<1> QED
  BY <1>3, <1>4 DEF ResultInv, NameInv

\* The reconcile ends, and the objects stay as they are.
LEMMA ResultKept ==
  ASSUME ResultInv, UNCHANGED <<awLog, wfLog>>, awRec' = Idle \/ awRec' = awRec
  PROVE  ResultInv'
BY DEF ResultInv

\* Whatever is appended to a history without a Workflow, or to one whose
\* Workflow has no result.
LEMMA ForwardAppend ==
  ASSUME NEW w, IsHistory(w, WFVersions), Forward(w), NEW v \in Workflow,
         Exists(w) => ~Completed(Stored(w).phase)
  PROVE  Forward(Append(w, v))
<1> DEFINE t == Append(w, v)
<1>1. /\ Len(w) \in Nat /\ Len(w) \in 1..Len(w) /\ Len(t) = Len(w) + 1
      /\ t[Len(t)] = v /\ \A i \in 1..Len(w) : t[i] = w[i]
  <2>1. Len(w) \in Nat \ {0} /\ v \in WFVersions
    BY HistoryEnds DEF WFVersions
  <2>2. /\ Len(t) = Len(w) + 1 /\ Stored(t) = v
        /\ \A i \in 1..Len(w) : t[i] = w[i]
    BY <2>1, AppendVersion, Zenon
  <2> HIDE DEF t
  <2> QED
    BY <2>1, <2>2 DEF Stored
<1>2. v # Absent
  BY AbsentAssumption
<1> HIDE DEF t
<1>3. ASSUME NEW i \in 1..Len(t), NEW j \in 1..Len(t), i <= j, t[i] # Absent
      PROVE  t[j] # Absent /\ (Completed(t[i].phase) => t[j] = t[i])
  <2>1. CASE j \in 1..Len(w)
    <3>1. i \in 1..Len(w)
      BY <1>1, <1>3, <2>1
    <3> QED
      BY <1>1, <1>3, <2>1, <3>1 DEF Forward
  <2>2. CASE j = Len(t) /\ i = Len(t)
    BY <1>3, <2>2
  <2>3. CASE j = Len(t) /\ i \in 1..Len(w)
    <3>1. t[i] = w[i] /\ w[i] # Absent /\ i <= Len(w)
      BY <1>1, <1>3, <2>3
    <3>2. w[Len(w)] # Absent /\ (Completed(w[i].phase) => w[Len(w)] = w[i])
      BY <1>1, <2>3, <3>1 DEF Forward
    <3>3. ~Completed(w[i].phase)
      BY <3>2 DEF Exists, Stored
    <3> QED
      BY <1>1, <1>2, <2>3, <3>1, <3>3
  <2> QED
    BY <1>1, <1>3, <2>1, <2>2, <2>3
<1> QED
  BY <1>3 DEF Forward, t

\* A delivered event of the Workflow.
LEMMA ForwardTail ==
  ASSUME NEW w, IsHistory(w, WFVersions), Forward(w), ~InSync(w)
  PROVE  Forward(Tail(w))
<1> DEFINE t == Tail(w)
<1>1. /\ Len(w) \in Nat /\ Len(t) = Len(w) - 1
      /\ \A i \in 1..Len(t) : t[i] = w[i + 1]
  BY HistoryEnds, DeliverVersion
<1> HIDE DEF t
<1>2. ASSUME NEW i \in 1..Len(t), NEW j \in 1..Len(t), i <= j, t[i] # Absent
      PROVE  t[j] # Absent /\ (Completed(t[i].phase) => t[j] = t[i])
  <2>1. i + 1 \in 1..Len(w) /\ j + 1 \in 1..Len(w) /\ i + 1 <= j + 1
    BY <1>1, <1>2
  <2> QED
    BY <1>1, <1>2, <2>1 DEF Forward
<1> QED
  BY <1>2 DEF Forward, t

-----------------------------------------------------------------------------
(* The steps *)

\* The worker writes to the Workflow.
LEMMA WorkflowCallResult ==
  ASSUME AWTypeOK, AWInv, ResultInv, DeleteWorkflow \/ CreateWorkflow
  PROVE  ResultInv'
<1> DEFINE n == awRec.name
           h == awLog[n]
           w == wfLog[n]
<1>1. awRec \in Busy /\ awRec # Idle /\ n \in Names /\ UNCHANGED awLog
  BY DEF AWTypeOK, DeleteWorkflow, CreateWorkflow, Idle, Busy
<1>2. awLog' = [awLog EXCEPT ![n] = h]
  BY <1>1 DEF AWTypeOK
<1>3. /\ IsHistory(w, WFVersions) /\ NameInv(h, w) /\ WorkflowInv(h, w)
      /\ CallInv(awRec, h, w)
  BY <1>1, Histories DEF ResultInv, AWInv
<1>4. Stored(w) \in WFVersions
  BY <1>3, HistoryEnds
<1>5. CASE DeleteWorkflow
  <2> DEFINE v == Write(w, Absent)
  <2>1. wfLog' = [wfLog EXCEPT ![n] = v] /\ (awRec' = Idle \/ awRec' = [awRec EXCEPT !.pc = "removeFinalizer"])
    BY <1>5 DEF DeleteWorkflow, Done
  <2>2. Exists(h) /\ ~Stored(h).deleting => v = w
    BY <1>3, <1>5 DEF DeleteWorkflow, CallInv, WorkflowInv, Live, HasFinalizer, Exists, Write
  <2>3. NameInv(h, v)
    BY <1>3, <2>2 DEF NameInv
  <2>4. awRec' # Idle => awRec'.name = n /\ awRec'.pc = "removeFinalizer"
    BY <1>1, <2>1 DEF Busy
  <2> HIDE DEF n, h, w, v
  <2> QED
    BY <1>1, <1>2, <2>1, <2>3, <2>4, OneResult DEF WriteResultInv
<1>6. CASE CreateWorkflow
  <2> DEFINE new == [phase |-> WorkflowUnknown]
             v == IF Stored(w) = Absent THEN Append(w, new) ELSE w
  <2>1. wfLog' = [wfLog EXCEPT ![n] = v]
    BY <1>6 DEF CreateWorkflow
  <2>2. awRec' = [awRec EXCEPT !.pc = "updateStatus", !.aw.phase = "Pending"]
    BY <1>6 DEF CreateWorkflow
  <2>3. awRec'.name = n /\ awRec'.aw.phase = "Pending"
    BY <1>1, <2>2 DEF Busy, ArtifactWorkflow
  <2>4. new \in Workflow
    BY DEF Workflow, Phases
  <2>5. NameInv(h, v)
    <3>1. CASE Stored(w) # Absent
      BY <1>3, <3>1
    <3>2. CASE Stored(w) = Absent
      <4>1. ~Exists(w)
        BY <3>2 DEF Exists
      <4>2. Forward(w) => Forward(Append(w, new))
        BY <1>3, <2>4, <4>1, ForwardAppend
      <4> QED
        BY <1>3, <3>2, <4>1, <4>2 DEF NameInv
    <3> QED
      BY <3>1, <3>2
  <2>6. ~Completed(awRec'.aw.phase)
    BY <2>3 DEF Completed
  <2> HIDE DEF n, h, w, v
  <2> QED
    BY <1>1, <1>2, <2>1, <2>3, <2>5, <2>6, OneResult DEF WriteResultInv
<1> QED
  BY <1>5, <1>6

\* The worker reads the Workflow from the cache: if the write of its phase is
\* going to succeed, the ArtifactWorkflow is not being deleted and the cached
\* result is the stored one.
LEMMA GetWorkflowResult ==
  ASSUME AWTypeOK, AWInv, ResultInv, GetWorkflow
  PROVE  ResultInv'
<1> DEFINE n == awRec.name
           h == awLog[n]
           w == wfLog[n]
<1>1. awRec \in Busy /\ awRec # Idle /\ n \in Names /\ UNCHANGED <<awLog, wfLog>>
  BY DEF AWTypeOK, GetWorkflow, Idle, Busy
<1>2. CASE awRec' = Idle
  BY <1>1, <1>2, ResultKept
<1>3. CASE awRec' # Idle
  <2>1. Cached(w) # Absent /\ awRec' = [awRec EXCEPT !.pc = "updateStatus", !.aw.phase = Cached(w).phase]
    BY <1>3 DEF GetWorkflow, Retry
  <2>2. awRec'.name = n /\ awRec'.current = awRec.current /\ awRec'.aw.phase = Cached(w).phase
    BY <1>1, <2>1 DEF Busy, ArtifactWorkflow
  <2>3. /\ IsHistory(w, WFVersions) /\ IsHistory(h, AWVersions) /\ NameInv(h, w)
        /\ CopyInv(awRec, h) /\ CallInv(awRec, h, w)
    BY <1>1, Histories DEF ResultInv, AWInv
  <2>4. ASSUME awRec.current, InSync(h), Completed(Cached(w).phase)
        PROVE  Exists(w) /\ Stored(w).phase = Cached(w).phase
    <3>1. Cached(h) = Stored(h)
      BY <2>3, <2>4, HistoryEnds
    <3>2. awRec.aw = Stored(h) /\ Live(awRec.aw)
      BY <1>1, <2>3, <2>4, <3>1 DEF GetWorkflow, CopyInv, CallInv
    <3>3. Forward(w)
      BY <2>3, <3>2 DEF NameInv, Live, HasFinalizer, Exists
    <3>4. 1 \in 1..Len(w) /\ Len(w) \in 1..Len(w) /\ 1 <= Len(w)
      BY <2>3, HistoryEnds
    <3>5. w[1] # Absent /\ Completed(w[1].phase)
      BY <2>1, <2>4 DEF Cached
    <3>6. w[Len(w)] # Absent /\ w[Len(w)] = w[1]
      BY <3>3, <3>4, <3>5 DEF Forward
    <3> QED
      BY <3>6 DEF Exists, Stored, Cached
  <2>5. WriteResultInv(awRec', h, w)
    BY <2>2, <2>4 DEF WriteResultInv
  <2> QED
    BY <1>1, <2>2, <2>5 DEF ResultInv
<1> QED
  BY <1>2, <1>3

\* The worker writes to the ArtifactWorkflow.
LEMMA UpdateResult ==
  ASSUME AWTypeOK, AWInv, ResultInv, RemoveFinalizer \/ AddFinalizer \/ UpdateStatus
  PROVE  ResultInv'
<1> DEFINE n == awRec.name
           h == awLog[n]
           w == wfLog[n]
           c == Cached(h)
<1>1. awRec \in Busy /\ awRec # Idle /\ n \in Names /\ UNCHANGED wfLog /\ awRec.aw \in ArtifactWorkflow
  BY DEF AWTypeOK, RemoveFinalizer, AddFinalizer, UpdateStatus, Idle, Busy
<1>2. wfLog' = [wfLog EXCEPT ![n] = w]
  BY <1>1 DEF AWTypeOK
<1>3. /\ IsHistory(h, AWVersions) /\ NameInv(h, w)
      /\ CopyInv(awRec, h) /\ CallInv(awRec, h, w) /\ WriteResultInv(awRec, h, w)
  BY <1>1, Histories DEF ResultInv, AWInv
<1>4. ASSUME NEW obj \in ArtifactWorkflow, Update(obj),
             awRec.current /\ InSync(h) =>
               Purge(obj) = Absent \/ (obj.deleting = c.deleting /\ obj.phase = c.phase)
               \/ (~c.deleting /\ (Completed(obj.phase) => Exists(w) /\ Stored(w).phase = obj.phase))
      PROVE  ResultInv'
  <2>1. CASE ~(awRec.current /\ InSync(h))
    BY <1>1, <1>4, <2>1, ResultKept DEF Update, Retry
  <2>2. CASE awRec.current /\ InSync(h)
    <3>1. awLog' = [awLog EXCEPT ![n] = Write(h, Purge(obj))] /\ awRec' = Idle
      BY <1>4, <2>2 DEF Update, Done
    <3>2. Purge(obj) \in AWVersions
      BY <1>4, PurgeType
    <3>3. Stored(Write(h, Purge(obj))) = Purge(obj)
      BY <1>3, <3>2, WriteVersion
    <3>4. c = Stored(h) /\ c # Absent
      BY <1>3, <2>2, HistoryEnds DEF CopyInv
    <3>5. Purge(obj) = Absent \/ Purge(obj) = obj
      BY DEF Purge
    <3>6. NameInv(Write(h, Purge(obj)), w)
      BY <1>3, <1>4, <2>2, <3>3, <3>4, <3>5 DEF NameInv, Exists
    <3> HIDE DEF n, h, w
    <3> QED
      BY <1>1, <1>2, <3>1, <3>6, OneResult
  <2> QED
    BY <2>1, <2>2
<1>5. CASE RemoveFinalizer
  <2> DEFINE obj == [awRec.aw EXCEPT !.finalizer = FALSE]
  <2>1. obj \in ArtifactWorkflow /\ obj.deleting /\ ~obj.finalizer
    BY <1>1, <1>3, <1>5 DEF RemoveFinalizer, CallInv, ArtifactWorkflow
  <2>2. Purge(obj) = Absent
    BY <2>1 DEF Purge
  <2>3. Update(obj)
    BY <1>5 DEF RemoveFinalizer
  <2> HIDE DEF obj
  <2> QED
    BY <1>4, <2>1, <2>2, <2>3
<1>6. CASE AddFinalizer
  <2> DEFINE obj == [awRec.aw EXCEPT !.finalizer = TRUE]
  <2>1. obj \in ArtifactWorkflow /\ obj.deleting = awRec.aw.deleting /\ obj.phase = awRec.aw.phase
    BY <1>1 DEF ArtifactWorkflow
  <2>2. awRec.current => awRec.aw = c
    BY <1>3, <1>6 DEF AddFinalizer, CopyInv
  <2>3. Update(obj)
    BY <1>6 DEF AddFinalizer
  <2> HIDE DEF obj
  <2> QED
    BY <1>4, <2>1, <2>2, <2>3
<1>7. CASE UpdateStatus
  <2>1. Update(awRec.aw) /\ awRec.pc = "updateStatus"
    BY <1>7 DEF UpdateStatus
  <2>2. ASSUME awRec.current, InSync(h)
        PROVE  ~c.deleting /\ (Completed(awRec.aw.phase) => Exists(w) /\ Stored(w).phase = awRec.aw.phase)
    <3>1. awRec.aw = [c EXCEPT !.phase = awRec.aw.phase] /\ ~awRec.aw.deleting /\ c # Absent
      BY <1>3, <2>1, <2>2 DEF CopyInv, CallInv, Live
    <3>2. c \in ArtifactWorkflow
      BY <1>3, <3>1, HistoryEnds DEF AWVersions
    <3>3. awRec.aw.deleting = c.deleting
      BY <3>1, <3>2 DEF ArtifactWorkflow
    <3> QED
      BY <1>3, <2>1, <2>2, <3>1, <3>3 DEF WriteResultInv
  <2> QED
    BY <1>1, <1>4, <2>1, <2>2
<1> QED
  BY <1>5, <1>6, <1>7

\* Events are delivered, Argo runs the Workflow.
LEMMA WorkflowResult ==
  ASSUME AWTypeOK, ResultInv, NEW n \in Names, DeliverWorkflow(n) \/ ArgoStep(n)
  PROVE  ResultInv'
<1> DEFINE h == awLog[n]
           w == wfLog[n]
<1>1. UNCHANGED <<awLog, awRec>> /\ (awRec # Idle => awRec.name \in Names)
  BY DEF DeliverWorkflow, ArgoStep, AWTypeOK, Busy
<1>2. awLog' = [awLog EXCEPT ![n] = h]
  BY <1>1 DEF AWTypeOK
<1>3. IsHistory(w, WFVersions) /\ NameInv(h, w)
  BY Histories DEF ResultInv
<1>4. awRec # Idle /\ awRec.name = n => WriteResultInv(awRec, h, w)
  BY DEF ResultInv
<1>5. CASE DeliverWorkflow(n)
  <2>1. ~InSync(w) /\ wfLog' = [wfLog EXCEPT ![n] = Tail(w)]
    BY <1>5 DEF DeliverWorkflow
  <2>2. Stored(Tail(w)) = Stored(w)
    BY <1>3, <2>1, DeliverVersion
  <2>3. Forward(w) => Forward(Tail(w))
    BY <1>3, <2>1, ForwardTail
  <2>4. NameInv(h, Tail(w)) /\ (awRec # Idle /\ awRec.name = n => WriteResultInv(awRec, h, Tail(w)))
    BY <1>3, <1>4, <2>2, <2>3 DEF NameInv, WriteResultInv, Exists
  <2> HIDE DEF h, w
  <2> QED
    BY <1>1, <1>2, <2>1, <2>4, OneResult
<1>6. CASE ArgoStep(n)
  <2>1. PICK p \in Phases : /\ Rank(p) > Rank(Stored(w).phase)
                            /\ wfLog' = [wfLog EXCEPT ![n] = Append(w, [phase |-> p])]
    BY <1>6 DEF ArgoStep
  <2> DEFINE v == [phase |-> p]
  <2>2. ~Completed(Stored(w).phase)
    <3>1. ASSUME NEW q PROVE Rank(q) \in 0..3 /\ (Completed(q) => Rank(q) = 3)
      <4>1. Rank(q) \in {0, 1, 2, 3}
        BY DEF Rank
      <4>2. ASSUME q \in {"Succeeded", "Failed", "Error"} PROVE Rank(q) = 3
        BY <4>2 DEF Rank, WorkflowUnknown
      <4> QED
        BY <4>1, <4>2 DEF Completed
    <3>2. Rank(p) \in 0..3 /\ Rank(p) > Rank(Stored(w).phase)
      BY <2>1, <3>1
    <3>3. Completed(Stored(w).phase) => Rank(Stored(w).phase) = 3
      BY <3>1
    <3> HIDE DEF w
    <3> QED
      BY <3>2, <3>3
  <2>3. v \in Workflow
    BY DEF Workflow
  <2>4. Forward(w) => Forward(Append(w, v))
    BY <1>3, <2>2, <2>3, ForwardAppend
  <2>5. NameInv(h, Append(w, v))
    BY <1>3, <2>2, <2>4 DEF NameInv
  <2>6. awRec # Idle /\ awRec.name = n => WriteResultInv(awRec, h, Append(w, v))
    BY <1>4, <2>2 DEF WriteResultInv
  <2> HIDE DEF h, w, v
  <2> QED
    BY <1>1, <1>2, <2>1, <2>5, <2>6, OneResult DEF v
<1> QED
  BY <1>5, <1>6

\* An event of the ArtifactWorkflow is delivered.
LEMMA DeliverResult ==
  ASSUME AWTypeOK, ResultInv, NEW n \in Names, DeliverArtifactWorkflow(n)
  PROVE  ResultInv'
<1> DEFINE h == awLog[n]
           w == wfLog[n]
<1>1. /\ ~InSync(h) /\ awLog' = [awLog EXCEPT ![n] = Tail(h)]
      /\ UNCHANGED wfLog /\ awRec' = Outdated(n)
  BY DEF DeliverArtifactWorkflow
<1>2. wfLog' = [wfLog EXCEPT ![n] = w]
  BY <1>1 DEF AWTypeOK
<1>3. IsHistory(h, AWVersions) /\ NameInv(h, w)
  BY Histories DEF ResultInv
<1>4. Stored(Tail(h)) = Stored(h)
  BY <1>1, <1>3, DeliverVersion
<1>5. NameInv(Tail(h), w)
  BY <1>3, <1>4 DEF NameInv, Exists
<1>6. CASE awRec # Idle /\ awRec.name = n
  <2>1. awRec \in Busy /\ awRec' = [awRec EXCEPT !.current = FALSE]
    BY <1>1, <1>6 DEF Outdated, AWTypeOK
  <2>2. awRec'.name = n /\ ~awRec'.current
    BY <1>6, <2>1 DEF Busy
  <2> HIDE DEF h, w
  <2> QED
    BY <1>1, <1>2, <1>5, <2>2, OneResult DEF WriteResultInv
<1>7. CASE ~(awRec # Idle /\ awRec.name = n)
  <2>1. awRec' = awRec /\ (awRec # Idle => awRec.name \in Names)
    BY <1>1, <1>7 DEF Outdated, AWTypeOK, Busy
  <2> HIDE DEF h, w
  <2> QED
    BY <1>1, <1>2, <1>5, <1>7, <2>1, OneResult
<1> QED
  BY <1>6, <1>7

\* ArtifactWorkflows are created, where the Workflow's cache has caught up, and
\* deleted.
LEMMA EnvironmentResult ==
  ASSUME AWTypeOK, AWInv, ResultInv, ReuseCaughtUp, NEW n \in Names,
         EnvDelete(n) \/ \E o \in Owners : EnvCreate(n, o)
  PROVE  ResultInv'
<1> DEFINE h == awLog[n]
           w == wfLog[n]
<1>1. UNCHANGED <<wfLog, awRec>> /\ (awRec # Idle => awRec.name \in Names)
  BY DEF EnvDelete, EnvCreate, AWTypeOK, Busy
<1>2. wfLog' = [wfLog EXCEPT ![n] = w]
  BY <1>1 DEF AWTypeOK
<1>3. /\ IsHistory(h, AWVersions) /\ IsHistory(w, WFVersions)
      /\ NameInv(h, w) /\ HistoryInv(h) /\ WorkflowInv(h, w)
  BY Histories DEF ResultInv, AWInv
<1>4. awRec # Idle /\ awRec.name = n => WriteResultInv(awRec, h, w)
  BY DEF ResultInv
<1>5. ASSUME NEW t, awLog' = [awLog EXCEPT ![n] = t], NameInv(t, w), InSync(t) => t = h
      PROVE  ResultInv'
  <2>1. awRec # Idle /\ awRec.name = n => WriteResultInv(awRec, t, w)
    BY <1>4, <1>5 DEF WriteResultInv
  <2> HIDE DEF h, w
  <2> QED
    BY <1>1, <1>2, <1>5, <2>1, OneResult
<1>6. ASSUME NEW v \in AWVersions
      PROVE  /\ Len(h) \in Nat \ {0}
             /\ Stored(Append(h, v)) = v /\ Len(Append(h, v)) = Len(h) + 1
             /\ Stored(Write(h, v)) = v /\ Write(h, v) \in {h, Append(h, v)}
  <2>1. IsHistory(h, AWVersions)
    BY <1>3
  <2> HIDE DEF h
  <2> QED
    BY <2>1, HistoryEnds, AppendVersion, WriteVersion
<1>7. ASSUME NEW o \in Owners, EnvCreate(n, o) PROVE ResultInv'
  <2> DEFINE v == NewArtifactWorkflow(o)
             t == Append(h, v)
  <2>1. /\ ~Exists(h) /\ Room(w, ReuseLag) /\ awLog' = [awLog EXCEPT ![n] = t]
    BY <1>7 DEF EnvCreate
  <2>2. Len(w) = 1 /\ w[1] = Stored(w)
    <3>1. IsHistory(w, WFVersions)
      BY <1>3
    <3>2. Len(w) \in Nat \ {0}
      BY <3>1, HistoryEnds
    <3>3. Len(w) < 2
      BY <2>1 DEF Room, ReuseCaughtUp
    <3>4. \A k \in Nat \ {0} : k < 2 => k = 1
      OBVIOUS
    <3>5. Len(w) = 1
      BY <3>2, <3>3, <3>4
    <3> QED
      BY <3>5 DEF Stored
  <2>3. ~Exists(w)
    BY <1>3, <2>1 DEF WorkflowInv, HasFinalizer, Exists
  <2>4. Forward(w)
    BY <2>2, <2>3 DEF Forward, Exists
  <2>5. v \in AWVersions
    BY DEF NewArtifactWorkflow, AWVersions, ArtifactWorkflow, Phases
  <2>6. Stored(t) = v /\ ~InSync(t)
    BY <1>6, <2>5 DEF InSync
  <2>7. ~Completed(v.phase)
    BY DEF NewArtifactWorkflow, Completed, WorkflowUnknown
  <2>8. NameInv(t, w)
    BY <2>4, <2>6, <2>7 DEF NameInv
  <2> HIDE DEF t
  <2> QED
    BY <1>5, <2>1, <2>6, <2>8
<1>8. CASE EnvDelete(n)
  <2> DEFINE s == Stored(h)
             marked == [s EXCEPT !.deleting = TRUE]
             t == Write(h, Purge(marked))
  <2>1. Exists(h) /\ awLog' = [awLog EXCEPT ![n] = t]
    BY <1>8 DEF EnvDelete, Delete
  <2>2. s \in ArtifactWorkflow
    BY <1>3, <2>1, HistoryEnds DEF Exists, AWVersions
  <2>3. marked \in ArtifactWorkflow /\ marked.deleting
    BY <2>2 DEF ArtifactWorkflow
  <2>4. Purge(marked) \in AWVersions /\ (Purge(marked) = Absent \/ Purge(marked).deleting)
    BY <2>3, PurgeType DEF Purge
  <2>5. Stored(t) = Purge(marked) /\ t \in {h, Append(h, Purge(marked))}
    BY <1>6, <2>4
  <2>6. InSync(t) => t = h
    BY <1>6, <2>4, <2>5 DEF InSync
  <2>7. NameInv(t, w)
    BY <2>4, <2>5 DEF NameInv, Exists
  <2> HIDE DEF t
  <2> QED
    BY <1>5, <2>1, <2>6, <2>7
<1> QED
  BY <1>7, <1>8

\* Every step keeps the invariant of the results.
LEMMA ResultInductive ==
  ASSUME ReuseCaughtUp, AWTypeOK, AWInv, ResultInv, [AWNext]_awVars
  PROVE  ResultInv'
<1>1. ASSUME NEW n \in Names, Reconcile(n) PROVE ResultInv'
  <2>1. UNCHANGED <<awLog, wfLog>>
    BY <1>1 DEF Reconcile
  <2>2. awRec' # Idle => awRec'.pc # "updateStatus"
    BY <1>1, BeginsWithCopy DEF FirstCall
  <2> QED
    BY <2>1, <2>2 DEF ResultInv, WriteResultInv
<1>2. CASE DeleteWorkflow \/ CreateWorkflow
  BY <1>2, WorkflowCallResult
<1>3. CASE GetWorkflow
  BY <1>3, GetWorkflowResult
<1>4. CASE RemoveFinalizer \/ AddFinalizer \/ UpdateStatus
  BY <1>4, UpdateResult
<1>5. CASE AWFail \/ AWCrash
  BY <1>5, ResultKept DEF AWFail, AWCrash, Retry
<1>6. ASSUME NEW n \in Names, DeliverArtifactWorkflow(n) PROVE ResultInv'
  BY <1>6, DeliverResult
<1>7. ASSUME NEW n \in Names, DeliverWorkflow(n) \/ ArgoStep(n) PROVE ResultInv'
  BY <1>7, WorkflowResult
<1>8. ASSUME NEW n \in Names, EnvDelete(n) \/ \E o \in Owners : EnvCreate(n, o) PROVE ResultInv'
  BY <1>8, EnvironmentResult
<1>9. ASSUME NEW n \in Names, Resync(n) \/ Provide(n) \/ Withdraw(n) PROVE ResultInv'
  BY <1>9, ResultKept DEF Resync, Provide, Withdraw
<1>10. CASE UNCHANGED awVars
  BY <1>10, ResultKept DEF awVars
<1> QED
  BY <1>1, <1>2, <1>3, <1>4, <1>5, <1>6, <1>7, <1>8, <1>9, <1>10 DEF AWNext, AWWorker

-----------------------------------------------------------------------------
\* The invariant behind the next theorem: all versions of a Workflow the cache
\* knows or will know are the present Workflow on its way to its result.
THEOREM ResultInvariant ==
  ASSUME ReuseCaughtUp
  PROVE  AWSpec => []ResultInv
<1>1. AWInit => ResultInv
  <2> SUFFICES ASSUME AWInit PROVE ResultInv
    OBVIOUS
  <2>1. ~Exists(<<Absent>>)
    BY DEF Exists, Stored
  <2> QED
    BY <2>1 DEF AWInit, ResultInv, NameInv
<1>2. AWTypeOK /\ AWInv /\ ResultInv /\ [AWNext]_awVars => ResultInv'
  BY ResultInductive
<1> QED
  BY <1>1, <1>2, AWTypeCorrect, AWInvariant, PTL DEF AWSpec

\* If names are used again only when the cache has caught up, a completed phase
\* is the phase of the corresponding Workflow.
THEOREM ResultAlwaysOfWorkflow ==
  ASSUME ReuseCaughtUp
  PROVE  AWSpec => []ResultIsOfWorkflow
<1>1. AWSpec => []ResultInv
  BY ResultInvariant
<1>2. ResultInv => ResultIsOfWorkflow
  BY DEF ResultInv, NameInv, ResultIsOfWorkflow
<1> QED
  BY <1>1, <1>2, PTL
=============================================================================
