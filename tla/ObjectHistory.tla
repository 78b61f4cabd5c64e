--------------------------- MODULE ObjectHistory ---------------------------
(***************************************************************************)
(* One API object as the controller manager sees it.                       *)
(*                                                                         *)
(* A controller writes to the API server and reads from an informer cache  *)
(* that a watch keeps up to date with a delay.  A history is the sequence  *)
(* of versions of one object that the watch has not delivered yet,         *)
(* preceded by the version in the cache: its first element is what Get     *)
(* returns, its last one is what etcd holds.  A write appends a version, a *)
(* delivered watch event drops the first element.                          *)
(*                                                                         *)
(* resourceVersions are not numbered.  Both reconcilers take their working *)
(* copy from the cache, so the copy has the resourceVersion of the stored  *)
(* object exactly when no event of the object was delivered since the Get  *)
(* (the reconciler's "current" flag) and none is outstanding (InSync).     *)
(***************************************************************************)
EXTENDS Naturals, Sequences

CONSTANTS
  Absent,      \* the object does not exist
  NoBound      \* a history may grow without bound

Stored(h) == h[Len(h)]

Cached(h) == h[1]

Exists(h) == Stored(h) # Absent

InSync(h) == Len(h) = 1

\* There is room for another version in a history bounded by max.
Room(h, max) == IF max = NoBound THEN TRUE ELSE Len(h) < max

\* The API server does not write, and the watch does not report, an update
\* that leaves the object as it is.
Write(h, obj) == IF obj = Stored(h) THEN h ELSE Append(h, obj)

\* An object marked for deletion is removed with its last finalizer.
Purge(obj) == IF obj.deleting /\ ~obj.finalizer THEN Absent ELSE obj

\* DELETE: mark an object that has a finalizer, remove any other one.
\* Deleting an absent object (NotFound) or a marked one changes nothing.
Delete(h) ==
  IF Exists(h) THEN Write(h, Purge([Stored(h) EXCEPT !.deleting = TRUE])) ELSE h
=============================================================================
