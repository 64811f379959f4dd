--------------------------- MODULE Outbox_proofs ---------------------------
(***************************************************************************)
(* Safety of the outbox, for any events, any number of workers, any batch  *)
(* size and any number of failures.                                        *)
(***************************************************************************)
EXTENDS Outbox, FiniteSetTheorems, TLAPS

\* A worker holds committed events only; what it has added and not marked is in its batch and in
\* the queue.
BatchHeld ==
  \A w \in Workers :
    /\ batch[w] \subseteq committed
    /\ added[w] # NoEvent => added[w] \in batch[w] /\ jobs[added[w]] = 1

IInv == TypeOK /\ BatchHeld /\ PublishedIsQueued /\ OneJobPerEvent

LEMMA OldestIsPart == ASSUME NEW S PROVE Oldest(S) \subseteq S
BY DEF Oldest

LEMMA InitIInv == Init => IInv
BY OutboxAssumption DEF Init, IInv, TypeOK, BatchHeld, PublishedIsQueued, OneJobPerEvent

LEMMA TypeStep == TypeOK /\ BatchHeld /\ [Next]_vars => TypeOK'
<1> SUFFICES ASSUME TypeOK, BatchHeld, [Next]_vars
             PROVE  TypeOK'
  OBVIOUS
<1>1. ASSUME NEW e \in Events, Commit(e)
      PROVE  TypeOK'
  BY <1>1 DEF Commit, TypeOK
<1>2. ASSUME NEW w \in Workers, ReadBatch(w)
      PROVE  TypeOK'
  BY <1>2, OldestIsPart DEF ReadBatch, TypeOK
<1>3. ASSUME NEW w \in Workers, AddJob(w)
      PROVE  TypeOK'
  BY <1>3 DEF AddJob, TypeOK
<1>4. ASSUME NEW w \in Workers, MarkPublished(w)
      PROVE  TypeOK'
  BY <1>4 DEF MarkPublished, TypeOK
<1>5. ASSUME NEW w \in Workers, CutShort(w)
      PROVE  TypeOK'
  BY <1>5 DEF CutShort, TypeOK
<1>6. CASE UNCHANGED vars
  BY <1>6 DEF vars, TypeOK
<1> QED BY <1>1, <1>2, <1>3, <1>4, <1>5, <1>6 DEF Next, Publish

LEMMA NextIInv == IInv /\ [Next]_vars => IInv'
<1> SUFFICES ASSUME IInv, [Next]_vars
             PROVE  IInv'
  OBVIOUS
<1>0. TypeOK' /\ TypeOK /\ BatchHeld
  BY TypeStep DEF IInv
<1>1. ASSUME NEW e \in Events, Commit(e)
      PROVE  IInv'
  BY <1>0, <1>1 DEF Commit, IInv, TypeOK, BatchHeld, PublishedIsQueued, OneJobPerEvent
<1>2. ASSUME NEW w \in Workers, ReadBatch(w)
      PROVE  IInv'
  <2>1. Oldest(committed \ published) \subseteq committed
    BY OldestIsPart
  <2>2. added[w] = NoEvent
    BY <1>0, <1>2 DEF ReadBatch, BatchHeld
  <2>3. BatchHeld'
    BY <1>0, <1>2, <2>1, <2>2 DEF ReadBatch, TypeOK, BatchHeld
  <2> QED BY <1>0, <1>2, <2>3 DEF ReadBatch, IInv, PublishedIsQueued, OneJobPerEvent
<1>3. ASSUME NEW w \in Workers, AddJob(w)
      PROVE  IInv'
  <2>1. PICK e \in batch[w] :
          /\ jobs' = [jobs EXCEPT ![e] = 1]
          /\ added' = [added EXCEPT ![w] = e]
          /\ UNCHANGED <<committed, published, batch>>
    BY <1>3 DEF AddJob
  <2>2. e \in committed /\ e \in Events
    BY <1>0 DEF BatchHeld, TypeOK
  <2>3. \A f \in Events : jobs'[f] = IF f = e THEN 1 ELSE jobs[f]
    BY <1>0, <2>1 DEF TypeOK
  <2>4. BatchHeld'
    BY <1>0, <2>1, <2>2, <2>3 DEF TypeOK, BatchHeld
  <2>5. PublishedIsQueued' /\ OneJobPerEvent'
    BY <1>0, <2>1, <2>2, <2>3 DEF IInv, TypeOK, PublishedIsQueued, OneJobPerEvent
  <2> QED BY <1>0, <2>4, <2>5 DEF IInv
<1>4. ASSUME NEW w \in Workers, MarkPublished(w)
      PROVE  IInv'
  BY <1>0, <1>4 DEF MarkPublished, IInv, TypeOK, BatchHeld, PublishedIsQueued, OneJobPerEvent
<1>5. ASSUME NEW w \in Workers, CutShort(w)
      PROVE  IInv'
  BY <1>0, <1>5 DEF CutShort, IInv, TypeOK, BatchHeld, PublishedIsQueued, OneJobPerEvent
<1>6. CASE UNCHANGED vars
  BY <1>0, <1>6 DEF vars, IInv, BatchHeld, PublishedIsQueued, OneJobPerEvent
<1> QED BY <1>1, <1>2, <1>3, <1>4, <1>5, <1>6 DEF Next, Publish

LEMMA Inductive == Spec => []IInv
BY InitIInv, NextIInv, PTL DEF Spec

\* A worker holds committed events only, so what it marks and adds to the queue are events of the table.
THEOREM Typed == Spec => []TypeOK
BY Inductive, PTL DEF IInv

\* publishOutboxBatch writes publishedAt after the queue has taken the job: no crash between the two
\* writes makes an event look published that is not.
THEOREM PublishedReachedQueue == Spec => []PublishedIsQueued
BY Inductive, PTL DEF IInv

\* The event's id as the job's id: concurrent and repeated publication still leaves one job.
THEOREM QueuedOnce == Spec => []OneJobPerEvent
BY Inductive, PTL DEF IInv
-----------------------------------------------------------------------------
(***************************************************************************)
(* How often an event is marked.  A worker that has marked an event no     *)
(* longer holds it and never reads it again, so the marks of an event are  *)
(* at most the workers that do not hold it.                                *)
(***************************************************************************)

Free(e) == {w \in Workers : e \notin batch[w]}

MarksCounted == \A e \in Events : attempts[e] <= Cardinality(Free(e)) /\ (attempts[e] > 0 => e \in published)

LEMMA FreeIsFinite == ASSUME NEW e PROVE IsFiniteSet(Free(e)) /\ IsFiniteSet(Free(e)')
BY OutboxAssumption, FS_Subset DEF Free

LEMMA FreeGrows ==
  ASSUME NEW e, Free(e) \subseteq Free(e)'
  PROVE  Cardinality(Free(e)) <= Cardinality(Free(e)')
BY FreeIsFinite, FS_Subset

LEMMA CountStep == IInv /\ MarksCounted /\ [Next]_vars => MarksCounted'
<1> SUFFICES ASSUME IInv, MarksCounted, [Next]_vars, NEW e \in Events
             PROVE  attempts'[e] <= Cardinality(Free(e)') /\ (attempts'[e] > 0 => e \in published')
  BY DEF MarksCounted, Free
<1>0. /\ TypeOK /\ BatchHeld /\ TypeOK'
      /\ attempts[e] <= Cardinality(Free(e)) /\ (attempts[e] > 0 => e \in published)
      /\ attempts[e] \in Nat
  BY TypeStep DEF IInv, MarksCounted, TypeOK
<1>1. Cardinality(Free(e)) \in Nat /\ Cardinality(Free(e)') \in Nat
  BY FreeIsFinite, FS_CardinalityType
<1>2. ASSUME attempts'[e] = attempts[e], Free(e) \subseteq Free(e)', published \subseteq published'
      PROVE  attempts'[e] <= Cardinality(Free(e)') /\ (attempts'[e] > 0 => e \in published')
  BY <1>0, <1>1, <1>2, FreeGrows
<1>3. ASSUME NEW w \in Workers, ReadBatch(w)
      PROVE  attempts'[e] <= Cardinality(Free(e)') /\ (attempts'[e] > 0 => e \in published')
  <2>1. CASE attempts[e] = 0
    BY <1>1, <1>3, <2>1 DEF ReadBatch
  <2>2. CASE e \in published
    <3>1. e \notin Oldest(committed \ published)
      BY <2>2, OldestIsPart
    <3>2. Free(e) \subseteq Free(e)'
      BY <1>0, <1>3, <3>1 DEF ReadBatch, TypeOK, Free
    <3> QED BY <1>2, <1>3, <3>2 DEF ReadBatch
  <2> QED BY <1>0, <2>1, <2>2
<1>4. ASSUME NEW w \in Workers, MarkPublished(w)
      PROVE  attempts'[e] <= Cardinality(Free(e)') /\ (attempts'[e] > 0 => e \in published')
  <2>1. Free(e) \subseteq Free(e)'
    BY <1>0, <1>4 DEF MarkPublished, TypeOK, Free
  <2>2. CASE added[w] # e
    BY <1>0, <1>2, <1>4, <2>1, <2>2 DEF MarkPublished, TypeOK
  <2>3. CASE added[w] = e
    <3>1. w \notin Free(e) /\ Free(e) \cup {w} \subseteq Free(e)'
      BY <1>0, <1>4, <2>1, <2>3 DEF MarkPublished, TypeOK, BatchHeld, Free
    <3>2. Cardinality(Free(e) \cup {w}) = Cardinality(Free(e)) + 1
      BY <3>1, FreeIsFinite, FS_AddElement
    <3>3. Cardinality(Free(e) \cup {w}) <= Cardinality(Free(e)')
      BY <3>1, FreeIsFinite, FS_Subset
    <3>4. attempts'[e] = attempts[e] + 1 /\ e \in published'
      BY <1>0, <1>4, <2>3 DEF MarkPublished, TypeOK
    <3> QED BY <1>0, <1>1, <3>2, <3>3, <3>4
  <2> QED BY <2>2, <2>3
<1>5. ASSUME NEW w \in Workers, CutShort(w)
      PROVE  attempts'[e] <= Cardinality(Free(e)') /\ (attempts'[e] > 0 => e \in published')
  <2>1. Free(e) \subseteq Free(e)'
    BY <1>0, <1>5 DEF CutShort, TypeOK, Free
  <2> QED BY <1>2, <1>5, <2>1 DEF CutShort
<1>6. ASSUME UNCHANGED <<batch, attempts, published>>
      PROVE  attempts'[e] <= Cardinality(Free(e)') /\ (attempts'[e] > 0 => e \in published')
  BY <1>2, <1>6 DEF Free
<1>7. ASSUME NEW w \in Workers, AddJob(w)
      PROVE  UNCHANGED <<batch, attempts, published>>
  BY <1>7 DEF AddJob
<1> QED BY <1>3, <1>4, <1>5, <1>6, <1>7 DEF Next, Publish, Commit, vars

\* Two workers that read an event before either marked it both count an attempt; no event counts more
\* attempts than there are workers, however long they run.
THEOREM MarkedOncePerWorker == Spec => []AttemptsWithinWorkers
<1>1. Init => MarksCounted
  <2>1. ASSUME NEW e \in Events PROVE Cardinality(Free(e)) \in Nat
    BY FreeIsFinite, FS_CardinalityType
  <2> QED BY <2>1 DEF Init, MarksCounted
<1>2. IInv /\ MarksCounted => AttemptsWithinWorkers
  <2> SUFFICES ASSUME IInv, MarksCounted, NEW e \in Events
               PROVE  attempts[e] <= Cardinality(Workers)
    BY DEF AttemptsWithinWorkers
  <2>1. Cardinality(Free(e)) <= Cardinality(Workers) /\ Cardinality(Workers) \in Nat
    BY OutboxAssumption, FS_Subset, FS_CardinalityType DEF Free
  <2>2. Cardinality(Free(e)) \in Nat
    BY FreeIsFinite, FS_CardinalityType
  <2> QED BY <2>1, <2>2 DEF IInv, TypeOK, MarksCounted
<1> QED BY <1>1, <1>2, InitIInv, NextIInv, CountStep, PTL DEF Spec
=============================================================================
