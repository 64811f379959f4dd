------------------------------- MODULE Outbox -------------------------------
(***************************************************************************)
(* Publication of outbox events (worker.ts, publishOutboxBatch and run):   *)
(* every command writes its events in its own transaction; each worker     *)
(* process reads the oldest unpublished events once a second, adds one job *)
(* per event to the domain-events queue, under the event's id, and marks   *)
(* the event published.  Nothing locks an event, so two workers may hold   *)
(* the same one, and a worker may stop between the two writes.             *)
(*                                                                         *)
(* A definition whose name ends in an underscore and a mistake is the next *)
(* definition with that mistake; it is used only to show that a property   *)
(* would notice.                                                           *)
(***************************************************************************)
EXTENDS FiniteSets, Integers

CONSTANTS
  Events,       \* events, numbered by occurredAt
  Workers,      \* worker processes
  BatchSize,    \* events one query takes
  NoEvent,
  MaxFailures   \* bound: how often a batch is cut short by an error, a crash or a shutdown

ASSUME OutboxAssumption ==
  /\ Events \subseteq Nat
  /\ IsFiniteSet(Workers)
  /\ BatchSize \in Nat \ {0}
  /\ NoEvent \notin Events
  /\ MaxFailures \in Nat

VARIABLES
  committed,  \* events whose transaction has committed
  published,  \* events with publishedAt set
  attempts,   \* the events' attempts column
  jobs,       \* jobs of the domain-events queue, by event
  batch,      \* what a worker still has to publish of the events it read
  added,      \* the event a worker has added and not yet marked
  failures

vars == <<committed, published, attempts, jobs, batch, added, failures>>

Init ==
  /\ committed = {}
  /\ published = {}
  /\ attempts = [e \in Events |-> 0]
  /\ jobs = [e \in Events |-> 0]
  /\ batch = [w \in Workers |-> {}]
  /\ added = [w \in Workers |-> NoEvent]
  /\ failures = 0

\* The transaction of a command commits.  occurredAt is set when the row is written, so events
\* become visible in any order.
Commit(e) ==
  /\ e \notin committed
  /\ committed' = committed \cup {e}
  /\ UNCHANGED <<published, attempts, jobs, batch, added, failures>>

Oldest(S) == {e \in S : Cardinality({f \in S : f < e}) < BatchSize}

ReadBatch_MarksFirst(w) ==
  /\ batch[w] = {}
  /\ committed \ published # {}
  /\ batch' = [batch EXCEPT ![w] = Oldest(committed \ published)]
  /\ published' = published \cup Oldest(committed \ published)
  /\ UNCHANGED <<committed, attempts, jobs, added, failures>>

\* findMany of a turn of the loop.  A turn that finds nothing changes nothing.
ReadBatch(w) ==
  /\ batch[w] = {}
  /\ committed \ published # {}
  /\ batch' = [batch EXCEPT ![w] = Oldest(committed \ published)]
  /\ UNCHANGED <<committed, published, attempts, jobs, added, failures>>

\* queue.add ignores a job whose id the queue holds.
AddJob_WithoutId(w) ==
  \E e \in batch[w] :
    /\ added[w] = NoEvent
    /\ \A f \in batch[w] : e <= f
    /\ jobs' = [jobs EXCEPT ![e] = @ + 1]
    /\ added' = [added EXCEPT ![w] = e]
    /\ UNCHANGED <<committed, published, attempts, batch, failures>>

AddJob(w) ==
  \E e \in batch[w] :
    /\ added[w] = NoEvent
    /\ \A f \in batch[w] : e <= f
    /\ jobs' = [jobs EXCEPT ![e] = 1]
    /\ added' = [added EXCEPT ![w] = e]
    /\ UNCHANGED <<committed, published, attempts, batch, failures>>

MarkPublished_WithoutAdding(w) ==
  /\ published' = published \cup {added[w]}
  /\ attempts' = [attempts EXCEPT ![added[w]] = @ + 1]
  /\ batch' = [batch EXCEPT ![w] = @ \ {added[w]}]
  /\ added' = [added EXCEPT ![w] = NoEvent]
  /\ UNCHANGED <<committed, jobs, failures>>

MarkPublished(w) ==
  /\ added[w] # NoEvent
  /\ published' = published \cup {added[w]}
  /\ attempts' = [attempts EXCEPT ![added[w]] = @ + 1]
  /\ batch' = [batch EXCEPT ![w] = @ \ {added[w]}]
  /\ added' = [added EXCEPT ![w] = NoEvent]
  /\ UNCHANGED <<committed, jobs, failures>>

\* An error ends the turn and is logged; a crash or shutdown ends the process, and the next one
\* starts with nothing.  What was added stays added.
CutShort(w) ==
  /\ batch[w] # {}
  /\ failures < MaxFailures
  /\ failures' = failures + 1
  /\ batch' = [batch EXCEPT ![w] = {}]
  /\ added' = [added EXCEPT ![w] = NoEvent]
  /\ UNCHANGED <<committed, published, attempts, jobs>>

Publish(w) == ReadBatch(w) \/ AddJob(w) \/ MarkPublished(w)

Next ==
  \/ \E e \in Events : Commit(e)
  \/ \E w \in Workers : Publish(w) \/ CutShort(w)

\* The loop of a worker never waits for anything but its own calls.
Fairness == \A w \in Workers : WF_vars(Publish(w))

Spec == Init /\ [][Next]_vars /\ Fairness
-----------------------------------------------------------------------------
TypeOK ==
  /\ committed \subseteq Events
  /\ published \subseteq Events
  /\ attempts \in [Events -> Nat]
  /\ jobs \in [Events -> Nat]
  /\ batch \in [Workers -> SUBSET Events]
  /\ added \in [Workers -> Events \cup {NoEvent}]
  /\ failures \in Nat

\* An event is marked published only when its job is in the queue: whoever stops, and wherever,
\* no event is taken for published and lost.
PublishedIsQueued == \A e \in published : jobs[e] > 0

\* However many workers hold an event and however often it is added again after a failure, the
\* queue gets one job for it, and only for an event whose transaction committed.
OneJobPerEvent == \A e \in Events : jobs[e] <= IF e \in committed THEN 1 ELSE 0

\* A worker marks an event at most once: nobody reads a published event again.
AttemptsWithinWorkers == \A e \in Events : attempts[e] <= Cardinality(Workers)

\* Every event of a committed transaction reaches the queue and is marked, past any number of
\* other events and every failure, provided failures end.
EventuallyPublished == \A e \in Events : e \in committed ~> e \in published /\ jobs[e] > 0
=============================================================================
