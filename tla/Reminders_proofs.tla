-------------------------- MODULE Reminders_proofs --------------------------
(***************************************************************************)
(* Type correctness of Reminders, the accounting of what a client is sent  *)
(* and the agreement of the reminder rows with it, for any number of       *)
(* installments, days, workers, attempts and mishaps.                      *)
(***************************************************************************)
EXTENDS Reminders, FiniteSetTheorems, TLAPS

LEMMA InitTyped == Init => TypeOK
<1> SUFFICES ASSUME Init PROVE TypeOK
  OBVIOUS
<1>1. \A j \in JobIds : 0 \in Nat
  OBVIOUS
<1>2. rows \in [Installments -> Rows]
  BY DEF Init
<1> QED BY <1>1, <1>2 DEF Init, TypeOK

LEMMA EndedIsJob ==
  ASSUME NEW state \in Over
  PROVE  Ended(state) \in Jobs
BY DEF Ended, Jobs

\* What the queue makes of a live job is a job.
LEMMA RetriedIsJob ==
  ASSUME NEW job \in LiveJobs
  PROVE  Retried(job) \in Jobs /\ Retried(job) # None
<1>1. CASE job.tried + 1 < Attempts
  <2>1. job.tried + 1 \in 0..(Attempts - 1)
    BY <1>1, ReminderAssumption DEF LiveJobs
  <2>2. [job EXCEPT !.state = "waiting", !.tried = @ + 1, !.holder = None] \in LiveJobs
    BY <2>1 DEF LiveJobs
  <2> QED BY <1>1, <2>2, NoneAssumption DEF Retried, Jobs
<1>2. CASE ~(job.tried + 1 < Attempts)
  BY <1>2, EndedIsJob, NoneAssumption DEF Retried, Over
<1> QED BY <1>1, <1>2

LEMMA StalledIsJob ==
  ASSUME NEW job \in LiveJobs
  PROVE  Stalled(job) \in Jobs /\ Stalled(job) # None
<1>1. CASE job.stalls < MaxStalls
  <2>1. job.stalls + 1 \in 0..MaxStalls
    BY <1>1, ReminderAssumption DEF LiveJobs
  <2>2. [job EXCEPT !.state = "waiting", !.stalls = @ + 1, !.holder = None] \in LiveJobs
    BY <2>1 DEF LiveJobs
  <2> QED BY <1>1, <2>2, NoneAssumption DEF Stalled, Jobs
<1>2. CASE ~(job.stalls < MaxStalls)
  BY <1>2, EndedIsJob, NoneAssumption DEF Stalled, Over
<1> QED BY <1>1, <1>2

\* A job in the queue that is not over has the fields of a live job.
LEMMA LiveJob ==
  ASSUME TypeOK, NEW j \in JobIds, jobs[j] # None, jobs[j].state \in {"waiting", "active"}
  PROVE  jobs[j] \in LiveJobs
<1>1. jobs[j] \in Jobs
  BY DEF TypeOK
<1> QED BY <1>1 DEF Jobs, Over

LEMMA HandTyped ==
  ASSUME TypeOK, NEW w \in Workers, hands[w] # None
  PROVE  hands[w] \in Hands /\ hands[w].job \in JobIds
BY DEF TypeOK, Hands

LEMMA FinishTyped ==
  ASSUME TypeOK, NEW w \in Workers, hands[w] # None, NEW job, Finish(w, job),
         Holds(w, hands[w].job) => job \in Jobs
  PROVE  /\ jobs' \in [JobIds -> Jobs \cup {None}]
         /\ hands' \in [Workers -> Hands \cup {None}]
<1>1. hands[w].job \in JobIds
  BY HandTyped
<1>2. jobs' \in [JobIds -> Jobs \cup {None}]
  <2>1. CASE Holds(w, hands[w].job)
    <3>1. jobs' = [jobs EXCEPT ![hands[w].job] = job]
      BY <2>1 DEF Finish
    <3> QED BY <1>1, <2>1, <3>1 DEF TypeOK
  <2>2. CASE ~Holds(w, hands[w].job)
    BY <2>2 DEF Finish, TypeOK
  <2> QED BY <2>1, <2>2
<1>3. hands' \in [Workers -> Hands \cup {None}]
  BY DEF Finish, TypeOK
<1> QED BY <1>2, <1>3

LEMMA MishapTyped ==
  ASSUME TypeOK, NEW j \in JobIds, Mishap(j)
  PROVE  mishaps' \in [JobIds -> Nat] /\ mishaps' = [mishaps EXCEPT ![j] = mishaps[j] + 1]
BY DEF TypeOK, Mishap

LEMMA ScanTyped ==
  ASSUME TypeOK
  PROVE  Found \subseteq Adds
<1> SUFFICES ASSUME NEW i \in Installments
             PROVE  [id |-> <<i, Kind(rows[i].due)>>, due |-> rows[i].due] \in Adds
  BY DEF Found
<1>1. Kind(rows[i].due) \in Kinds
  BY DEF Kind, Kinds
<1>2. rows[i].due \in Days
  BY DEF TypeOK, Rows
<1> QED BY <1>1, <1>2 DEF Adds, JobIds

LEMMA AddTyped ==
  ASSUME TypeOK, AddJob
  PROVE  TypeOK'
<1>1. PICK a \in scan : /\ scan' = scan \ {a}
                        /\ jobs' = IF jobs[a.id] = None
                                   THEN [jobs EXCEPT ![a.id] = Waiting(a.due)] ELSE jobs
  BY DEF AddJob
<1>2. a.id \in JobIds /\ a.due \in Days
  BY DEF TypeOK, Adds
<1>3. Waiting(a.due) \in Jobs
  BY <1>2, ReminderAssumption DEF Waiting, Jobs, LiveJobs
<1> QED BY <1>1, <1>2, <1>3 DEF AddJob, TypeOK

LEMMA TakeTyped ==
  ASSUME TypeOK, NEW w \in Workers, Take(w)
  PROVE  TypeOK'
<1>1. PICK j \in JobIds :
        /\ jobs[j] # None /\ jobs[j].state = "waiting"
        /\ jobs' = [jobs EXCEPT ![j] = [@ EXCEPT !.state = "active", !.holder = w]]
        /\ hands' = [hands EXCEPT ![w] =
                       [job |-> j, due |-> jobs[j].due, phase |-> "taken", ok |-> FALSE]]
  BY DEF Take
<1>2. jobs[j] \in LiveJobs
  BY <1>1, LiveJob
<1>3. [jobs[j] EXCEPT !.state = "active", !.holder = w] \in Jobs
  BY <1>2 DEF LiveJobs, Jobs
<1>4. [job |-> j, due |-> jobs[j].due, phase |-> "taken", ok |-> FALSE] \in Hands
  BY <1>2 DEF LiveJobs, Hands
<1> QED BY <1>1, <1>3, <1>4 DEF Take, TypeOK

LEMMA SendTyped ==
  ASSUME TypeOK, NEW w \in Workers, Send(w)
  PROVE  TypeOK'
<1>1. PICK accepted, ok \in BOOLEAN :
        /\ hands' = [hands EXCEPT ![w] = [@ EXCEPT !.phase = "sent", !.ok = ok]]
        /\ sms' = [sms EXCEPT ![hands[w].job] = IF accepted THEN @ + 1 ELSE @]
  BY DEF Send
<1>2. hands[w] \in Hands /\ hands[w].job \in JobIds
  BY HandTyped DEF Send
<1>3. [hands[w] EXCEPT !.phase = "sent", !.ok = ok] \in Hands
  BY <1>2 DEF Hands
<1> QED BY <1>1, <1>2, <1>3 DEF Send, TypeOK

LEMMA FailTyped ==
  ASSUME TypeOK, NEW w \in Workers, Fail(w)
  PROVE  TypeOK'
<1>1. hands[w] # None /\ hands[w].job \in JobIds
  BY HandTyped DEF Fail
<1>2. ASSUME Holds(w, hands[w].job) PROVE Retried(jobs[hands[w].job]) \in Jobs
  BY <1>1, <1>2, LiveJob, RetriedIsJob DEF Holds, Active
<1>3. /\ jobs' \in [JobIds -> Jobs \cup {None}]
      /\ hands' \in [Workers -> Hands \cup {None}]
  BY <1>1, <1>2, FinishTyped DEF Fail
<1>4. mishaps' \in [JobIds -> Nat]
  BY <1>1, MishapTyped DEF Fail
<1>5. reminders' \in [JobIds -> {None, "SMS", "IN_APP"}]
  BY <1>1 DEF Fail, TypeOK, Channels
<1> QED BY <1>3, <1>4, <1>5 DEF Fail, TypeOK

LEMMA StallTyped ==
  ASSUME TypeOK, NEW j \in JobIds, Active(j), jobs' = [jobs EXCEPT ![j] = Stalled(@)]
  PROVE  jobs' \in [JobIds -> Jobs \cup {None}]
<1>1. Stalled(jobs[j]) \in Jobs
  BY LiveJob, StalledIsJob DEF Active
<1> QED BY <1>1 DEF TypeOK

LEMMA NextTyped == TypeOK /\ [Next]_vars => TypeOK'
<1> SUFFICES ASSUME TypeOK, [Next]_vars PROVE TypeOK'
  OBVIOUS
<1>1. CASE Tick
  BY <1>1 DEF Tick, TypeOK
<1>2. CASE StartScan
  BY <1>2, ScanTyped DEF StartScan, TypeOK
<1>3. CASE AddJob
  BY <1>3, AddTyped
<1>4. CASE AbortScan
  BY <1>4 DEF AbortScan, TypeOK
<1>5. ASSUME NEW i \in Installments, Service(i) PROVE TypeOK'
  BY <1>5 DEF Service, TypeOK
<1>6. ASSUME NEW w \in Workers, Take(w) PROVE TypeOK'
  BY <1>6, TakeTyped
<1>7. ASSUME NEW w \in Workers, Skip(w) PROVE TypeOK'
  <2>1. Ended("skipped") \in Jobs
    BY DEF Ended, Jobs, Over
  <2>2. hands[w] # None
    BY <1>7 DEF Skip
  <2>3. /\ jobs' \in [JobIds -> Jobs \cup {None}]
        /\ hands' \in [Workers -> Hands \cup {None}]
    BY <1>7, <2>1, <2>2, FinishTyped DEF Skip
  <2> QED BY <1>7, <2>3 DEF Skip, TypeOK
<1>8. ASSUME NEW w \in Workers, Send(w) PROVE TypeOK'
  BY <1>8, SendTyped
<1>9. ASSUME NEW w \in Workers, Record(w) PROVE TypeOK'
  <2>1. Ended("recorded") \in Jobs
    BY DEF Ended, Jobs, Over
  <2>2. hands[w] # None /\ hands[w].job \in JobIds
    BY <1>9, HandTyped DEF Record
  <2>3. /\ jobs' \in [JobIds -> Jobs \cup {None}]
        /\ hands' \in [Workers -> Hands \cup {None}]
    BY <1>9, <2>1, <2>2, FinishTyped DEF Record
  <2>4. reminders' \in [JobIds -> {None, "SMS", "IN_APP"}]
    BY <1>9, <2>2 DEF Record, TypeOK, Channels
  <2> QED BY <1>9, <2>3, <2>4 DEF Record, TypeOK
<1>10. ASSUME NEW w \in Workers, Fail(w) PROVE TypeOK'
  BY <1>10, FailTyped
<1>11. ASSUME NEW w \in Workers, Crash(w) PROVE TypeOK'
  <2>1. hands[w].job \in JobIds
    BY <1>11, HandTyped DEF Crash
  <2>2. mishaps' \in [JobIds -> Nat]
    BY <1>11, <2>1, MishapTyped DEF Crash
  <2> QED BY <1>11, <2>2 DEF Crash, TypeOK
<1>12. ASSUME NEW j \in JobIds, LoseLock(j) PROVE TypeOK'
  <2>1. mishaps' \in [JobIds -> Nat]
    BY <1>12, MishapTyped DEF LoseLock
  <2>2. jobs' \in [JobIds -> Jobs \cup {None}]
    BY <1>12, StallTyped DEF LoseLock
  <2> QED BY <1>12, <2>1, <2>2 DEF LoseLock, TypeOK
<1>13. ASSUME NEW j \in JobIds, Recover(j) PROVE TypeOK'
  <2>1. jobs' \in [JobIds -> Jobs \cup {None}]
    BY <1>13, StallTyped DEF Recover, Orphan
  <2> QED BY <1>13, <2>1 DEF Recover, TypeOK
<1>14. ASSUME NEW j \in JobIds, Forget(j) PROVE TypeOK'
  <2>1. mishaps' \in [JobIds -> Nat]
    BY <1>14, MishapTyped DEF Forget
  <2> QED BY <1>14, <2>1 DEF Forget, TypeOK
<1>15. CASE UNCHANGED vars
  BY <1>15 DEF vars, TypeOK
<1> QED BY <1>1, <1>2, <1>3, <1>4, <1>5, <1>6, <1>7, <1>8, <1>9, <1>10, <1>11, <1>12, <1>13,
           <1>14, <1>15 DEF Next, Work

\* Every state is well typed: no job is tried or taken over more often than the queue allows.
THEOREM Typed == Spec => []TypeOK
BY InitTyped, NextTyped, PTL DEF Spec
-----------------------------------------------------------------------------
\* What a row will say is decided when the SMS is sent, before the row is written: a worker that
\* saw the provider accept a message is right about it.
HandTells == \A w \in Workers : hands[w] # None /\ hands[w].ok => sms[hands[w].job] > 0

Told == TypeOK /\ HandTells /\ RowTellsWhatHappened

LEMMA RetriedState ==
  ASSUME NEW job \in LiveJobs
  PROVE  Retried(job).state \in {"waiting", "failed"}
BY DEF Retried, Ended, LiveJobs

LEMMA StalledState ==
  ASSUME NEW job \in LiveJobs
  PROVE  Stalled(job).state \in {"waiting", "failed"}
BY DEF Stalled, Ended, LiveJobs

\* A worker that ends a job can only bring it to the state it reports.
LEMMA FinishKeepsRows ==
  ASSUME Told, NEW w \in Workers, hands[w] # None, NEW job, Finish(w, job), sms' = sms,
         NEW j \in JobIds
  PROVE  /\ HandTells'
         /\ jobs'[j] = jobs[j] \/ (j = hands[w].job /\ jobs'[j] = job /\ Holds(w, j))
<1>1. HandTells'
  BY DEF Finish, Told, HandTells, TypeOK
<1>2. jobs'[j] = jobs[j] \/ (j = hands[w].job /\ jobs'[j] = job /\ Holds(w, j))
  BY DEF Finish, Told, TypeOK
<1> QED BY <1>1, <1>2

\* The upsert writes what the worker saw.
LEMMA WrittenRowTells ==
  ASSUME Told, NEW w \in Workers, hands[w] # None
  PROVE  /\ Channels(w) # None
         /\ Channels(w) = "SMS" => sms[hands[w].job] > 0
BY NoneAssumption DEF Told, HandTells, Channels

LEMMA NextTold == Told /\ [Next]_vars => Told'
<1> SUFFICES ASSUME Told, [Next]_vars PROVE HandTells' /\ RowTellsWhatHappened'
  BY NextTyped DEF Told
<1>1. ASSUME UNCHANGED <<jobs, hands, sms, reminders>>
      PROVE  HandTells' /\ RowTellsWhatHappened'
  BY <1>1 DEF Told, HandTells, RowTellsWhatHappened
<1>2. CASE Tick \/ StartScan \/ AbortScan \/ UNCHANGED vars
  BY <1>1, <1>2 DEF Tick, StartScan, AbortScan, vars
<1>3. ASSUME NEW i \in Installments, Service(i) PROVE HandTells' /\ RowTellsWhatHappened'
  BY <1>1, <1>3 DEF Service
<1>4. CASE AddJob
  <2>1. PICK a \in scan : jobs' = IF jobs[a.id] = None
                                  THEN [jobs EXCEPT ![a.id] = Waiting(a.due)] ELSE jobs
    BY <1>4 DEF AddJob
  <2>2. ASSUME NEW j \in JobIds
        PROVE  jobs'[j] = jobs[j] \/ jobs'[j].state = "waiting"
    BY <2>1 DEF Told, TypeOK, Waiting
  <2> QED BY <1>4, <2>2 DEF AddJob, Told, HandTells, RowTellsWhatHappened
<1>5. ASSUME NEW w \in Workers, Take(w) PROVE HandTells' /\ RowTellsWhatHappened'
  <2>1. PICK k \in JobIds :
          /\ jobs[k] # None /\ jobs[k].state = "waiting"
          /\ jobs' = [jobs EXCEPT ![k] = [@ EXCEPT !.state = "active", !.holder = w]]
          /\ hands' = [hands EXCEPT ![w] =
                         [job |-> k, due |-> jobs[k].due, phase |-> "taken", ok |-> FALSE]]
    BY <1>5 DEF Take
  <2>2. jobs[k] \in LiveJobs
    BY <2>1, LiveJob DEF Told
  <2>3. ASSUME NEW j \in JobIds
        PROVE  jobs'[j] = jobs[j] \/ jobs'[j].state = "active"
    BY <2>1, <2>2 DEF Told, TypeOK, LiveJobs
  <2>4. HandTells'
    BY <1>5, <2>1 DEF Take, Told, HandTells, TypeOK
  <2> QED BY <1>5, <2>3, <2>4 DEF Take, Told, RowTellsWhatHappened
<1>6. ASSUME NEW w \in Workers, Skip(w) PROVE HandTells' /\ RowTellsWhatHappened'
  <2>1. ASSUME NEW j \in JobIds
        PROVE  HandTells' /\ (jobs'[j] = jobs[j] \/ jobs'[j].state = "skipped")
    BY <1>6, FinishKeepsRows DEF Skip, Ended
  <2>2. HandTells'
    BY <1>6, HandTyped, <2>1 DEF Skip, Told
  <2> QED BY <1>6, <2>1, <2>2 DEF Skip, Told, RowTellsWhatHappened
<1>7. ASSUME NEW w \in Workers, Send(w) PROVE HandTells' /\ RowTellsWhatHappened'
  <2>1. PICK accepted, ok \in BOOLEAN :
          /\ ok => accepted
          /\ hands' = [hands EXCEPT ![w] = [@ EXCEPT !.phase = "sent", !.ok = ok]]
          /\ sms' = [sms EXCEPT ![hands[w].job] = IF accepted THEN @ + 1 ELSE @]
    BY <1>7 DEF Send
  <2>2. hands[w] \in Hands /\ hands[w].job \in JobIds
    BY <1>7, HandTyped DEF Send, Told
  <2>3. ASSUME NEW j \in JobIds PROVE sms[j] > 0 => sms'[j] > 0
    BY <2>1, <2>2 DEF Told, TypeOK
  <2>4. ok => sms'[hands[w].job] > 0
    BY <2>1, <2>2 DEF Told, TypeOK
  <2>5. ASSUME NEW v \in Workers, hands'[v] # None, hands'[v].ok
        PROVE  sms'[hands'[v].job] > 0
    <3>1. CASE v = w
      <4>1. hands'[v].job = hands[w].job /\ hands'[v].ok = ok
        BY <2>1, <2>2, <3>1 DEF Told, TypeOK, Hands
      <4> QED BY <2>4, <2>5, <4>1
    <3>2. CASE v # w
      <4>1. hands'[v] = hands[v] /\ hands[v].job \in JobIds
        BY <2>1, <2>5, <3>2, HandTyped DEF Told, TypeOK
      <4> QED BY <2>3, <2>5, <4>1 DEF Told, HandTells
    <3> QED BY <3>1, <3>2
  <2> QED BY <1>7, <2>3, <2>5 DEF Send, Told, HandTells, RowTellsWhatHappened
<1>8. ASSUME NEW w \in Workers, Record(w) PROVE HandTells' /\ RowTellsWhatHappened'
  <2>1. hands[w] # None /\ hands[w].job \in JobIds
    BY <1>8, HandTyped DEF Record, Told
  <2>2. ASSUME NEW j \in JobIds
        PROVE  HandTells' /\ (jobs'[j] = jobs[j] \/ j = hands[w].job)
    BY <1>8, <2>1, FinishKeepsRows DEF Record
  <2>3. ASSUME NEW j \in JobIds, j # hands[w].job PROVE reminders'[j] = reminders[j]
    BY <1>8, <2>1, <2>3 DEF Record, Told, TypeOK
  <2>4. reminders'[hands[w].job] = Channels(w)
    BY <1>8, <2>1 DEF Record, Told, TypeOK
  <2> QED BY <1>8, <2>1, <2>2, <2>3, <2>4, WrittenRowTells
          DEF Record, Told, RowTellsWhatHappened
<1>9. ASSUME NEW w \in Workers, Fail(w) PROVE HandTells' /\ RowTellsWhatHappened'
  <2>1. hands[w] # None /\ hands[w].job \in JobIds
    BY <1>9, HandTyped DEF Fail, Told
  <2>2. ASSUME NEW j \in JobIds
        PROVE  HandTells' /\ (jobs'[j] = jobs[j] \/ jobs'[j].state \in {"waiting", "failed"})
    <3>1. \/ jobs'[j] = jobs[j]
          \/ j = hands[w].job /\ jobs'[j] = Retried(jobs[hands[w].job]) /\ Holds(w, j)
      BY <1>9, <2>1, FinishKeepsRows DEF Fail
    <3>2. HandTells'
      BY <1>9, <2>1, FinishKeepsRows DEF Fail
    <3>3. Holds(w, j) => jobs[j] \in LiveJobs
      BY LiveJob DEF Holds, Active, Told
    <3> QED BY <3>1, <3>2, <3>3, RetriedState
  <2>3. ASSUME NEW j \in JobIds
        PROVE  reminders'[j] = reminders[j] \/ (j = hands[w].job /\ reminders'[j] = Channels(w))
    BY <1>9, <2>1 DEF Fail, Told, TypeOK
  <2> QED BY <1>9, <2>1, <2>2, <2>3, WrittenRowTells DEF Fail, Told, RowTellsWhatHappened
<1>10. ASSUME NEW w \in Workers, Crash(w) PROVE HandTells' /\ RowTellsWhatHappened'
  BY <1>10 DEF Crash, Told, HandTells, TypeOK, RowTellsWhatHappened
<1>11. ASSUME NEW k \in JobIds, LoseLock(k) \/ Recover(k)
       PROVE  HandTells' /\ RowTellsWhatHappened'
  <2>1. jobs[k] \in LiveJobs
    BY <1>11, LiveJob DEF LoseLock, Recover, Orphan, Active, Told
  <2>2. jobs' = [jobs EXCEPT ![k] = Stalled(@)] /\ UNCHANGED <<hands, sms, reminders>>
    BY <1>11 DEF LoseLock, Recover
  <2>3. ASSUME NEW j \in JobIds
        PROVE  jobs'[j] = jobs[j] \/ jobs'[j].state \in {"waiting", "failed"}
    BY <2>1, <2>2, StalledState DEF Told, TypeOK
  <2> QED BY <2>2, <2>3 DEF Told, HandTells, RowTellsWhatHappened
<1>12. ASSUME NEW k \in JobIds, Forget(k) PROVE HandTells' /\ RowTellsWhatHappened'
  <2>1. ASSUME NEW j \in JobIds PROVE jobs'[j] = jobs[j] \/ jobs'[j] = None
    BY <1>12 DEF Forget, Told, TypeOK
  <2> QED BY <1>12, <2>1 DEF Forget, Told, HandTells, RowTellsWhatHappened
<1> QED BY <1>2, <1>3, <1>4, <1>5, <1>6, <1>7, <1>8, <1>9, <1>10, <1>11, <1>12 DEF Next, Work

\* A job is marked as sent only with its reminder row written, and the row claims an SMS only if
\* the provider accepted one, in whatever order workers that hold the same job finish.
THEOREM RowsTold == Spec => []RowTellsWhatHappened
<1>1. Init => Told
  <2> SUFFICES ASSUME Init PROVE HandTells /\ RowTellsWhatHappened
    BY InitTyped DEF Told
  <2>1. HandTells
    BY DEF Init, HandTells
  <2>2. ASSUME NEW j \in JobIds PROVE jobs[j] = None /\ reminders[j] = None
    BY DEF Init
  <2> QED BY <2>1, <2>2, NoneAssumption DEF RowTellsWhatHappened
<1>2. Told => RowTellsWhatHappened
  BY DEF Told
<1> QED BY <1>1, <1>2, NextTold, PTL DEF Spec
-----------------------------------------------------------------------------
\* Workers that will still send a message for a job.
Unsent(j) ==
  {w \in Workers : hands[w] # None /\ hands[w].job = j /\ hands[w].phase = "taken"}

\* A worker may still take a job: nobody is at it, or only workers that lost it.
Idle(j) == jobs[j] = None \/ jobs[j].state = "waiting" \/ Orphan(j)

Left(j) == IF Idle(j) THEN 1 ELSE 0

\* The messages sent, those that workers are about to send, and the one that the next worker will
\* send are paid for: one by the job, the others by a mishap each.
Balance(j) == sms[j] + Cardinality(Unsent(j)) + Left(j) <= 1 + mishaps[j]

Paid == TypeOK /\ \A j \in JobIds : Balance(j)

LEMMA UnsentIsFinite ==
  ASSUME NEW j \in JobIds
  PROVE  /\ IsFiniteSet(Unsent(j)) /\ Cardinality(Unsent(j)) \in Nat
         /\ IsFiniteSet(Unsent(j)') /\ Cardinality(Unsent(j)') \in Nat
<1>1. IsFiniteSet(Unsent(j))
  BY ReminderAssumption, FS_Subset DEF Unsent
<1>2. IsFiniteSet(Unsent(j)')
  BY ReminderAssumption, FS_Subset DEF Unsent
<1> QED BY <1>1, <1>2, FS_CardinalityType

LEMMA FewerUnsent ==
  ASSUME NEW j \in JobIds, Unsent(j)' \subseteq Unsent(j)
  PROVE  Cardinality(Unsent(j)') <= Cardinality(Unsent(j))
BY UnsentIsFinite, FS_Subset

LEMMA OneLessUnsent ==
  ASSUME NEW j \in JobIds, NEW w \in Unsent(j), Unsent(j)' \subseteq Unsent(j) \ {w}
  PROVE  Cardinality(Unsent(j)') + 1 <= Cardinality(Unsent(j))
<1>1. IsFiniteSet(Unsent(j) \ {w}) /\ Cardinality(Unsent(j) \ {w}) = Cardinality(Unsent(j)) - 1
  BY UnsentIsFinite, FS_RemoveElement
<1>2. Cardinality(Unsent(j)') <= Cardinality(Unsent(j) \ {w})
  BY <1>1, FS_Subset
<1> QED BY <1>1, <1>2, UnsentIsFinite

LEMMA OneMoreUnsent ==
  ASSUME NEW j \in JobIds, NEW w, w \notin Unsent(j), Unsent(j)' \subseteq Unsent(j) \cup {w}
  PROVE  Cardinality(Unsent(j)') <= Cardinality(Unsent(j)) + 1
<1>1. /\ IsFiniteSet(Unsent(j) \cup {w})
      /\ Cardinality(Unsent(j) \cup {w}) = Cardinality(Unsent(j)) + 1
  BY UnsentIsFinite, FS_AddElement
<1> QED BY <1>1, FS_Subset

\* A job stays taken as long as the worker that holds it is at it.
LEMMA StaysTaken ==
  ASSUME NEW j \in JobIds, jobs'[j] = jobs[j],
         \A v \in Workers : Runs(v, j) => hands'[v] # None /\ hands'[v].job = j
  PROVE  Idle(j)' => Idle(j)
BY DEF Idle, Orphan, Runs, Holds, Active

\* The account of a job that a step does not disturb, and of one that a mishap pays for.
LEMMA Undisturbed ==
  ASSUME Paid, NEW j \in JobIds, sms'[j] = sms[j], mishaps'[j] = mishaps[j],
         Unsent(j)' \subseteq Unsent(j), Idle(j)' => Idle(j)
  PROVE  Balance(j)'
<1>1. Cardinality(Unsent(j)') <= Cardinality(Unsent(j))
  BY FewerUnsent
<1>2. Left(j) \in {0, 1} /\ Left(j)' \in {0, 1} /\ Left(j)' <= Left(j)
  BY DEF Left
<1>3. sms[j] \in Nat /\ mishaps[j] \in Nat
  BY DEF Paid, TypeOK
<1> QED BY <1>1, <1>2, <1>3, UnsentIsFinite DEF Paid, Balance

LEMMA PaidByMishap ==
  ASSUME Paid, NEW j \in JobIds, sms'[j] = sms[j], mishaps'[j] = mishaps[j] + 1,
         Unsent(j)' \subseteq Unsent(j)
  PROVE  Balance(j)'
<1>1. Cardinality(Unsent(j)') <= Cardinality(Unsent(j))
  BY FewerUnsent
<1>2. Left(j) \in {0, 1} /\ Left(j)' \in {0, 1}
  BY DEF Left
<1>3. sms[j] \in Nat /\ mishaps[j] \in Nat
  BY DEF Paid, TypeOK
<1> QED BY <1>1, <1>2, <1>3, UnsentIsFinite DEF Paid, Balance

\* A worker puts a job down.
LEMMA PutDown ==
  ASSUME Paid, NEW w \in Workers, hands[w] # None, hands' = [hands EXCEPT ![w] = None],
         NEW j \in JobIds
  PROVE  /\ Unsent(j)' \subseteq Unsent(j) \ {w}
         /\ (jobs'[j] = jobs[j] /\ (j # hands[w].job \/ ~Holds(w, j))) => (Idle(j)' => Idle(j))
<1>1. Unsent(j)' \subseteq Unsent(j) \ {w}
  BY DEF Paid, TypeOK, Unsent
<1>2. ASSUME jobs'[j] = jobs[j], j # hands[w].job \/ ~Holds(w, j)
      PROVE  Idle(j)' => Idle(j)
  <2>1. ASSUME NEW v \in Workers, Runs(v, j)
        PROVE  hands'[v] # None /\ hands'[v].job = j
    <3>1. v # w
      BY <1>2, <2>1 DEF Runs
    <3> QED BY <2>1, <3>1 DEF Paid, TypeOK, Runs
  <2> QED BY <1>2, <2>1, StaysTaken
<1> QED BY <1>1, <1>2

\* A worker ends its job, as skipped or recorded.
LEMMA FinishPaid ==
  ASSUME Paid, NEW w \in Workers, hands[w] # None, NEW state \in Over,
         Finish(w, Ended(state)), UNCHANGED <<sms, mishaps>>, NEW j \in JobIds
  PROVE  Balance(j)'
<1>1. hands' = [hands EXCEPT ![w] = None]
  BY DEF Finish
<1>2. Unsent(j)' \subseteq Unsent(j)
  BY <1>1, PutDown
<1>3. CASE j = hands[w].job /\ Holds(w, j)
  <2>1. jobs'[j] = Ended(state)
    BY <1>3 DEF Finish, Paid, TypeOK
  <2>2. Ended(state).state \notin {"waiting", "active"} /\ Ended(state) # None
    BY EndedIsJob, NoneAssumption DEF Ended, Over
  <2>3. ~Idle(j)'
    BY <2>1, <2>2 DEF Idle, Orphan, Active
  <2> QED BY <1>2, <2>3, Undisturbed
<1>4. CASE ~(j = hands[w].job /\ Holds(w, j))
  <2>1. jobs'[j] = jobs[j]
    BY <1>4 DEF Finish, Paid, TypeOK
  <2>2. Idle(j)' => Idle(j)
    BY <1>1, <1>4, <2>1, PutDown
  <2> QED BY <1>2, <2>2, Undisturbed
<1> QED BY <1>3, <1>4

LEMMA TakePaid ==
  ASSUME Paid, NEW w \in Workers, Take(w), NEW j \in JobIds
  PROVE  Balance(j)'
<1>1. PICK k \in JobIds :
        /\ jobs[k] # None /\ jobs[k].state = "waiting"
        /\ jobs' = [jobs EXCEPT ![k] = [@ EXCEPT !.state = "active", !.holder = w]]
        /\ hands' = [hands EXCEPT ![w] =
                       [job |-> k, due |-> jobs[k].due, phase |-> "taken", ok |-> FALSE]]
  BY DEF Take
<1>2. hands[w] = None /\ UNCHANGED <<sms, mishaps>>
  BY DEF Take
<1>3. jobs[k] \in LiveJobs
  BY <1>1, LiveJob DEF Paid
<1>4. CASE j = k
  <2>1. w \notin Unsent(j) /\ Unsent(j)' \subseteq Unsent(j) \cup {w}
    BY <1>1, <1>2 DEF Paid, TypeOK, Unsent
  <2>2. Cardinality(Unsent(j)') <= Cardinality(Unsent(j)) + 1
    BY <2>1, OneMoreUnsent
  <2>3. Left(j) = 1
    BY <1>1, <1>4 DEF Left, Idle
  <2>4. jobs'[j] # None /\ jobs'[j].state = "active" /\ jobs'[j].holder = w
    <3>1. jobs'[j] = [jobs[k] EXCEPT !.state = "active", !.holder = w]
      BY <1>1, <1>4 DEF Paid, TypeOK
    <3>2. [jobs[k] EXCEPT !.state = "active", !.holder = w] \in LiveJobs
      BY <1>3 DEF LiveJobs
    <3>3. jobs'[j].state = "active" /\ jobs'[j].holder = w
      BY <1>3, <3>1 DEF LiveJobs
    <3>4. jobs'[j] \in Jobs
      BY <3>1, <3>2 DEF Jobs
    <3> QED BY <3>3, <3>4, NoneAssumption
  <2>5. hands'[w] # None /\ hands'[w].job = j
    <3>1. hands'[w] = [job |-> k, due |-> jobs[k].due, phase |-> "taken", ok |-> FALSE]
      BY <1>1 DEF Paid, TypeOK
    <3>2. hands'[w] \in Hands
      BY <1>3, <3>1 DEF Hands, LiveJobs
    <3>3. hands'[w] # None
      BY <3>2, NoneAssumption
    <3>4. hands'[w].job = j
      BY <1>4, <3>1
    <3> QED BY <3>3, <3>4
  <2>6. Runs(w, j)'
    BY <2>4, <2>5 DEF Runs, Holds, Active
  <2>7. Left(j)' = 0
    BY <2>4, <2>6 DEF Left, Idle, Orphan
  <2>8. sms[j] \in Nat /\ mishaps[j] \in Nat
    BY DEF Paid, TypeOK
  <2> QED BY <1>2, <2>2, <2>3, <2>7, <2>8, UnsentIsFinite DEF Paid, Balance
<1>5. CASE j # k
  <2>1. Unsent(j)' \subseteq Unsent(j)
    BY <1>1, <1>5 DEF Paid, TypeOK, Unsent
  <2>2. jobs'[j] = jobs[j]
    BY <1>1, <1>5 DEF Paid, TypeOK
  <2>3. ASSUME NEW v \in Workers, Runs(v, j) PROVE hands'[v] # None /\ hands'[v].job = j
    BY <1>1, <1>2, <2>3 DEF Paid, TypeOK, Runs
  <2> QED BY <1>2, <2>1, <2>2, <2>3, StaysTaken, Undisturbed
<1> QED BY <1>4, <1>5

LEMMA SendPaid ==
  ASSUME Paid, NEW w \in Workers, Send(w), NEW j \in JobIds
  PROVE  Balance(j)'
<1>1. PICK accepted, ok \in BOOLEAN :
        /\ hands' = [hands EXCEPT ![w] = [@ EXCEPT !.phase = "sent", !.ok = ok]]
        /\ sms' = [sms EXCEPT ![hands[w].job] = IF accepted THEN @ + 1 ELSE @]
  BY DEF Send
<1>2. hands[w] # None /\ hands[w].phase = "taken" /\ UNCHANGED <<jobs, mishaps>>
  BY DEF Send
<1>3. hands[w] \in Hands /\ hands[w].job \in JobIds
  BY <1>2, HandTyped DEF Paid
<1>4. hands'[w] \in Hands /\ hands'[w].job = hands[w].job /\ hands'[w].phase = "sent"
  <2>1. hands'[w] = [hands[w] EXCEPT !.phase = "sent", !.ok = ok]
    BY <1>1 DEF Paid, TypeOK
  <2> QED BY <1>3, <2>1 DEF Hands
<1>5. \A v \in Workers : v # w => hands'[v] = hands[v]
  BY <1>1 DEF Paid, TypeOK
<1>6. Unsent(j)' \subseteq Unsent(j) \ {w}
  BY <1>4, <1>5 DEF Unsent
<1>7. Idle(j)' => Idle(j)
  <2>1. ASSUME NEW v \in Workers, Runs(v, j) PROVE hands'[v] # None /\ hands'[v].job = j
    BY <1>4, <1>5, <2>1, NoneAssumption DEF Runs
  <2> QED BY <1>2, <2>1, StaysTaken
<1>8. CASE j # hands[w].job
  <2>1. sms'[j] = sms[j]
    BY <1>1, <1>3, <1>8 DEF Paid, TypeOK
  <2> QED BY <1>2, <1>6, <1>7, <2>1, Undisturbed
<1>9. CASE j = hands[w].job
  <2>1. w \in Unsent(j)
    BY <1>2, <1>9 DEF Unsent
  <2>2. Cardinality(Unsent(j)') + 1 <= Cardinality(Unsent(j))
    BY <1>6, <2>1, OneLessUnsent
  <2>3. sms[j] \in Nat /\ mishaps[j] \in Nat /\ sms'[j] \in Nat /\ sms'[j] <= sms[j] + 1
    BY <1>1, <1>3, <1>9 DEF Paid, TypeOK
  <2>4. Left(j) \in {0, 1} /\ Left(j)' \in {0, 1} /\ Left(j)' <= Left(j)
    BY <1>7 DEF Left
  <2> QED BY <1>2, <2>2, <2>3, <2>4, UnsentIsFinite DEF Paid, Balance
<1> QED BY <1>8, <1>9

\* An attempt that threw and a worker that stopped.
LEMMA LeavePaid ==
  ASSUME Paid, NEW w \in Workers, Fail(w) \/ Crash(w), NEW j \in JobIds
  PROVE  Balance(j)'
<1>1. hands[w] # None /\ hands[w].job \in JobIds
  BY HandTyped DEF Fail, Crash, Paid
<1>2. hands' = [hands EXCEPT ![w] = None] /\ sms' = sms
  BY DEF Fail, Crash, Finish
<1>3. mishaps' = [mishaps EXCEPT ![hands[w].job] = mishaps[hands[w].job] + 1]
  BY <1>1, MishapTyped DEF Fail, Crash, Paid
<1>4. Unsent(j)' \subseteq Unsent(j)
  BY <1>1, <1>2, PutDown
<1>5. CASE j = hands[w].job
  <2>1. mishaps'[j] = mishaps[j] + 1
    BY <1>3, <1>5 DEF Paid, TypeOK
  <2> QED BY <1>2, <1>4, <2>1, PaidByMishap
<1>6. CASE j # hands[w].job
  <2>1. jobs'[j] = jobs[j]
    BY <1>1, <1>6 DEF Fail, Crash, Finish, Paid, TypeOK
  <2>2. mishaps'[j] = mishaps[j]
    BY <1>1, <1>3, <1>6 DEF Paid, TypeOK
  <2>3. Idle(j)' => Idle(j)
    BY <1>1, <1>2, <1>6, <2>1, PutDown
  <2> QED BY <1>2, <1>4, <2>2, <2>3, Undisturbed
<1> QED BY <1>5, <1>6

\* What the queue does to a job of its own accord.
LEMMA QueuePaid ==
  ASSUME Paid, NEW k \in JobIds, LoseLock(k) \/ Recover(k) \/ Forget(k), NEW j \in JobIds
  PROVE  Balance(j)'
<1>1. UNCHANGED <<hands, sms>> /\ Unsent(j)' = Unsent(j)
  BY DEF LoseLock, Recover, Forget, Unsent
<1>2. ASSUME j # k PROVE Balance(j)'
  <2>1. jobs'[j] = jobs[j]
    BY <1>2 DEF LoseLock, Recover, Forget, Paid, TypeOK
  <2>2. mishaps'[j] = mishaps[j]
    BY <1>2 DEF LoseLock, Recover, Forget, Mishap, Paid, TypeOK
  <2>3. Idle(j)' => Idle(j)
    BY <1>1, <2>1, StaysTaken DEF Runs
  <2> QED BY <1>1, <2>2, <2>3, Undisturbed
<1>3. ASSUME j = k, LoseLock(k) \/ Forget(k) PROVE Balance(j)'
  <2>1. mishaps'[j] = mishaps[j] + 1
    BY <1>3, MishapTyped DEF LoseLock, Forget, Paid, TypeOK
  <2> QED BY <1>1, <2>1, PaidByMishap
<1>4. ASSUME j = k, Recover(k) PROVE Balance(j)'
  BY <1>1, <1>4, Undisturbed DEF Recover, Idle
<1> QED BY <1>2, <1>3, <1>4

LEMMA AddPaid ==
  ASSUME Paid, AddJob, NEW j \in JobIds
  PROVE  Balance(j)'
<1>1. PICK a \in scan : jobs' = IF jobs[a.id] = None
                                THEN [jobs EXCEPT ![a.id] = Waiting(a.due)] ELSE jobs
  BY DEF AddJob
<1>2. UNCHANGED <<hands, sms, mishaps>> /\ Unsent(j)' = Unsent(j)
  BY DEF AddJob, Unsent
<1>3. jobs'[j] = jobs[j] \/ jobs[j] = None
  BY <1>1 DEF Paid, TypeOK
<1>4. Idle(j)' => Idle(j)
  <2>1. CASE jobs[j] = None
    BY <2>1 DEF Idle
  <2>2. CASE jobs'[j] = jobs[j]
    BY <1>2, <2>2, StaysTaken DEF Runs
  <2> QED BY <1>3, <2>1, <2>2
<1> QED BY <1>2, <1>4, Undisturbed

LEMMA NextPaid == Paid /\ [Next]_vars => Paid'
<1> SUFFICES ASSUME Paid, [Next]_vars, NEW j \in JobIds PROVE Balance(j)'
  BY NextTyped DEF Paid
<1>1. ASSUME UNCHANGED <<jobs, hands, sms, mishaps>> PROVE Balance(j)'
  BY <1>1 DEF Paid, Balance, Unsent, Left, Idle, Orphan, Runs, Holds, Active
<1>2. CASE Tick \/ StartScan \/ AbortScan \/ UNCHANGED vars
  BY <1>1, <1>2 DEF Tick, StartScan, AbortScan, vars
<1>3. ASSUME NEW i \in Installments, Service(i) PROVE Balance(j)'
  BY <1>1, <1>3 DEF Service
<1>4. ASSUME NEW w \in Workers, Skip(w) PROVE Balance(j)'
  <2>1. "skipped" \in Over
    BY DEF Over
  <2> QED BY <1>4, <2>1, FinishPaid DEF Skip
<1>5. ASSUME NEW w \in Workers, Record(w) PROVE Balance(j)'
  <2>1. "recorded" \in Over
    BY DEF Over
  <2> QED BY <1>5, <2>1, FinishPaid DEF Record
<1> QED BY <1>2, <1>3, <1>4, <1>5, AddPaid, TakePaid, SendPaid, LeavePaid, QueuePaid
        DEF Next, Work

\* Scanning an installment again sends nothing: every message after the first is paid for by an
\* attempt that threw, a worker that stopped or lost its lock, or a job the queue forgot.
THEOREM SentOncePerMishap == Spec => []ResentOnlyAfterMishap
<1>1. Init => Paid
  <2> SUFFICES ASSUME Init, NEW j \in JobIds PROVE Balance(j)
    BY InitTyped DEF Paid
  <2>1. Unsent(j) = {}
    BY DEF Init, Unsent
  <2>2. Cardinality(Unsent(j)) = 0
    BY <2>1, FS_EmptySet
  <2>3. sms[j] = 0 /\ mishaps[j] = 0 /\ Left(j) \in {0, 1}
    BY DEF Init, Left
  <2> QED BY <2>2, <2>3 DEF Balance
<1>2. Paid => ResentOnlyAfterMishap
  <2> SUFFICES ASSUME Paid, NEW j \in JobIds PROVE sms[j] <= 1 + mishaps[j]
    BY DEF ResentOnlyAfterMishap
  <2>1. sms[j] \in Nat /\ mishaps[j] \in Nat /\ Left(j) \in {0, 1}
    BY DEF Paid, TypeOK, Left
  <2> QED BY <2>1, UnsentIsFinite DEF Paid, Balance
<1> QED BY <1>1, <1>2, NextPaid, PTL DEF Spec
=============================================================================
