------------------------------ MODULE Reminders ------------------------------
(***************************************************************************)
(* Repayment reminders: a daily scan queues one job per installment and    *)
(* kind of reminder, under an id made of the two, and the reminder workers *)
(* send the SMS and then record, in one transaction, the notification and  *)
(* the reminder.  The queue keeps at most one job per id, tries a job that *)
(* throws again, and hands a job whose worker stopped renewing its lock to *)
(* another worker, whether or not the first one still runs.                *)
(*                                                                         *)
(* Loans of a group are never reminded of and are left out.  An            *)
(* installment whose rows were deleted belongs to a loan that is not open. *)
(*                                                                         *)
(* A definition whose name ends in an underscore and a mistake is the next *)
(* definition with that mistake; it is used only to show that a property   *)
(* would notice.                                                           *)
(***************************************************************************)
EXTENDS FiniteSets, Functions, Integers

CONSTANTS
  Installments,
  Days,        \* calendar days; a scan runs at five in the morning
  Workers,     \* jobs the reminder workers have room for
  Back, Ahead, \* the days before and after today a scan looks at (30 and 3)
  Attempts,    \* attempts of a job (6)
  MaxStalls,   \* lost locks a job survives (the queue's default, 1)
  MaxChanges,  \* bound: how often a loan is serviced
  MaxMishaps,  \* bound: how much goes wrong with the jobs
  None

ASSUME ReminderAssumption ==
  /\ Days \subseteq Int
  /\ IsFiniteSet(Workers) /\ None \notin Workers
  /\ Ahead \in Nat /\ Back \in Nat
  /\ Attempts \in Nat \ {0} /\ MaxStalls \in Nat
  /\ MaxChanges \in Nat /\ MaxMishaps \in Nat

VARIABLES
  today,
  rows,       \* the installments: when due, and what is owed on them
  changes,
  scan,       \* jobs a running scan still has to add
  jobs,       \* the repayment-reminders queue, by job id
  hands,      \* what a worker is doing
  sms,        \* messages the provider accepted, by job id
  reminders,  \* the channels of the Reminder and Notification rows, by deduplication key
  mishaps     \* what went wrong with the jobs of an id

vars == <<today, rows, changes, scan, jobs, hands, sms, reminders, mishaps>>

Kinds == {"DUE_SOON", "DUE_TODAY", "OVERDUE"}
JobIds == Installments \X Kinds
Rows == [due : Days, standing : {"owing", "waived", "settled"}]
Adds == [id : JobIds, due : Days]
Over == {"recorded", "skipped", "failed"}
LiveJobs == [state : {"waiting", "active"}, due : Days, tried : 0..(Attempts - 1),
             stalls : 0..MaxStalls, holder : Workers \cup {None}]
Jobs == LiveJobs \cup [state : Over]
Hands == [job : JobIds, due : Days, phase : {"taken", "sent"}, ok : BOOLEAN]

ASSUME NoneAssumption == None \notin Jobs /\ None \notin Hands /\ None \notin {"SMS", "IN_APP"}

Init ==
  /\ today \in Days
  /\ rows \in [Installments -> {r \in Rows : r.standing = "owing"}]
  /\ changes = 0
  /\ scan = {}
  /\ jobs = [j \in JobIds |-> None]
  /\ hands = [w \in Workers |-> None]
  /\ sms = [j \in JobIds |-> 0]
  /\ reminders = [j \in JobIds |-> None]
  /\ mishaps = [j \in JobIds |-> 0]

Tick ==
  /\ today + 1 \in Days
  /\ today' = today + 1
  /\ UNCHANGED <<rows, changes, scan, jobs, hands, sms, reminders, mishaps>>

\* A repayment, a waiver, a closure of the loan, the reversal of one of them, or a rescheduling.
\* An installment is settled when it is paid or its loan is not open.
Service(i) ==
  /\ changes < MaxChanges
  /\ changes' = changes + 1
  /\ \E r \in Rows \ {rows[i]} : rows' = [rows EXCEPT ![i] = r]
  /\ UNCHANGED <<today, scan, jobs, hands, sms, reminders, mishaps>>

\* The days left are rounded down, so at five in the morning a due date is a day nearer than the
\* calendar says: on its own day it is past.
Kind(due) ==
  LET days == due - today - 1 IN
  IF days < 0 THEN "OVERDUE" ELSE IF days = 0 THEN "DUE_TODAY" ELSE "DUE_SOON"

\* What a scan finds.  At five in the morning, the due date Back days ago lies before its window.  It
\* subtracts what was paid but not what was waived.
Found == {[id |-> <<i, Kind(rows[i].due)>>, due |-> rows[i].due] : i \in
            {k \in Installments : /\ rows[k].due - today \in (1 - Back)..Ahead
                                  /\ rows[k].standing \in {"owing", "waived"}}}

\* The scheduler starts a scan a day; one whose job was lost starts over.
StartScan ==
  /\ scan = {}
  /\ Found # {}
  /\ scan' = Found
  /\ UNCHANGED <<today, rows, changes, jobs, hands, sms, reminders, mishaps>>

\* The scan is cut short by an error or a crash.
AbortScan ==
  /\ scan # {}
  /\ scan' = {}
  /\ UNCHANGED <<today, rows, changes, jobs, hands, sms, reminders, mishaps>>

Waiting(due) == [state |-> "waiting", due |-> due, tried |-> 0, stalls |-> 0, holder |-> None]

AddJob_WithoutId ==
  \E a \in scan :
    /\ scan' = scan \ {a}
    /\ jobs' = IF jobs[a.id] = None \/ jobs[a.id].state \in Over
               THEN [jobs EXCEPT ![a.id] = Waiting(a.due)] ELSE jobs
    /\ UNCHANGED <<today, rows, changes, hands, sms, reminders, mishaps>>

\* queue.add ignores a job whose id the queue still holds, also when that job is over.
AddJob ==
  \E a \in scan :
    /\ scan' = scan \ {a}
    /\ jobs' = IF jobs[a.id] = None THEN [jobs EXCEPT ![a.id] = Waiting(a.due)] ELSE jobs
    /\ UNCHANGED <<today, rows, changes, hands, sms, reminders, mishaps>>
-----------------------------------------------------------------------------
Applies(i, due) == rows[i].standing = "owing" /\ rows[i].due = due

Take_FirstAttempt(w) ==
  /\ hands[w] = None
  /\ \E j \in JobIds :
       /\ jobs[j] # None
       /\ jobs[j].state = "waiting"
       /\ jobs[j].tried = 0
       /\ jobs' = [jobs EXCEPT ![j] = [@ EXCEPT !.state = "active", !.holder = w]]
       /\ hands' = [hands EXCEPT ![w] =
                      [job |-> j, due |-> jobs[j].due, phase |-> "taken", ok |-> FALSE]]
  /\ UNCHANGED <<today, rows, changes, scan, sms, reminders, mishaps>>

Take(w) ==
  /\ hands[w] = None
  /\ \E j \in JobIds :
       /\ jobs[j] # None
       /\ jobs[j].state = "waiting"
       /\ jobs' = [jobs EXCEPT ![j] = [@ EXCEPT !.state = "active", !.holder = w]]
       /\ hands' = [hands EXCEPT ![w] =
                      [job |-> j, due |-> jobs[j].due, phase |-> "taken", ok |-> FALSE]]
  /\ UNCHANGED <<today, rows, changes, scan, sms, reminders, mishaps>>

Ended(state) == [state |-> state]

Active(j) == jobs[j] # None /\ jobs[j].state = "active"
Holds(w, j) == Active(j) /\ jobs[j].holder = w

\* The worker reports how the job ended; the queue ignores it once the job was taken away.
Finish(w, job) ==
  /\ hands' = [hands EXCEPT ![w] = None]
  /\ jobs' = IF Holds(w, hands[w].job) THEN [jobs EXCEPT ![hands[w].job] = job] ELSE jobs

\* The worker reads the installment and drops a reminder that no longer applies, for good.
Skip(w) ==
  /\ hands[w] # None
  /\ hands[w].phase = "taken"
  /\ ~Applies(hands[w].job[1], hands[w].due)
  /\ Finish(w, Ended("skipped"))
  /\ UNCHANGED <<today, rows, changes, scan, sms, reminders, mishaps>>

\* Otherwise it sends the SMS; what happens to the loan between the two makes no difference.
\* sendSms never throws: it may fail, and it reports a failure as well when the answer of a
\* provider that accepted the message is lost.
Send(w) ==
  /\ hands[w] # None
  /\ hands[w].phase = "taken"
  /\ Applies(hands[w].job[1], hands[w].due)
  /\ \E accepted, ok \in BOOLEAN :
       /\ ok => accepted
       /\ hands' = [hands EXCEPT ![w] = [@ EXCEPT !.phase = "sent", !.ok = ok]]
       /\ sms' = [sms EXCEPT ![hands[w].job] = IF accepted THEN @ + 1 ELSE @]
  /\ UNCHANGED <<today, rows, changes, scan, jobs, reminders, mishaps>>

Channels_Assumed(w) == "SMS"

Channels(w) == IF hands[w].ok THEN "SMS" ELSE "IN_APP"

\* The transaction upserts the notification and the reminder under the job id.
Record(w) ==
  /\ hands[w] # None
  /\ hands[w].phase = "sent"
  /\ reminders' = [reminders EXCEPT ![hands[w].job] = Channels(w)]
  /\ Finish(w, Ended("recorded"))
  /\ UNCHANGED <<today, rows, changes, scan, sms, mishaps>>
-----------------------------------------------------------------------------
Total == FoldFunction(+, 0, mishaps)

Mishap(j) ==
  /\ Total < MaxMishaps
  /\ mishaps' = [mishaps EXCEPT ![j] = @ + 1]

Retried(job) ==
  IF job.tried + 1 < Attempts
  THEN [job EXCEPT !.state = "waiting", !.tried = @ + 1, !.holder = None]
  ELSE Ended("failed")

\* A query or the transaction throws, possibly after it committed; the job waits for its next
\* attempt, if it has one.
Fail(w) ==
  /\ hands[w] # None
  /\ Mishap(hands[w].job)
  /\ Finish(w, Retried(jobs[hands[w].job]))
  /\ \E committed \in BOOLEAN :
       reminders' = IF committed /\ hands[w].phase = "sent"
                    THEN [reminders EXCEPT ![hands[w].job] = Channels(w)] ELSE reminders
  /\ UNCHANGED <<today, rows, changes, scan, sms>>

\* A worker process stops in the middle of a job.
Crash(w) ==
  /\ hands[w] # None
  /\ Mishap(hands[w].job)
  /\ hands' = [hands EXCEPT ![w] = None]
  /\ UNCHANGED <<today, rows, changes, scan, jobs, sms, reminders>>

Stalled_Endlessly(job) ==
  [job EXCEPT !.state = "waiting", !.stalls = @ + 1, !.holder = None]

Stalled(job) ==
  IF job.stalls < MaxStalls
  THEN [job EXCEPT !.state = "waiting", !.stalls = @ + 1, !.holder = None]
  ELSE Ended("failed")

Runs(w, j) == Holds(w, j) /\ hands[w] # None /\ hands[w].job = j
Orphan(j) == Active(j) /\ ~ \E w \in Workers : Runs(w, j)

\* A worker that is too busy to renew its lock loses the job and does not know it.
LoseLock(j) ==
  /\ Active(j)
  /\ ~Orphan(j)
  /\ Mishap(j)
  /\ jobs' = [jobs EXCEPT ![j] = Stalled(@)]
  /\ UNCHANGED <<today, rows, changes, scan, hands, sms, reminders>>

\* The stalled check finds the lock of a stopped worker expired.
Recover(j) ==
  /\ Orphan(j)
  /\ jobs' = [jobs EXCEPT ![j] = Stalled(@)]
  /\ UNCHANGED <<today, rows, changes, scan, hands, sms, reminders, mishaps>>

\* The queue keeps the last 5000 jobs that completed and the last 10000 that failed.
Forget(j) ==
  /\ jobs[j] # None
  /\ jobs[j].state \in Over
  /\ Mishap(j)
  /\ jobs' = [jobs EXCEPT ![j] = None]
  /\ UNCHANGED <<today, rows, changes, scan, hands, sms, reminders>>

Work(w) == Take(w) \/ Skip(w) \/ Send(w) \/ Record(w)

Next ==
  \/ Tick \/ StartScan \/ AddJob \/ AbortScan
  \/ \E i \in Installments : Service(i)
  \/ \E w \in Workers : Work(w) \/ Fail(w) \/ Crash(w)
  \/ \E j \in JobIds : LoseLock(j) \/ Recover(j) \/ Forget(j)

\* Workers take jobs as long as there are any and never wait for anything but their own calls,
\* and the queue looks for stalled jobs every half minute.
Fairness ==
  /\ \A w \in Workers : WF_vars(Work(w))
  /\ \A j \in JobIds : WF_vars(Recover(j))

Spec == Init /\ [][Next]_vars /\ Fairness
-----------------------------------------------------------------------------
TypeOK ==
  /\ today \in Days
  /\ rows \in [Installments -> Rows]
  /\ changes \in Nat
  /\ scan \subseteq Adds
  /\ jobs \in [JobIds -> Jobs \cup {None}]
  /\ hands \in [Workers -> Hands \cup {None}]
  /\ sms \in [JobIds -> Nat]
  /\ reminders \in [JobIds -> {None, "SMS", "IN_APP"}]
  /\ mishaps \in [JobIds -> Nat]

\* However often an installment is scanned, a client gets a notice again only when an attempt
\* threw, a worker stopped or lost its lock, or the queue no longer remembers the job, and then
\* at most once for each of them.
ResentOnlyAfterMishap == \A j \in JobIds : sms[j] <= 1 + mishaps[j]

\* A job that ended as sent has left its reminder row, through all retries and overtakings, and
\* a row names SMS as a channel only if the provider accepted a message.
RowTellsWhatHappened ==
  \A j \in JobIds :
    /\ jobs[j] # None /\ jobs[j].state = "recorded" => reminders[j] # None
    /\ reminders[j] = "SMS" => sms[j] > 0

\* A queued reminder does not linger: it is recorded, dropped as stale, or gives up its attempts.
EventuallyOver ==
  \A j \in JobIds : []<>(jobs[j] = None \/ jobs[j].state \in Over)

\* The message of a DUE_TODAY reminder asks for a payment "due TODAY" (sms-copy.ts): the scan
\* that chooses it should run on the due date.
DueTodayIsToday ==
  [][\A a \in scan' \ scan : a.id[2] = "DUE_TODAY" => a.due = today]_vars
=============================================================================
