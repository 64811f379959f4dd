-------------------------- MODULE AccountingPeriod --------------------------
(***************************************************************************)
(* The books of one office (ledger/): journals posted by hand, by a rule,  *)
(* as opening balances and as loan loss provisions, and the closures that  *)
(* lock a period.  Every command checks its idempotency key and its period *)
(* before it opens the transaction that writes; between the two, any other *)
(* command may commit.  A command and a journal carry in seen how many     *)
(* closures there were when the period was checked, a provision in known   *)
(* which dates were posted when it read the latest one.                    *)
(*                                                                         *)
(* A definition whose name ends in an underscore and a mistake is the next *)
(* definition with that mistake; it is used only to show that a property   *)
(* would notice.                                                           *)
(***************************************************************************)
EXTENDS FiniteSets, Functions, Integers, Sequences

CONSTANTS
  Clerks,       \* commands in flight
  Days,         \* business dates
  Keys,         \* idempotency keys of journals posted by hand or by a rule
  Accounts,     \* ledger accounts with an opening balance
  Amounts,      \* provisions the arrears of a day may require
  MaxClosures,  \* bound: how many closures are created
  None

VARIABLES
  closures,    \* the closing dates, in the order their rows were created
  entries,     \* journals posted under a key
  openings,    \* opening balance journals, with the migration row of the account
  provisions,  \* provisioning journals of a date
  postings,    \* the ProvisioningPosting rows
  commands     \* what a clerk's command has read and checked

journalVars == <<entries, openings, provisions>>
vars == <<closures, journalVars, postings, commands>>

Seen == 0..MaxClosures
Journals == [day : Days, seen : Seen]
ProvisionJournals == [day : Days, amount : Nat \ {0}, direction : {"INCREASE", "RELEASE"}, seen : Seen]
Postings == [required : Amounts, previous : Nat]

ASSUME PeriodAssumption ==
  /\ Days \subseteq Nat \ {0} /\ IsFiniteSet(Days)
  /\ Amounts \subseteq Nat
  /\ MaxClosures \in Nat
  /\ None \notin Journals /\ None \notin ProvisionJournals /\ None \notin Postings

Closing == [op : {"close"}, day : Days]
Posting == [op : {"entry"}, key : Keys, journal : Journals]
Opening == [op : {"opening"}, account : Accounts, journal : Journals]
Provisioning == [op : {"provision"}, day : Days, posting : Postings, known : SUBSET Days, seen : Seen]
Commands == Closing \cup Posting \cup Opening \cup Provisioning

Init ==
  /\ closures = <<>>
  /\ entries = [k \in Keys |-> None]
  /\ openings = [a \in Accounts |-> None]
  /\ provisions = [d \in Days |-> None]
  /\ postings = [d \in Days |-> None]
  /\ commands = [c \in Clerks |-> None]

Open_LastCreated(d) == \A n \in 1..Len(closures) : n = Len(closures) => d > closures[n]

\* assertPeriodOpen: the date lies after the latest closing date.
Open(d) == \A n \in 1..Len(closures) : d > closures[n]

Begin(c, command) ==
  /\ commands[c] = None
  /\ commands' = [commands EXCEPT ![c] = command]
  /\ UNCHANGED <<closures, journalVars, postings>>

Done(c) == commands' = [commands EXCEPT ![c] = None]

Pending(c, op) == commands[c] # None /\ commands[c].op = op
-----------------------------------------------------------------------------
(* Closing a period *)

\* createAccountingClosure: the closing date must lie after the latest one.
StartClosure(c, d) ==
  /\ Open(d)
  /\ Begin(c, [op |-> "close", day |-> d])

\* Nothing is compared again, and no key makes a second closure fail.
CommitClosure(c) ==
  /\ Pending(c, "close")
  /\ Len(closures) < MaxClosures
  /\ closures' = Append(closures, commands[c].day)
  /\ Done(c)
  /\ UNCHANGED <<journalVars, postings>>
-----------------------------------------------------------------------------
(* Journals under a key *)

\* The three handlers share the keys: one answers with the journal another posted.
StartEntry(c, k, d) ==
  /\ entries[k] = None
  /\ Open(d)
  /\ Begin(c, [op |-> "entry", key |-> k, journal |-> [day |-> d, seen |-> Len(closures)]])

StartJournalEntry(c, k, d) == StartEntry(c, k, d)
StartManualEntry(c, k, d) == StartEntry(c, k, d)
StartRulePosting(c, k, d) == StartEntry(c, k, d)

CommitEntry_KeyNotUnique(c) ==
  /\ Pending(c, "entry")
  /\ entries' = [entries EXCEPT ![commands[c].key] = commands[c].journal]
  /\ Done(c)
  /\ UNCHANGED <<closures, openings, provisions, postings>>

\* The unique key of the journal fails the second of two.
CommitEntry(c) ==
  /\ Pending(c, "entry")
  /\ entries[commands[c].key] = None
  /\ entries' = [entries EXCEPT ![commands[c].key] = commands[c].journal]
  /\ Done(c)
  /\ UNCHANGED <<closures, openings, provisions, postings>>
-----------------------------------------------------------------------------
(* Opening balances *)

StartOpening(c, a, d) ==
  /\ openings[a] = None
  /\ Open(d)
  /\ Begin(c, [op |-> "opening", account |-> a, journal |-> [day |-> d, seen |-> Len(closures)]])

\* The journal's key and the migration row's key both name the office and the account.
CommitOpening(c) ==
  /\ Pending(c, "opening")
  /\ openings[commands[c].account] = None
  /\ openings' = [openings EXCEPT ![commands[c].account] = commands[c].journal]
  /\ Done(c)
  /\ UNCHANGED <<closures, entries, provisions, postings>>
-----------------------------------------------------------------------------
(* Provisions *)

Posted == {d \in Days : postings[d] # None}
Earlier(d) == {e \in Posted : e < d}
LatestOf(days) == CHOOSE d \in days : \A e \in days : e <= d

\* What the latest of some posted dates required.
RequiredAt(days) == IF days = {} THEN 0 ELSE postings[LatestOf(days)].required

PreviousProvision_First(d) ==
  IF Earlier(d) = {} THEN 0 ELSE postings[CHOOSE e \in Earlier(d) : \A f \in Earlier(d) : e <= f].required

\* What the latest posting before this date required.
PreviousProvision(d) == RequiredAt(Earlier(d))

\* postProvisioningEntry: a date is posted once; the report says what its arrears require.
StartProvision(c, d, required) ==
  /\ postings[d] = None
  /\ Open(d)
  /\ Begin(c, [op |-> "provision", day |-> d, known |-> Posted, seen |-> Len(closures),
               posting |-> [required |-> required, previous |-> PreviousProvision(d)]])

Delta(p) == p.required - p.previous

ProvisionJournal_Negative(d, delta, seen) ==
  [day |-> d, seen |-> seen, amount |-> delta, direction |-> IF delta > 0 THEN "INCREASE" ELSE "RELEASE"]

ProvisionJournal_Unsigned(d, delta, seen) ==
  [day |-> d, seen |-> seen, amount |-> IF delta > 0 THEN delta ELSE -delta, direction |-> "INCREASE"]

\* A journal's amount is positive: a smaller requirement releases the difference.
ProvisionJournal(d, delta, seen) ==
  [day |-> d, seen |-> seen, amount |-> IF delta > 0 THEN delta ELSE -delta,
   direction |-> IF delta > 0 THEN "INCREASE" ELSE "RELEASE"]

\* A date that changes nothing gets its row and no journal.
CommitProvision(c) ==
  LET d == commands[c].day
      p == commands[c].posting
  IN
  /\ Pending(c, "provision")
  /\ postings[d] = None
  /\ postings' = [postings EXCEPT ![d] = p]
  /\ provisions' = IF Delta(p) = 0 THEN provisions
                   ELSE [provisions EXCEPT ![d] = ProvisionJournal(d, Delta(p), commands[c].seen)]
  /\ Done(c)
  /\ UNCHANGED <<closures, entries, openings>>
-----------------------------------------------------------------------------
\* A key already taken, an error or a crash ends a command before it has written.
Abandon(c) ==
  /\ commands[c] # None
  /\ Done(c)
  /\ UNCHANGED <<closures, journalVars, postings>>

Next ==
  \E c \in Clerks :
    \/ \E d \in Days : StartClosure(c, d)
    \/ CommitClosure(c)
    \/ \E k \in Keys, d \in Days : StartJournalEntry(c, k, d) \/ StartManualEntry(c, k, d) \/ StartRulePosting(c, k, d)
    \/ CommitEntry(c)
    \/ \E a \in Accounts, d \in Days : StartOpening(c, a, d)
    \/ CommitOpening(c)
    \/ \E d \in Days, required \in Amounts : StartProvision(c, d, required)
    \/ CommitProvision(c)
    \/ Abandon(c)

Spec == Init /\ [][Next]_vars
-----------------------------------------------------------------------------
TypeOK ==
  /\ closures \in Seq(Days) /\ Len(closures) \in Seen
  /\ entries \in [Keys -> Journals \cup {None}]
  /\ openings \in [Accounts -> Journals \cup {None}]
  /\ provisions \in [Days -> ProvisionJournals \cup {None}]
  /\ postings \in [Days -> Postings \cup {None}]
  /\ commands \in [Clerks -> Commands \cup {None}]

\* No journal lies in a period that was closed when its command checked the period, even where two
\* closures were checked against the same latest one and created the wrong way round.
NotInSeenClosure(journal) ==
  journal # None => \A n \in 1..journal.seen : n <= Len(closures) /\ journal.day > closures[n]

CheckedAgainstClosures ==
  /\ \A k \in Keys : NotInSeenClosure(entries[k])
  /\ \A a \in Accounts : NotInSeenClosure(openings[a])
  /\ \A d \in Days : NotInSeenClosure(provisions[d])

\* What a date's journal moved on the provision account.
Moved(d) ==
  CASE provisions[d] = None -> 0
    [] provisions[d] # None /\ provisions[d].direction = "INCREASE" -> provisions[d].amount
    [] OTHER -> -provisions[d].amount

\* The journals of the provision account move it by what the posting rows say, date by date, whichever
\* of two commands for one date wrote first.
ReserveMatchesPostings ==
  \A d \in Days : Moved(d) = IF postings[d] = None THEN 0 ELSE Delta(postings[d])

Reserve == SumFunctionOnSet([d \in Days |-> Moved(d)], Days)

\* How far the provision account is from what the latest posted date requires.
Drift == Reserve - RequiredAt(Posted)

\* Where the account departs from the requirement.  A provision for the newest date adds no error but
\* what was posted between its read and its write, and takes none away: an earlier error stays.  A
\* back-dated one adds its whole difference, which the dates posted after it already contain.
DriftExplained ==
  [][\A c \in Clerks : CommitProvision(c) =>
       LET d == commands[c].day
           read == {e \in commands[c].known : e < d}
           newest == \A e \in Posted : e < d
           required == IF newest THEN RequiredAt(Posted) ELSE commands[c].posting.required
       IN  Drift' = Drift + required - RequiredAt(read)]_vars

\* A command sent again, by the same handler or by another that shares its key, replaces nothing.
PostedStays ==
  [][/\ \A k \in Keys : entries[k] # None => entries'[k] = entries[k]
     /\ \A a \in Accounts : openings[a] # None => openings'[a] = openings[a]
     /\ \A d \in Days : postings[d] # None => postings'[d] = postings[d] /\ provisions'[d] = provisions[d]]_vars
=============================================================================
