----------------------- MODULE AccountingPeriod_proofs -----------------------
(***************************************************************************)
(* The books of an office, proved for any number of clerks, dates, keys    *)
(* and closures.                                                           *)
(***************************************************************************)
EXTENDS AccountingPeriod, Sums

LEMMA NextCases ==
  ASSUME Next
  PROVE  \E c \in Clerks :
           \/ \E d \in Days : StartClosure(c, d)
           \/ CommitClosure(c)
           \/ \E k \in Keys, d \in Days : StartEntry(c, k, d)
           \/ CommitEntry(c)
           \/ \E a \in Accounts, d \in Days : StartOpening(c, a, d)
           \/ CommitOpening(c)
           \/ \E d \in Days, required \in Amounts : StartProvision(c, d, required)
           \/ CommitProvision(c)
           \/ Abandon(c)
  BY DEF Next, StartJournalEntry, StartManualEntry, StartRulePosting

LEMMA DaysTyped == Days \subseteq Nat /\ Days \subseteq Int /\ IsFiniteSet(Days)
  BY PeriodAssumption

LEMMA Latest ==
  ASSUME NEW days, days \subseteq Days, days # {}
  PROVE  LatestOf(days) \in days /\ \A e \in days : e <= LatestOf(days)
<1>1. days \subseteq Int /\ IsFiniteSet(days)
  BY DaysTyped, FS_Subset
<1>2. \E d \in days : \A e \in days : e <= d
  BY <1>1, Greatest
<1> QED
  BY <1>2 DEF LatestOf

LEMMA EarlierDays ==
  ASSUME NEW d \in Days
  PROVE  Earlier(d) \subseteq Days
  BY DEF Earlier, Posted

LEMMA PreviousTyped ==
  ASSUME postings \in [Days -> Postings \cup {None}], NEW d \in Days
  PROVE  PreviousProvision(d) \in Nat
<1>1. CASE Earlier(d) = {}
  BY <1>1 DEF PreviousProvision, RequiredAt
<1>2. CASE Earlier(d) # {}
  <2>1. LatestOf(Earlier(d)) \in Earlier(d)
    BY <1>2, Latest, EarlierDays
  <2>2. postings[LatestOf(Earlier(d))] \in Postings
    BY <2>1 DEF Earlier, Posted
  <2>3. postings[LatestOf(Earlier(d))].required \in Amounts
    BY <2>2 DEF Postings
  <2> QED
    BY <1>2, <2>3, PeriodAssumption DEF PreviousProvision, RequiredAt
<1> QED
  BY <1>1, <1>2
-----------------------------------------------------------------------------
(* Types *)

LEMMA TypeInit == Init => TypeOK
  BY PeriodAssumption DEF Init, TypeOK, Seen

LEMMA TypeBegin ==
  ASSUME TypeOK, NEW c \in Clerks, NEW command \in Commands, Begin(c, command)
  PROVE  TypeOK'
  BY DEF Begin, TypeOK, journalVars

LEMMA PendingTyped ==
  ASSUME TypeOK, NEW c \in Clerks
  PROVE  /\ Pending(c, "close") => commands[c] \in Closing
         /\ Pending(c, "entry") => commands[c] \in Posting
         /\ Pending(c, "opening") => commands[c] \in Opening
         /\ Pending(c, "provision") => commands[c] \in Provisioning
  BY DEF TypeOK, Commands, Closing, Posting, Opening, Provisioning, Pending

LEMMA PostingTyped ==
  ASSUME NEW p \in Postings
  PROVE  p.required \in Int /\ p.previous \in Int
<1>1. p.required \in Amounts /\ p.previous \in Nat
  BY DEF Postings
<1>2. Amounts \subseteq Nat
  BY PeriodAssumption
<1>3. p.required \in Nat
  BY <1>1, <1>2
<1> QED
  BY <1>1, <1>3

LEMMA DeltaTyped ==
  ASSUME NEW p \in Postings
  PROVE  Delta(p) \in Int
  BY PostingTyped DEF Delta

LEMMA ProvisionTyped ==
  ASSUME NEW d \in Days, NEW p \in Postings, NEW seen \in Seen, Delta(p) # 0
  PROVE  ProvisionJournal(d, Delta(p), seen) \in ProvisionJournals
<1>1. Delta(p) \in Int
  BY DeltaTyped
<1> DEFINE amount == IF Delta(p) > 0 THEN Delta(p) ELSE -Delta(p)
<1>2. amount \in Nat \ {0}
  BY <1>1
<1>3. ProvisionJournal(d, Delta(p), seen)
        = [day |-> d, seen |-> seen, amount |-> amount, direction |-> IF Delta(p) > 0 THEN "INCREASE" ELSE "RELEASE"]
  BY DEF ProvisionJournal
<1> HIDE DEF amount
<1> QED
  BY <1>2, <1>3 DEF ProvisionJournals

LEMMA TypeNext == TypeOK /\ [Next]_vars => TypeOK'
<1> SUFFICES ASSUME TypeOK, [Next]_vars PROVE TypeOK'
  OBVIOUS
<1>0. Len(closures) \in Seen
  BY DEF TypeOK
<1>1. ASSUME NEW c \in Clerks, NEW d \in Days, StartClosure(c, d)
      PROVE  TypeOK'
  BY <1>1, TypeBegin DEF StartClosure, Commands, Closing
<1>2. ASSUME NEW c \in Clerks, CommitClosure(c)
      PROVE  TypeOK'
  <2>1. commands[c].day \in Days
    BY <1>2, PendingTyped DEF CommitClosure, Closing
  <2>2. closures' \in Seq(Days) /\ Len(closures') \in Seen
    BY <1>2, <2>1, PeriodAssumption DEF CommitClosure, TypeOK, Seen
  <2> QED
    BY <1>2, <2>2 DEF CommitClosure, Done, TypeOK, journalVars
<1>3. ASSUME NEW c \in Clerks, NEW k \in Keys, NEW d \in Days, StartEntry(c, k, d)
      PROVE  TypeOK'
  BY <1>0, <1>3, TypeBegin DEF StartEntry, Commands, Posting, Journals
<1>4. ASSUME NEW c \in Clerks, CommitEntry(c)
      PROVE  TypeOK'
  BY <1>4, PendingTyped DEF CommitEntry, Done, TypeOK, Posting
<1>5. ASSUME NEW c \in Clerks, NEW a \in Accounts, NEW d \in Days, StartOpening(c, a, d)
      PROVE  TypeOK'
  BY <1>0, <1>5, TypeBegin DEF StartOpening, Commands, Opening, Journals
<1>6. ASSUME NEW c \in Clerks, CommitOpening(c)
      PROVE  TypeOK'
  BY <1>6, PendingTyped DEF CommitOpening, Done, TypeOK, Opening
<1>7. ASSUME NEW c \in Clerks, NEW d \in Days, NEW required \in Amounts, StartProvision(c, d, required)
      PROVE  TypeOK'
  <2>1. PreviousProvision(d) \in Nat
    BY PreviousTyped DEF TypeOK
  <2> QED
    BY <1>0, <1>7, <2>1, TypeBegin DEF StartProvision, Commands, Provisioning, Postings, Posted
<1>8. ASSUME NEW c \in Clerks, CommitProvision(c)
      PROVE  TypeOK'
  <2>1. commands[c] \in Provisioning
    BY <1>8, PendingTyped DEF CommitProvision
  <2>2. provisions' \in [Days -> ProvisionJournals \cup {None}]
    BY <1>8, <2>1, ProvisionTyped DEF CommitProvision, Provisioning, TypeOK
  <2>3. postings' \in [Days -> Postings \cup {None}]
    BY <1>8, <2>1 DEF CommitProvision, Provisioning, TypeOK
  <2> QED
    BY <1>8, <2>2, <2>3 DEF CommitProvision, Done, TypeOK
<1>9. ASSUME NEW c \in Clerks, Abandon(c)
      PROVE  TypeOK'
  BY <1>9 DEF Abandon, Done, TypeOK, journalVars
<1>10. CASE UNCHANGED vars
  BY <1>10 DEF vars, journalVars, TypeOK
<1> QED
  BY <1>1, <1>2, <1>3, <1>4, <1>5, <1>6, <1>7, <1>8, <1>9, <1>10, NextCases

\* The rows and commands keep to their types; a provision never starts from a negative requirement.
THEOREM Typed == Spec => []TypeOK
  BY TypeInit, TypeNext, PTL DEF Spec
-----------------------------------------------------------------------------
(* The inductive invariant: what a command in flight has checked stays checked *)

SeenKept(d, seen) == \A n \in 1..seen : n <= Len(closures) /\ d > closures[n]

CommandsChecked ==
  \A c \in Clerks :
    /\ Pending(c, "entry") \/ Pending(c, "opening") => SeenKept(commands[c].journal.day, commands[c].journal.seen)
    /\ Pending(c, "provision") => SeenKept(commands[c].day, commands[c].seen)

IInv == TypeOK /\ CommandsChecked /\ CheckedAgainstClosures /\ ReserveMatchesPostings

\* Closures are only added, so a journal checked against the first ones keeps clear of them.
LEMMA ClosuresGrow ==
  ASSUME TypeOK, NEW d \in Days, closures' = Append(closures, d)
  PROVE  \A day, seen : SeenKept(day, seen) => SeenKept(day, seen)'
<1>1. Len(closures') = Len(closures) + 1 /\ \A n \in 1..Len(closures) : closures'[n] = closures[n]
  BY DEF TypeOK
<1>2. Len(closures) \in Nat
  BY DEF TypeOK
<1> SUFFICES ASSUME NEW day, NEW seen, SeenKept(day, seen), NEW n \in 1..seen
             PROVE  n <= Len(closures') /\ day > closures'[n]
  BY DEF SeenKept
<1> QED
  BY <1>1, <1>2 DEF SeenKept

LEMMA CheckedInit == Init => CommandsChecked /\ CheckedAgainstClosures
  BY DEF Init, CommandsChecked, CheckedAgainstClosures, NotInSeenClosure, SeenKept, Pending

\* A command that has just begun was checked against every closure there is.
LEMMA BeginChecked ==
  ASSUME TypeOK, CommandsChecked, CheckedAgainstClosures, NEW c \in Clerks, NEW command, Begin(c, command),
         command.op \in {"entry", "opening"} => SeenKept(command.journal.day, command.journal.seen),
         command.op = "provision" => SeenKept(command.day, command.seen)
  PROVE  CommandsChecked' /\ CheckedAgainstClosures'
  BY DEF Begin, CommandsChecked, CheckedAgainstClosures, NotInSeenClosure, SeenKept, Pending, TypeOK, journalVars

LEMMA JustSeen ==
  ASSUME TypeOK, NEW d \in Days, Open(d)
  PROVE  SeenKept(d, Len(closures))
  BY DEF TypeOK, Open, SeenKept

\* The other commands stay as they were when one is done.
LEMMA DoneChecked ==
  ASSUME TypeOK, CommandsChecked, NEW c \in Clerks, Done(c), closures' = closures
  PROVE  CommandsChecked'
  BY DEF Done, CommandsChecked, NotInSeenClosure, SeenKept, Pending, TypeOK

LEMMA CheckedNext ==
  TypeOK /\ CommandsChecked /\ CheckedAgainstClosures /\ [Next]_vars => CommandsChecked' /\ CheckedAgainstClosures'
<1> SUFFICES ASSUME TypeOK, CommandsChecked, CheckedAgainstClosures, [Next]_vars
             PROVE  CommandsChecked' /\ CheckedAgainstClosures'
  OBVIOUS
<1>1. ASSUME NEW c \in Clerks, NEW d \in Days, StartClosure(c, d)
      PROVE  CommandsChecked' /\ CheckedAgainstClosures'
  BY <1>1, BeginChecked DEF StartClosure
<1>2. ASSUME NEW c \in Clerks, CommitClosure(c)
      PROVE  CommandsChecked' /\ CheckedAgainstClosures'
  <2>1. commands[c].day \in Days /\ closures' = Append(closures, commands[c].day)
    BY <1>2, PendingTyped DEF CommitClosure, Closing
  <2>2. CheckedAgainstClosures'
    BY <1>2, <2>1, ClosuresGrow DEF CheckedAgainstClosures, NotInSeenClosure, SeenKept, CommitClosure, journalVars
  <2>3. \A b \in Clerks : b # c => commands'[b] = commands[b]
    BY <1>2 DEF CommitClosure, Done, TypeOK
  <2>4. commands'[c] = None
    BY <1>2 DEF CommitClosure, Done, TypeOK
  <2>5. \A day, seen : SeenKept(day, seen) => \A n \in 1..seen : n <= Len(closures') /\ day > closures'[n]
    BY <2>1, ClosuresGrow DEF SeenKept
  <2>6. CommandsChecked'
    <3> SUFFICES ASSUME NEW b \in Clerks, b # c
                 PROVE  /\ Pending(b, "entry") \/ Pending(b, "opening")
                             => \A n \in 1..commands[b].journal.seen :
                                  n <= Len(closures') /\ commands[b].journal.day > closures'[n]
                        /\ Pending(b, "provision")
                             => \A n \in 1..commands[b].seen : n <= Len(closures') /\ commands[b].day > closures'[n]
      BY <2>3, <2>4 DEF CommandsChecked, SeenKept, Pending
    <3>1. /\ Pending(b, "entry") \/ Pending(b, "opening") => SeenKept(commands[b].journal.day, commands[b].journal.seen)
          /\ Pending(b, "provision") => SeenKept(commands[b].day, commands[b].seen)
      BY DEF CommandsChecked
    <3> HIDE DEF Pending
    <3> QED
      BY <2>5, <3>1
  <2> QED
    BY <2>2, <2>6
<1>3. ASSUME NEW c \in Clerks, NEW k \in Keys, NEW d \in Days, StartEntry(c, k, d)
      PROVE  CommandsChecked' /\ CheckedAgainstClosures'
  BY <1>3, BeginChecked, JustSeen DEF StartEntry
<1>4. ASSUME NEW c \in Clerks, CommitEntry(c)
      PROVE  CommandsChecked' /\ CheckedAgainstClosures'
  <2>1. CommandsChecked'
    BY <1>4, DoneChecked DEF CommitEntry
  <2>2. SeenKept(commands[c].journal.day, commands[c].journal.seen)
    BY <1>4 DEF CommitEntry, CommandsChecked
  <2>3. CheckedAgainstClosures'
    BY <1>4, <2>2 DEF CommitEntry, CheckedAgainstClosures, NotInSeenClosure, SeenKept, TypeOK
  <2> QED
    BY <2>1, <2>3
<1>5. ASSUME NEW c \in Clerks, NEW a \in Accounts, NEW d \in Days, StartOpening(c, a, d)
      PROVE  CommandsChecked' /\ CheckedAgainstClosures'
  BY <1>5, BeginChecked, JustSeen DEF StartOpening
<1>6. ASSUME NEW c \in Clerks, CommitOpening(c)
      PROVE  CommandsChecked' /\ CheckedAgainstClosures'
  <2>1. CommandsChecked'
    BY <1>6, DoneChecked DEF CommitOpening
  <2>2. SeenKept(commands[c].journal.day, commands[c].journal.seen)
    BY <1>6 DEF CommitOpening, CommandsChecked
  <2>3. CheckedAgainstClosures'
    BY <1>6, <2>2 DEF CommitOpening, CheckedAgainstClosures, NotInSeenClosure, SeenKept, TypeOK
  <2> QED
    BY <2>1, <2>3
<1>7. ASSUME NEW c \in Clerks, NEW d \in Days, NEW required \in Amounts, StartProvision(c, d, required)
      PROVE  CommandsChecked' /\ CheckedAgainstClosures'
  BY <1>7, BeginChecked, JustSeen DEF StartProvision
<1>8. ASSUME NEW c \in Clerks, CommitProvision(c)
      PROVE  CommandsChecked' /\ CheckedAgainstClosures'
  <2>1. CommandsChecked'
    BY <1>8, DoneChecked DEF CommitProvision
  <2>2. SeenKept(commands[c].day, commands[c].seen)
    BY <1>8 DEF CommitProvision, CommandsChecked
  <2>3. \A d \in Days :
          provisions'[d] # provisions[d]
            => provisions'[d].day = commands[c].day /\ provisions'[d].seen = commands[c].seen
    BY <1>8 DEF CommitProvision, ProvisionJournal, TypeOK
  <2>4. CheckedAgainstClosures'
    BY <1>8, <2>2, <2>3 DEF CommitProvision, CheckedAgainstClosures, NotInSeenClosure, SeenKept
  <2> QED
    BY <2>1, <2>4
<1>9. ASSUME NEW c \in Clerks, Abandon(c)
      PROVE  CommandsChecked' /\ CheckedAgainstClosures'
  BY <1>9, DoneChecked DEF Abandon, CheckedAgainstClosures, NotInSeenClosure, SeenKept, journalVars
<1>10. CASE UNCHANGED vars
  BY <1>10 DEF vars, journalVars, CommandsChecked, CheckedAgainstClosures, NotInSeenClosure, SeenKept, Pending
<1> QED
  BY <1>1, <1>2, <1>3, <1>4, <1>5, <1>6, <1>7, <1>8, <1>9, <1>10, NextCases
-----------------------------------------------------------------------------
(* The reserve *)

LEMMA ReserveInit == Init => ReserveMatchesPostings
  BY DEF Init, ReserveMatchesPostings, Moved

LEMMA ReserveNext == TypeOK /\ ReserveMatchesPostings /\ [Next]_vars => ReserveMatchesPostings'
<1> SUFFICES ASSUME TypeOK, ReserveMatchesPostings, [Next]_vars PROVE ReserveMatchesPostings'
  OBVIOUS
<1>1. ASSUME UNCHANGED <<provisions, postings>> PROVE ReserveMatchesPostings'
  BY <1>1 DEF ReserveMatchesPostings, Moved
<1>2. ASSUME NEW c \in Clerks, CommitProvision(c) PROVE ReserveMatchesPostings'
  <2> DEFINE d == commands[c].day
             p == commands[c].posting
  <2>1. /\ d \in Days /\ p \in Postings /\ commands[c].seen \in Seen
        /\ postings[d] = None
        /\ postings' = [postings EXCEPT ![d] = p]
        /\ provisions' = IF Delta(p) = 0 THEN provisions
                         ELSE [provisions EXCEPT ![d] = ProvisionJournal(d, Delta(p), commands[c].seen)]
    BY <1>2, PendingTyped DEF CommitProvision, Provisioning
  <2> HIDE DEF d, p
  <2>2. \A e \in Days : e # d => provisions'[e] = provisions[e] /\ postings'[e] = postings[e]
    BY <2>1 DEF TypeOK
  <2>3. postings'[d] = p
    BY <2>1 DEF TypeOK
  <2>4. p # None
    BY <2>1, PeriodAssumption
  <2>5. provisions[d] = None
    <3>1. Moved(d) = 0
      BY <2>1 DEF ReserveMatchesPostings
    <3>2. provisions[d] # None => provisions[d].amount \in Nat \ {0}
      BY <2>1 DEF TypeOK, ProvisionJournals
    <3> QED
      BY <3>1, <3>2 DEF Moved
  <2>6. ASSUME NEW e \in Days, e = d
        PROVE  Moved(e)' = Delta(p)
    <3>1. CASE Delta(p) = 0
      BY <2>1, <2>5, <2>6, <3>1 DEF Moved
    <3>2. CASE Delta(p) # 0
      <4>1. provisions'[e] = ProvisionJournal(d, Delta(p), commands[c].seen)
        BY <2>1, <2>6, <3>2 DEF TypeOK
      <4>2. provisions'[e] # None
        BY <2>1, <3>2, <4>1, ProvisionTyped, PeriodAssumption
      <4>3. Delta(p) \in Int
        BY <2>1, DeltaTyped
      <4>4. Delta(p) > 0 => provisions'[e].direction = "INCREASE" /\ provisions'[e].amount = Delta(p)
        BY <4>1 DEF ProvisionJournal
      <4>5. ~(Delta(p) > 0) => provisions'[e].direction = "RELEASE" /\ provisions'[e].amount = -Delta(p)
        BY <4>1 DEF ProvisionJournal
      <4> QED
        BY <4>2, <4>3, <4>4, <4>5 DEF Moved
    <3> QED
      BY <3>1, <3>2
  <2>7. ASSUME NEW e \in Days
        PROVE  Moved(e)' = IF postings'[e] = None THEN 0 ELSE Delta(postings'[e])
    <3>1. CASE e = d
      BY <2>3, <2>4, <2>6, <3>1
    <3>2. CASE e # d
      BY <2>2, <3>2 DEF ReserveMatchesPostings, Moved
    <3> QED
      BY <3>1, <3>2
  <2> QED
    BY <2>7 DEF ReserveMatchesPostings, Delta
<1> QED
  BY <1>1, <1>2, NextCases DEF StartClosure, CommitClosure, StartEntry, CommitEntry, StartOpening, CommitOpening,
     StartProvision, Abandon, Begin, vars, journalVars

THEOREM Invariant == Spec => []IInv
<1>1. Init => IInv
  BY TypeInit, CheckedInit, ReserveInit DEF IInv
<1>2. IInv /\ [Next]_vars => IInv'
  BY TypeNext, CheckedNext, ReserveNext DEF IInv
<1> QED
  BY <1>1, <1>2, PTL DEF Spec

\* No journal lies in a period closed when it was checked, in whatever order closures were created.
THEOREM JournalsKeepClear == Spec => []CheckedAgainstClosures
<1>1. IInv => CheckedAgainstClosures
  BY DEF IInv
<1> QED
  BY <1>1, Invariant, PTL

\* The provision account moved by what the posting rows say, whatever the commands in flight had read.
THEOREM ReserveIsPosted == Spec => []ReserveMatchesPostings
<1>1. IInv => ReserveMatchesPostings
  BY DEF IInv
<1> QED
  BY <1>1, Invariant, PTL
-----------------------------------------------------------------------------
(* What is posted stays *)

LEMMA StaysNext ==
  TypeOK /\ [Next]_vars =>
    /\ \A k \in Keys : entries[k] # None => entries'[k] = entries[k]
    /\ \A a \in Accounts : openings[a] # None => openings'[a] = openings[a]
    /\ \A d \in Days : postings[d] # None => postings'[d] = postings[d] /\ provisions'[d] = provisions[d]
<1> SUFFICES ASSUME TypeOK, [Next]_vars
             PROVE  /\ \A k \in Keys : entries[k] # None => entries'[k] = entries[k]
                    /\ \A a \in Accounts : openings[a] # None => openings'[a] = openings[a]
                    /\ \A d \in Days : postings[d] # None => postings'[d] = postings[d] /\ provisions'[d] = provisions[d]
  OBVIOUS
<1>1. CASE UNCHANGED <<journalVars, postings>>
  BY <1>1 DEF journalVars
<1>2. ASSUME NEW c \in Clerks, CommitEntry(c)
      PROVE  /\ \A k \in Keys : entries[k] # None => entries'[k] = entries[k]
             /\ UNCHANGED <<openings, provisions, postings>>
  BY <1>2 DEF CommitEntry, TypeOK
<1>3. ASSUME NEW c \in Clerks, CommitOpening(c)
      PROVE  /\ \A a \in Accounts : openings[a] # None => openings'[a] = openings[a]
             /\ UNCHANGED <<entries, provisions, postings>>
  BY <1>3 DEF CommitOpening, TypeOK
<1>4. ASSUME NEW c \in Clerks, CommitProvision(c)
      PROVE  /\ \A d \in Days : postings[d] # None => postings'[d] = postings[d] /\ provisions'[d] = provisions[d]
             /\ UNCHANGED <<entries, openings>>
  BY <1>4 DEF CommitProvision, TypeOK
<1> QED
  BY <1>1, <1>2, <1>3, <1>4, NextCases DEF StartClosure, CommitClosure, StartEntry, StartOpening, StartProvision,
     Abandon, Begin, vars

\* A command sent again, by whichever handler, replaces no journal and no posting.
THEOREM NothingReplaced == Spec => PostedStays
  BY Typed, StaysNext, PTL DEF Spec, PostedStays
-----------------------------------------------------------------------------
(***************************************************************************)
(* How far the account is from the requirement.  What a provision in       *)
(* flight holds as the previous requirement is that of the latest earlier  *)
(* date it knew; rows are never replaced, so it still is when it commits.  *)
(***************************************************************************)

ProvisionsRead ==
  \A c \in Clerks :
    Pending(c, "provision") =>
      /\ commands[c].known \subseteq Posted
      /\ commands[c].posting.previous = RequiredAt({e \in commands[c].known : e < commands[c].day})

\* What given posting rows say that the latest of some dates required.
RequiredIn(rows, days) == IF days = {} THEN 0 ELSE rows[LatestOf(days)].required

LEMMA RequiredNow == \A days : RequiredAt(days) = RequiredIn(postings, days)
  BY DEF RequiredAt, RequiredIn

\* The requirement of posted dates stays what it is.
LEMMA RequiredKept ==
  ASSUME TypeOK, [Next]_vars, NEW days \in SUBSET Posted
  PROVE  RequiredIn(postings', days) = RequiredIn(postings, days) /\ days \subseteq Posted'
<1>1. \A d \in Posted : postings'[d] = postings[d] /\ d \in Days /\ postings[d] # None
  BY StaysNext DEF Posted
<1>2. days # {} => LatestOf(days) \in Posted
  BY <1>1, Latest
<1>3. RequiredIn(postings', days) = RequiredIn(postings, days)
  BY <1>1, <1>2 DEF RequiredIn
<1>4. days \subseteq Posted'
  BY <1>1 DEF Posted
<1> QED
  BY <1>3, <1>4

LEMMA ReadInit == Init => ProvisionsRead
  BY DEF Init, ProvisionsRead, Pending

\* A command that is a provision after a step was that provision before, or has just begun.
LEMMA ProvisionBefore ==
  ASSUME TypeOK, [Next]_vars, NEW c \in Clerks, Pending(c, "provision")'
  PROVE  commands'[c] = commands[c] \/ \E d \in Days, required \in Amounts : StartProvision(c, d, required)
<1>1. commands'[c] # None /\ commands'[c].op = "provision"
  BY DEF Pending
<1>2. ASSUME NEW b \in Clerks, NEW command, Begin(b, command), b = c => command.op # "provision"
      PROVE  commands'[c] = commands[c]
  BY <1>1, <1>2 DEF Begin, TypeOK
<1>3. ASSUME NEW b \in Clerks, Done(b)
      PROVE  commands'[c] = commands[c]
  BY <1>1, <1>3 DEF Done, TypeOK
<1>4. ASSUME NEW b \in Clerks, NEW d \in Days, StartClosure(b, d)
      PROVE  commands'[c] = commands[c]
  BY <1>2, <1>4 DEF StartClosure
<1>5. ASSUME NEW b \in Clerks, NEW k \in Keys, NEW d \in Days, StartEntry(b, k, d)
      PROVE  commands'[c] = commands[c]
  BY <1>2, <1>5 DEF StartEntry
<1>6. ASSUME NEW b \in Clerks, NEW a \in Accounts, NEW d \in Days, StartOpening(b, a, d)
      PROVE  commands'[c] = commands[c]
  BY <1>2, <1>6 DEF StartOpening
<1>7. ASSUME NEW b \in Clerks, NEW d \in Days, NEW required \in Amounts, StartProvision(b, d, required), b # c
      PROVE  commands'[c] = commands[c]
  BY <1>2, <1>7 DEF StartProvision
<1>8. CASE UNCHANGED vars
  BY <1>8 DEF vars
<1> QED
  BY <1>3, <1>4, <1>5, <1>6, <1>7, <1>8, NextCases DEF CommitClosure, CommitEntry, CommitOpening, CommitProvision, Abandon

LEMMA ReadNext == TypeOK /\ ProvisionsRead /\ [Next]_vars => ProvisionsRead'
<1> SUFFICES ASSUME TypeOK, ProvisionsRead, [Next]_vars, NEW c \in Clerks, Pending(c, "provision")'
             PROVE  /\ commands'[c].known \subseteq Posted'
                    /\ commands'[c].posting.previous
                         = RequiredIn(postings', {e \in commands'[c].known : e < commands'[c].day})
  BY DEF ProvisionsRead, RequiredAt, RequiredIn
<1>1. CASE commands'[c] = commands[c]
  <2> DEFINE known == commands[c].known
             read == {e \in known : e < commands[c].day}
  <2>1. Pending(c, "provision")
    BY <1>1 DEF Pending
  <2>2. known \subseteq Posted /\ commands[c].posting.previous = RequiredIn(postings, read)
    BY <2>1, RequiredNow DEF ProvisionsRead
  <2>3. known \in SUBSET Posted /\ read \in SUBSET Posted
    BY <2>2
  <2> HIDE DEF known, read
  <2>4. RequiredIn(postings', read) = RequiredIn(postings, read) /\ known \subseteq Posted'
    BY <2>3, RequiredKept
  <2> QED
    BY <1>1, <2>2, <2>4 DEF known, read
<1>2. ASSUME NEW d \in Days, NEW required \in Amounts, StartProvision(c, d, required)
      PROVE  /\ commands'[c].known \subseteq Posted'
             /\ commands'[c].posting.previous
                  = RequiredIn(postings', {e \in commands'[c].known : e < commands'[c].day})
  <2>1. /\ postings' = postings
        /\ commands'[c] = [op |-> "provision", day |-> d, known |-> Posted, seen |-> Len(closures),
                           posting |-> [required |-> required, previous |-> PreviousProvision(d)]]
    BY <1>2 DEF StartProvision, Begin, TypeOK
  <2>2. PreviousProvision(d) = RequiredIn(postings, {e \in Posted : e < d})
    BY RequiredNow DEF PreviousProvision, Earlier
  <2>3. Posted' = Posted
    BY <2>1 DEF Posted
  <2> QED
    BY <2>1, <2>2, <2>3
<1> QED
  BY <1>1, <1>2, ProvisionBefore
-----------------------------------------------------------------------------
MovedOn == [d \in Days |-> Moved(d)]

LEMMA MovedTyped ==
  ASSUME TypeOK, ReserveMatchesPostings, NEW d \in Days
  PROVE  MovedOn[d] \in Int /\ (d \notin Posted => MovedOn[d] = 0)
<1>1. MovedOn[d] = IF postings[d] = None THEN 0 ELSE Delta(postings[d])
  BY DEF MovedOn, ReserveMatchesPostings
<1>2. postings[d] # None => postings[d] \in Postings
  BY DEF TypeOK
<1> QED
  BY <1>1, <1>2, DeltaTyped DEF Posted

\* A provision moves the account by the difference its row states.
LEMMA ReserveMoves ==
  ASSUME TypeOK, ReserveMatchesPostings, [Next]_vars, NEW c \in Clerks, CommitProvision(c)
  PROVE  /\ Reserve \in Int
         /\ Reserve' = Reserve + Delta(commands[c].posting)
<1> DEFINE d == commands[c].day
           p == commands[c].posting
           rest == Days \ {d}
<1>1. TypeOK' /\ ReserveMatchesPostings'
  BY TypeNext, ReserveNext
<1>2. /\ d \in Days /\ p \in Postings /\ postings[d] = None
      /\ postings'[d] = p /\ \A e \in rest : postings'[e] = postings[e]
  BY PendingTyped DEF CommitProvision, Provisioning, TypeOK
<1>3. p # None
  BY <1>2, PeriodAssumption
<1> HIDE DEF d, p
<1>4. \A e \in Days : MovedOn[e] \in Int /\ MovedOn'[e] \in Int
  <2>1. \A e \in Days : MovedOn[e] \in Int
    BY MovedTyped
  <2>2. ASSUME NEW e \in Days
        PROVE  MovedOn'[e] \in Int
    <3>1. MovedOn'[e] = IF postings'[e] = None THEN 0 ELSE Delta(postings'[e])
      BY <1>1 DEF MovedOn, ReserveMatchesPostings, Delta
    <3>2. postings'[e] # None => postings'[e] \in Postings
      BY <1>1 DEF TypeOK
    <3> QED
      BY <3>1, <3>2, DeltaTyped
  <2> QED
    BY <2>1, <2>2
<1>5. MovedOn[d] = 0 /\ MovedOn'[d] = Delta(p)
  BY <1>1, <1>2, <1>3 DEF MovedOn, ReserveMatchesPostings, Delta
<1>6. \A e \in rest : MovedOn'[e] = MovedOn[e]
  BY <1>1, <1>2 DEF MovedOn, ReserveMatchesPostings, Delta
<1>7. IsFiniteSet(Days) /\ IsFiniteSet(rest)
  BY DaysTyped, FS_Subset
<1>8. SumFunctionOnSet(MovedOn', rest) = SumFunctionOnSet(MovedOn, rest)
  BY <1>6, <1>7, SumSame
<1>9. SumFunctionOnSet(MovedOn, Days) = MovedOn[d] + SumFunctionOnSet(MovedOn, rest)
  BY <1>2, <1>4, <1>7, SumRemove
<1>10. SumFunctionOnSet(MovedOn', Days) = MovedOn'[d] + SumFunctionOnSet(MovedOn', rest)
  BY <1>2, <1>4, <1>7, SumRemove
<1>11. SumFunctionOnSet(MovedOn, rest) \in Int
  BY <1>4, <1>7, SumType
<1>12. Delta(p) \in Int
  BY <1>2, DeltaTyped
<1>13. Reserve = SumFunctionOnSet(MovedOn, Days) /\ Reserve' = SumFunctionOnSet(MovedOn', Days)
  BY DEF Reserve, MovedOn
<1> QED
  BY <1>5, <1>8, <1>9, <1>10, <1>11, <1>12, <1>13 DEF p

LEMMA RequiredTyped ==
  ASSUME TypeOK, NEW days, days \subseteq Posted
  PROVE  RequiredAt(days) \in Int
<1>1. CASE days = {}
  BY <1>1 DEF RequiredAt
<1>2. CASE days # {}
  <2>1. LatestOf(days) \in Posted
    BY <1>2, Latest DEF Posted
  <2>2. postings[LatestOf(days)] \in Postings
    BY <2>1 DEF Posted, TypeOK
  <2>3. postings[LatestOf(days)].required \in Amounts
    BY <2>2 DEF Postings
  <2>4. postings[LatestOf(days)].required \in Nat
    BY <2>3, PeriodAssumption
  <2> QED
    BY <1>2, <2>4 DEF RequiredAt
<1> QED
  BY <1>1, <1>2

\* The latest of the posted dates once a date is added.
LEMMA LatestWith ==
  ASSUME TypeOK, NEW c \in Clerks, CommitProvision(c)
  PROVE  LET d == commands[c].day
             newest == \A e \in Posted : e < d
         IN  RequiredAt(Posted)' = IF newest THEN commands[c].posting.required ELSE RequiredAt(Posted)
<1> DEFINE d == commands[c].day
           p == commands[c].posting
           newest == \A e \in Posted : e < d
<1>1. /\ d \in Days /\ p \in Postings /\ postings[d] = None
      /\ postings'[d] = p /\ \A e \in Days \ {d} : postings'[e] = postings[e]
  BY PendingTyped DEF CommitProvision, Provisioning, TypeOK
<1>2. p # None
  BY <1>1, PeriodAssumption
<1> HIDE DEF d, p
<1>3. Posted' = Posted \cup {d} /\ Posted \subseteq Days /\ d \notin Posted
  BY <1>1, <1>2 DEF Posted
<1>4. Posted \cup {d} \subseteq Days /\ Posted \cup {d} \subseteq Int
  BY <1>1, <1>3, DaysTyped
<1>5. RequiredAt(Posted)' = postings'[LatestOf(Posted \cup {d})].required
  BY <1>3 DEF RequiredAt
<1> DEFINE latest == LatestOf(Posted \cup {d})
<1>6. latest \in Posted \cup {d} /\ \A e \in Posted \cup {d} : e <= latest
  BY <1>4, Latest
<1> HIDE DEF latest
<1>7. CASE newest
  <2>1. latest = d
    BY <1>4, <1>6, <1>7
  <2> QED
    BY <1>1, <1>5, <1>7, <2>1 DEF latest, d, p
<1>8. CASE ~newest
  <2>1. PICK later \in Posted : ~(later < d)
    BY <1>8
  <2>2. latest \in Posted
    <3>1. later \in Int /\ d \in Int /\ latest \in Int /\ later # d /\ later <= latest
      BY <1>3, <1>4, <1>6, <2>1
    <3>2. latest # d
      BY <2>1, <3>1
    <3> QED
      BY <1>6, <3>2
  <2>3. latest = LatestOf(Posted)
    <3>1. LatestOf(Posted) \in Posted /\ \A e \in Posted : e <= LatestOf(Posted)
      BY <1>3, <2>1, Latest
    <3>2. latest <= LatestOf(Posted) /\ LatestOf(Posted) <= latest
      BY <1>6, <2>2, <3>1
    <3>3. latest \in Int /\ LatestOf(Posted) \in Int
      BY <1>4, <2>2, <3>1
    <3> QED
      BY <3>2, <3>3
  <2>4. postings'[latest] = postings[latest]
    BY <1>1, <1>3, <2>2
  <2>5. RequiredAt(Posted) = postings[LatestOf(Posted)].required
    BY <2>1 DEF RequiredAt
  <2> QED
    BY <1>5, <1>8, <2>3, <2>4, <2>5 DEF latest, d
<1> QED
  BY <1>7, <1>8

LEMMA DriftNext ==
  ASSUME TypeOK, ReserveMatchesPostings, ProvisionsRead, [Next]_vars, NEW c \in Clerks, CommitProvision(c)
  PROVE  LET d == commands[c].day
             read == {e \in commands[c].known : e < d}
             newest == \A e \in Posted : e < d
             required == IF newest THEN RequiredAt(Posted) ELSE commands[c].posting.required
         IN  Drift' = Drift + required - RequiredAt(read)
<1> DEFINE d == commands[c].day
           p == commands[c].posting
           read == {e \in commands[c].known : e < d}
           newest == \A e \in Posted : e < d
<1>1. p \in Postings /\ read \subseteq Posted /\ p.previous = RequiredAt(read)
  BY PendingTyped DEF CommitProvision, Provisioning, ProvisionsRead
<1>2. Reserve \in Int /\ Reserve' = Reserve + p.required - RequiredAt(read)
  <2>1. Reserve \in Int /\ Reserve' = Reserve + Delta(p)
    BY ReserveMoves
  <2>2. p.required \in Int /\ p.previous \in Int
    BY <1>1, PostingTyped
  <2> HIDE DEF p, read
  <2> QED
    BY <1>1, <2>1, <2>2 DEF Delta
<1>3. RequiredAt(Posted)' = IF newest THEN p.required ELSE RequiredAt(Posted)
  BY LatestWith
<1>4. RequiredAt(Posted) \in Int /\ RequiredAt(read) \in Int
  BY <1>1, RequiredTyped
<1>5. p.required \in Int
  BY <1>1, PostingTyped
<1>6. Drift = Reserve - RequiredAt(Posted) /\ Drift' = Reserve' - RequiredAt(Posted)'
  BY DEF Drift
<1> HIDE DEF p, read, newest
<1>7. Drift' = Drift + (IF newest THEN RequiredAt(Posted) ELSE p.required) - RequiredAt(read)
  BY <1>2, <1>3, <1>4, <1>5, <1>6
<1> QED
  BY <1>7 DEF p, read, newest

\* Every departure of the provision account from the requirement is that of a provision that was
\* back-dated or overtaken, by exactly the difference counted twice; one for a newer date that nothing overtook leaves it as it is.
THEOREM DriftAlwaysExplained == Spec => DriftExplained
<1>1. IInv /\ ProvisionsRead /\ [Next]_vars => ProvisionsRead'
  BY ReadNext DEF IInv
<1>2. IInv /\ ProvisionsRead /\ [Next]_vars
        => [\A c \in Clerks : CommitProvision(c) =>
              LET d == commands[c].day
                  read == {e \in commands[c].known : e < d}
                  newest == \A e \in Posted : e < d
                  required == IF newest THEN RequiredAt(Posted) ELSE commands[c].posting.required
              IN  Drift' = Drift + required - RequiredAt(read)]_vars
  BY DriftNext DEF IInv
<1> QED
  BY <1>1, <1>2, ReadInit, Invariant, PTL DEF Spec, DriftExplained
=============================================================================
