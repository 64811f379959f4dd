--------------------- MODULE LightningSettlement_proofs ---------------------
(***************************************************************************)
(* The settlement of Lightning payments, proved for any number of          *)
(* commitments, donations, invoices, requests and handlers.                *)
(***************************************************************************)
EXTENDS LightningSettlement, FiniteSetTheorems, TLAPS

\* The step of any actor, spelled out once for the case analyses below.
LEMMA NextCases ==
  ASSUME Next
  PROVE  \/ \E r \in Requests, c \in Commitments, a \in Amounts : StartInvestment(r, c, a)
         \/ \E r \in Requests, d \in Donations, a \in Amounts : StartDonation(r, d, a)
         \/ \E r \in Requests : Issue(r) \/ RecordInvestment(r) \/ RecordDonation(r) \/ Abandon(r)
         \/ \E i \in Invoices : Pay(i) \/ Unlist(i) \/ Age(i)
         \/ \E s \in Settlers, i \in Invoices : Webhook(s, i) \/ CheckInvestment(s, i) \/ CheckDonation(s, i)
         \/ \E s \in Settlers : Settle(s) \/ Stop(s)
         \/ StartPass \/ AbortScan \/ \E i \in Invoices : ScanNext(i)
         \/ \E d \in Donations : Succeed(d)
  BY DEF Next, RequestStep, GatewayStep, HandlerStep, ScanStep, Settlers

LEMMA RowsCounted ==
  ASSUME NEW o
  PROVE  Cardinality(RowsOf(o)) \in Nat
<1>1. IsFiniteSet(RowsOf(o))
  BY LightningAssumption, FS_Subset DEF RowsOf
<1> QED
  BY <1>1, FS_CardinalityType

\* What a fresh invoice is.
LEMMA FreshInvoice ==
  ASSUME \E n \in Invoices : invoices[n].status = "NONE"
  PROVE  LET i == CHOOSE n \in Invoices : invoices[n].status = "NONE"
         IN  i \in Invoices /\ invoices[i].status = "NONE"
  OBVIOUS
-----------------------------------------------------------------------------
(* Types *)

LEMMA TypeInit == Init => TypeOK
  BY LightningAssumption DEF Init, TypeOK, CommitmentRows, DonationRows, InvoiceRows, Blank, Ages

LEMMA TypeIssue ==
  ASSUME TypeOK, NEW r \in Requests, Issue(r)
  PROVE  TypeOK'
<1> DEFINE i == CHOOSE n \in Invoices : invoices[n].status = "NONE"
<1>1. i \in Invoices
  BY FreshInvoice DEF Issue
<1>2. requests[r] \in Creations
  BY DEF Issue, TypeOK
<1>3. /\ invoices' = [invoices EXCEPT ![i] = [Blank EXCEPT !.owner = requests[r].owner,
                                                           !.amount = requests[r].amount, !.status = "ISSUED"]]
      /\ requests' = [requests EXCEPT ![r].invoice = i]
      /\ UNCHANGED <<rowVars, gatewayVars, settling, scanVars>>
  BY DEF Issue
<1> HIDE DEF i
<1>4. requests' \in [Requests -> Creations \cup {None}]
  BY <1>1, <1>2, <1>3 DEF TypeOK, Creations
<1>5. invoices' \in [Invoices -> InvoiceRows]
  BY <1>1, <1>2, <1>3 DEF TypeOK, Creations, InvoiceRows, Blank, Ages
<1> QED
  BY <1>3, <1>4, <1>5 DEF TypeOK, rowVars, gatewayVars, scanVars

LEMMA TypeRecord ==
  ASSUME TypeOK, NEW r \in Requests, Answered(r), Record(r)
  PROVE  /\ invoices' \in [Invoices -> InvoiceRows]
         /\ requests' \in [Requests -> Creations \cup {None}]
<1> DEFINE n == Cardinality(RowsOf(requests[r].owner))
           i == requests[r].invoice
<1>1. n \in Nat
  BY RowsCounted
<1>2. i \in Invoices
  BY DEF TypeOK, Answered, Creations
<1>3. /\ invoices' = [invoices EXCEPT ![i] = [@ EXCEPT !.status = "NEW", !.nth = n]]
      /\ requests' = [requests EXCEPT ![r] = None]
  BY DEF Record
<1> HIDE DEF n, i
<1>4. invoices' \in [Invoices -> InvoiceRows]
  <2>1. [invoices[i] EXCEPT !.status = "NEW", !.nth = n] \in InvoiceRows
    BY <1>1, <1>2 DEF TypeOK, InvoiceRows
  <2> QED
    BY <1>2, <1>3, <2>1 DEF TypeOK
<1>5. requests' \in [Requests -> Creations \cup {None}]
  BY <1>3 DEF TypeOK
<1> QED
  BY <1>4, <1>5

LEMMA TypeSettle ==
  ASSUME TypeOK, NEW s \in Settlers, Settle(s)
  PROVE  TypeOK'
<1> DEFINE i == settling[s]
           o == invoices[i].owner
<1>1. /\ i \in Invoices
      /\ settling' \in [Settlers -> Invoices \cup {None}]
      /\ UNCHANGED <<requests, gatewayVars, scanVars>>
  BY DEF Settle, TypeOK
<1>2. CASE invoices[i].status # "NEW"
  BY <1>1, <1>2 DEF Settle, TypeOK, rowVars, gatewayVars, scanVars
<1>3. CASE invoices[i].status = "NEW"
  <2>1. SettleRow(i)
    BY <1>3 DEF Settle
  <2>2. invoices' \in [Invoices -> InvoiceRows]
    BY <1>1, <2>1 DEF SettleRow, TypeOK, InvoiceRows
  <2>3. commitments' \in [Commitments -> CommitmentRows]
    BY <1>1, <2>1 DEF SettleRow, TypeOK, CommitmentRows
  <2>4. donations' \in [Donations -> DonationRows]
    BY <1>1, <2>1 DEF SettleRow, TypeOK, DonationRows, InvoiceRows
  <2>5. received' \in [Commitments -> Nat]
    BY <1>1, <2>1 DEF SettleRow, TypeOK
  <2> QED
    BY <1>1, <2>2, <2>3, <2>4, <2>5 DEF TypeOK, gatewayVars, scanVars
<1> QED
  BY <1>2, <1>3

LEMMA TypeNext == TypeOK /\ [Next]_vars => TypeOK'
<1> SUFFICES ASSUME TypeOK, [Next]_vars PROVE TypeOK'
  OBVIOUS
<1>1. ASSUME NEW r \in Requests, NEW c \in Commitments, NEW a \in Amounts, StartInvestment(r, c, a)
      PROVE  TypeOK'
  BY <1>1 DEF StartInvestment, TypeOK, CommitmentRows, Creations, Owners, gatewayVars, scanVars
<1>2. ASSUME NEW r \in Requests, NEW d \in Donations, NEW a \in Amounts, StartDonation(r, d, a)
      PROVE  TypeOK'
  BY <1>2 DEF StartDonation, TypeOK, Creations, Owners, rowVars, gatewayVars, scanVars
<1>3. ASSUME NEW r \in Requests, RecordInvestment(r)
      PROVE  TypeOK'
  BY <1>3, TypeRecord DEF RecordInvestment, Record, TypeOK, CommitmentRows, gatewayVars, scanVars
<1>4. ASSUME NEW r \in Requests, RecordDonation(r)
      PROVE  TypeOK'
  <2>1. requests[r] \in Creations
    BY <1>4 DEF RecordDonation, Answered, TypeOK
  <2>2. donations' \in [Donations -> DonationRows]
    BY <1>4, <2>1 DEF RecordDonation, TypeOK, DonationRows, Creations
  <2> QED
    BY <1>4, <2>2, TypeRecord DEF RecordDonation, Record, TypeOK, gatewayVars, scanVars
<1>5. ASSUME NEW r \in Requests, Abandon(r)
      PROVE  TypeOK'
  BY <1>5 DEF Abandon, TypeOK, rowVars, gatewayVars, scanVars
<1>6. ASSUME NEW i \in Invoices, Pay(i) \/ Unlist(i)
      PROVE  TypeOK'
  BY <1>6 DEF Pay, Unlist, TypeOK, rowVars, scanVars
<1>7. ASSUME NEW i \in Invoices, Age(i)
      PROVE  TypeOK'
  BY <1>7 DEF Age, TypeOK, InvoiceRows, Ages, rowVars, gatewayVars, scanVars
<1>8. ASSUME NEW s \in Settlers, NEW i \in Invoices, Webhook(s, i) \/ CheckInvestment(s, i) \/ CheckDonation(s, i)
      PROVE  TypeOK'
  BY <1>8 DEF Webhook, CheckInvestment, CheckDonation, Found, TypeOK, rowVars, gatewayVars, scanVars
<1>9. ASSUME NEW s \in Settlers, Stop(s)
      PROVE  TypeOK'
  BY <1>9 DEF Stop, TypeOK, rowVars, gatewayVars, scanVars
<1>10. ASSUME StartPass
       PROVE  TypeOK'
  BY <1>10 DEF StartPass, PendingInvestments, PendingDonations, TypeOK, rowVars, gatewayVars
<1>11. ASSUME AbortScan
       PROVE  TypeOK'
  <2>1. failures' \in 0..MaxFailures
    BY <1>11, LightningAssumption DEF AbortScan, TypeOK
  <2>2. settling' \in [Settlers -> Invoices \cup {None}]
    BY <1>11 DEF AbortScan, TypeOK
  <2> QED
    BY <1>11, <2>1, <2>2 DEF AbortScan, TypeOK, rowVars, gatewayVars
<1>12. ASSUME NEW i \in Invoices, ScanNext(i)
       PROVE  TypeOK'
  BY <1>12 DEF ScanNext, TypeOK, rowVars, gatewayVars
<1>13. ASSUME NEW d \in Donations, Succeed(d)
       PROVE  TypeOK'
  BY <1>13 DEF Succeed, TypeOK, DonationRows, gatewayVars, scanVars
<1>14. CASE UNCHANGED vars
  BY <1>14 DEF vars, TypeOK, rowVars, gatewayVars, scanVars
<1> QED
  BY <1>1, <1>2, <1>3, <1>4, <1>5, <1>6, <1>7, <1>8, <1>9, <1>10, <1>11, <1>12, <1>13, <1>14,
     TypeIssue, TypeSettle, NextCases

\* Every row, request and settler keeps to its type, in every interleaving.
THEOREM Typed == Spec => []TypeOK
  BY TypeInit, TypeNext, PTL DEF Spec
-----------------------------------------------------------------------------
(* The inductive invariant *)

\* A request that holds an invoice holds it alone, and the invoice is still unrecorded.
InvoicesHeld ==
  \A r \in Requests : Answered(r) => /\ invoices[requests[r].invoice].status = "ISSUED"
                                     /\ invoices[requests[r].invoice].owner = requests[r].owner

HeldByOne ==
  \A r1, r2 \in Requests :
    Answered(r1) /\ Answered(r2) /\ requests[r1].invoice = requests[r2].invoice => r1 = r2

RowsOwned == \A i \in Invoices : Recorded(i) => invoices[i].owner \in Owners

OneInvoice == \A c \in Commitments : \A i, j \in RowsOf(c) : i = j

Issuing == InvoicesHeld /\ HeldByOne /\ RowsOwned /\ OneInvoice

\* Whoever settles an invoice found it paid, and only recorded invoices are paid.
PaidRecorded == \A i \in paid : Recorded(i)

SettlesPaid == \A s \in Settlers : settling[s] # None => settling[s] \in paid

Paying == PaidRecorded /\ SettlesPaid /\ PaidRowWasPaid /\ PaidDonationSucceeded

Following == CommitmentFollowsInvoice /\ ReceivedOnce

IInv == TypeOK /\ Issuing /\ Paying /\ Following
-----------------------------------------------------------------------------
(* What an issue, a record and a settlement change, row by row *)

LEMMA IssueEffect ==
  ASSUME TypeOK, NEW r \in Requests, Issue(r)
  PROVE  \E i \in Invoices :
           /\ invoices[i].status = "NONE"
           /\ invoices'[i].status = "ISSUED" /\ invoices'[i].owner = requests[r].owner
           /\ \A j \in Invoices : j # i => invoices'[j] = invoices[j]
           /\ requests[r] # None
           /\ requests'[r].invoice = i /\ requests'[r].owner = requests[r].owner
           /\ \A q \in Requests : q # r => requests'[q] = requests[q]
           /\ UNCHANGED <<rowVars, gatewayVars, settling, scanVars>>
<1> DEFINE i == CHOOSE n \in Invoices : invoices[n].status = "NONE"
<1>1. i \in Invoices /\ invoices[i].status = "NONE"
  BY FreshInvoice DEF Issue
<1>2. requests[r] \in Creations /\ requests[r] # None
  BY DEF Issue, TypeOK
<1>3. /\ invoices' = [invoices EXCEPT ![i] = [Blank EXCEPT !.owner = requests[r].owner,
                                                           !.amount = requests[r].amount, !.status = "ISSUED"]]
      /\ requests' = [requests EXCEPT ![r].invoice = i]
      /\ UNCHANGED <<rowVars, gatewayVars, settling, scanVars>>
  BY DEF Issue
<1> HIDE DEF i
<1>4. /\ invoices'[i].status = "ISSUED" /\ invoices'[i].owner = requests[r].owner
      /\ \A j \in Invoices : j # i => invoices'[j] = invoices[j]
  BY <1>1, <1>3 DEF TypeOK, Blank
<1>5. /\ requests'[r].invoice = i /\ requests'[r].owner = requests[r].owner
      /\ \A q \in Requests : q # r => requests'[q] = requests[q]
  BY <1>2, <1>3 DEF TypeOK, Creations
<1> QED
  BY <1>1, <1>2, <1>3, <1>4, <1>5

LEMMA RecordEffect ==
  ASSUME TypeOK, NEW r \in Requests, Answered(r), Record(r)
  PROVE  /\ requests[r].invoice \in Invoices /\ requests[r].owner \in Owners
         /\ invoices'[requests[r].invoice].status = "NEW"
         /\ invoices'[requests[r].invoice].owner = invoices[requests[r].invoice].owner
         /\ \A j \in Invoices : j # requests[r].invoice => invoices'[j] = invoices[j]
         /\ requests'[r] = None
         /\ \A q \in Requests : q # r => requests'[q] = requests[q]
<1> DEFINE n == Cardinality(RowsOf(requests[r].owner))
           i == requests[r].invoice
<1>1. i \in Invoices /\ requests[r].owner \in Owners
  BY DEF TypeOK, Answered, Creations
<1>2. /\ invoices' = [invoices EXCEPT ![i] = [@ EXCEPT !.status = "NEW", !.nth = n]]
      /\ requests' = [requests EXCEPT ![r] = None]
  BY DEF Record
<1> HIDE DEF n
<1>3. invoices[i] \in InvoiceRows
  BY <1>1 DEF TypeOK
<1>4. invoices'[i] = [invoices[i] EXCEPT !.status = "NEW", !.nth = n]
  BY <1>1, <1>2 DEF TypeOK
<1>5. invoices'[i].status = "NEW" /\ invoices'[i].owner = invoices[i].owner
  BY <1>3, <1>4 DEF InvoiceRows
<1> QED
  BY <1>1, <1>2, <1>5 DEF TypeOK

LEMMA SettleEffect ==
  ASSUME TypeOK, RowsOwned, NEW s \in Settlers, Settle(s), invoices[settling[s]].status = "NEW"
  PROVE  LET i == settling[s]
             o == invoices[i].owner
         IN  /\ i \in Invoices /\ i # None /\ o \in Owners
             /\ invoices'[i].status = "PAID" /\ invoices'[i].owner = o
             /\ \A j \in Invoices : j # i => invoices'[j] = invoices[j]
             /\ o \in Commitments =>
                  /\ commitments' = [commitments EXCEPT ![o].status = "SETTLEMENT_PENDING"]
                  /\ received' = [received EXCEPT ![o] = @ + 1]
                  /\ UNCHANGED donations
             /\ o \notin Commitments =>
                  /\ o \in Donations /\ donations'[o].status = "SUCCEEDED"
                  /\ \A d \in Donations : d # o => donations'[d] = donations[d]
                  /\ UNCHANGED <<commitments, received>>
             /\ settling' = [settling EXCEPT ![s] = None]
             /\ UNCHANGED <<requests, gatewayVars, scanVars>>
<1> DEFINE i == settling[s]
           o == invoices[i].owner
<1>1. /\ i \in Invoices /\ i # None
      /\ SettleRow(i)
      /\ settling' = [settling EXCEPT ![s] = None]
      /\ UNCHANGED <<requests, gatewayVars, scanVars>>
  BY DEF Settle, TypeOK
<1>2. o \in Owners
  BY <1>1 DEF RowsOwned, Recorded
<1>3. /\ invoices'[i].status = "PAID" /\ invoices'[i].owner = o
      /\ \A j \in Invoices : j # i => invoices'[j] = invoices[j]
  BY <1>1 DEF SettleRow, TypeOK, InvoiceRows
<1> QED
  BY <1>1, <1>2, <1>3 DEF SettleRow, TypeOK, DonationRows, Owners

LEMMA SettledBefore ==
  ASSUME TypeOK, NEW s \in Settlers, Settle(s), invoices[settling[s]].status # "NEW"
  PROVE  /\ UNCHANGED <<rowVars, invoices, requests, gatewayVars, scanVars>>
         /\ settling' = [settling EXCEPT ![s] = None]
  BY DEF Settle
-----------------------------------------------------------------------------
(* It is preserved *)

LEMMA IssuingNext == TypeOK /\ Issuing /\ [Next]_vars => Issuing'
<1> SUFFICES ASSUME TypeOK /\ Issuing, [Next]_vars PROVE Issuing'
  OBVIOUS
<1>1. ASSUME NEW r \in Requests, NEW c \in Commitments, NEW a \in Amounts, StartInvestment(r, c, a)
      PROVE  Issuing'
  BY <1>1 DEF StartInvestment, Issuing, InvoicesHeld, HeldByOne, RowsOwned, OneInvoice, Answered, Recorded, RowsOf, TypeOK, rowVars, gatewayVars, scanVars
<1>2. ASSUME NEW r \in Requests, NEW d \in Donations, NEW a \in Amounts, StartDonation(r, d, a)
      PROVE  Issuing'
  BY <1>2 DEF StartDonation, Issuing, InvoicesHeld, HeldByOne, RowsOwned, OneInvoice, Answered, Recorded, RowsOf, TypeOK, rowVars, gatewayVars, scanVars
<1>3. ASSUME NEW r \in Requests, Issue(r)
      PROVE  Issuing'
  <2>1. PICK i \in Invoices :
           /\ invoices[i].status = "NONE"
           /\ invoices'[i].status = "ISSUED" /\ invoices'[i].owner = requests[r].owner
           /\ \A j \in Invoices : j # i => invoices'[j] = invoices[j]
           /\ requests[r] # None
           /\ requests'[r].invoice = i /\ requests'[r].owner = requests[r].owner
           /\ \A q \in Requests : q # r => requests'[q] = requests[q]
           /\ UNCHANGED <<rowVars, gatewayVars, settling, scanVars>>
    BY <1>3, IssueEffect
  <2>2. \A j \in Invoices : Recorded(j)' <=> Recorded(j) /\ j # i
    BY <2>1 DEF Recorded
  <2>3. \A j \in Invoices : Recorded(j) => j # i
    BY <2>1 DEF Recorded
  <2>4. \A q \in Requests : q # r /\ Answered(q) => requests[q].invoice \in Invoices /\ requests[q].invoice # i
    BY <2>1 DEF Issuing, InvoicesHeld, Answered, TypeOK, Creations
  <2>5. \A q \in Requests : q # r => (Answered(q)' <=> Answered(q))
    BY <2>1 DEF Answered
  <2>6. InvoicesHeld'
    BY <2>1, <2>4, <2>5 DEF Issuing, InvoicesHeld
  <2>7. HeldByOne'
    BY <2>1, <2>4, <2>5 DEF Issuing, HeldByOne
  <2>8. RowsOwned' /\ OneInvoice'
    BY <2>1, <2>2, <2>3 DEF Issuing, RowsOwned, OneInvoice, RowsOf
  <2> QED
    BY <2>6, <2>7, <2>8 DEF Issuing
<1>4. ASSUME NEW r \in Requests, RecordInvestment(r)
      PROVE  Issuing'
  <2> DEFINE i == requests[r].invoice
  <2>1. Answered(r) /\ Record(r)
    BY <1>4 DEF RecordInvestment
  <2>2. /\ i \in Invoices /\ requests[r].owner \in Owners
        /\ invoices'[i].status = "NEW" /\ invoices'[i].owner = invoices[i].owner
        /\ \A j \in Invoices : j # i => invoices'[j] = invoices[j]
        /\ requests'[r] = None
        /\ \A q \in Requests : q # r => requests'[q] = requests[q]
    BY <2>1, RecordEffect
  <2>3. invoices[i].status = "ISSUED" /\ invoices[i].owner = requests[r].owner
    BY <2>1 DEF Issuing, InvoicesHeld
  <2>4. UNCHANGED <<received, gatewayVars, settling, scanVars>>
    BY <2>1 DEF Record
  <2> HIDE DEF i
  <2>5. \A q \in Requests : Answered(q)' => q # r /\ Answered(q)
    BY <2>2 DEF Answered
  <2>6. \A q \in Requests : q # r /\ Answered(q) => requests[q].invoice \in Invoices /\ requests[q].invoice # i
    BY <2>1 DEF i, Issuing, HeldByOne, TypeOK, Answered, Creations
  <2>7. InvoicesHeld' /\ HeldByOne'
    BY <2>2, <2>5, <2>6 DEF Issuing, InvoicesHeld, HeldByOne
  <2>8. \A j \in Invoices : Recorded(j)' <=> Recorded(j) \/ j = i
    BY <2>2 DEF Recorded
  <2>9. RowsOwned'
    BY <2>2, <2>3, <2>8 DEF Issuing, RowsOwned
  <2>10. OneInvoice'
    BY <1>4, <2>2, <2>3, <2>8, LightningAssumption DEF RecordInvestment, Issuing, OneInvoice, RowsOf, Recorded, i
  <2> QED
    BY <2>7, <2>9, <2>10 DEF Issuing
<1>5. ASSUME NEW r \in Requests, RecordDonation(r)
      PROVE  Issuing'
  <2> DEFINE i == requests[r].invoice
  <2>1. Answered(r) /\ Record(r)
    BY <1>5 DEF RecordDonation
  <2>2. /\ i \in Invoices /\ requests[r].owner \in Owners
        /\ invoices'[i].status = "NEW" /\ invoices'[i].owner = invoices[i].owner
        /\ \A j \in Invoices : j # i => invoices'[j] = invoices[j]
        /\ requests'[r] = None
        /\ \A q \in Requests : q # r => requests'[q] = requests[q]
    BY <2>1, RecordEffect
  <2>3. invoices[i].status = "ISSUED" /\ invoices[i].owner = requests[r].owner
    BY <2>1 DEF Issuing, InvoicesHeld
  <2>4. UNCHANGED <<received, gatewayVars, settling, scanVars>>
    BY <2>1 DEF Record
  <2> HIDE DEF i
  <2>5. \A q \in Requests : Answered(q)' => q # r /\ Answered(q)
    BY <2>2 DEF Answered
  <2>6. \A q \in Requests : q # r /\ Answered(q) => requests[q].invoice \in Invoices /\ requests[q].invoice # i
    BY <2>1 DEF i, Issuing, HeldByOne, TypeOK, Answered, Creations
  <2>7. InvoicesHeld' /\ HeldByOne'
    BY <2>2, <2>5, <2>6 DEF Issuing, InvoicesHeld, HeldByOne
  <2>8. \A j \in Invoices : Recorded(j)' <=> Recorded(j) \/ j = i
    BY <2>2 DEF Recorded
  <2>9. RowsOwned'
    BY <2>2, <2>3, <2>8 DEF Issuing, RowsOwned
  <2>10. OneInvoice'
    BY <1>5, <2>2, <2>3, <2>8, LightningAssumption DEF RecordDonation, Issuing, OneInvoice, RowsOf, Recorded, i
  <2> QED
    BY <2>7, <2>9, <2>10 DEF Issuing
<1>6. ASSUME NEW r \in Requests, Abandon(r)
      PROVE  Issuing'
  BY <1>6 DEF Abandon, Issuing, InvoicesHeld, HeldByOne, RowsOwned, OneInvoice, Answered, Recorded, RowsOf, TypeOK, rowVars, gatewayVars, scanVars
<1>7. ASSUME NEW i \in Invoices, Pay(i) \/ Unlist(i)
      PROVE  Issuing'
  BY <1>7 DEF Pay, Unlist, Issuing, InvoicesHeld, HeldByOne, RowsOwned, OneInvoice, Answered, Recorded, RowsOf, TypeOK, rowVars, gatewayVars, scanVars
<1>8. ASSUME NEW i \in Invoices, Age(i)
      PROVE  Issuing'
  BY <1>8 DEF Age, Issuing, InvoicesHeld, HeldByOne, RowsOwned, OneInvoice, Answered, Recorded, RowsOf, TypeOK, rowVars, gatewayVars, scanVars
<1>9. ASSUME NEW s \in Settlers, NEW i \in Invoices, Webhook(s, i) \/ CheckInvestment(s, i) \/ CheckDonation(s, i)
      PROVE  Issuing'
  BY <1>9 DEF Webhook, CheckInvestment, CheckDonation, Found, Issuing, InvoicesHeld, HeldByOne, RowsOwned, OneInvoice, Answered, Recorded, RowsOf, TypeOK, rowVars, gatewayVars, scanVars
<1>10. ASSUME NEW s \in Settlers, Settle(s)
       PROVE  Issuing'
  <2>1. CASE invoices[settling[s]].status # "NEW"
    BY <1>10, <2>1, SettledBefore DEF Issuing, InvoicesHeld, HeldByOne, RowsOwned, OneInvoice, Answered, Recorded, RowsOf, rowVars, gatewayVars, scanVars
  <2>2. CASE invoices[settling[s]].status = "NEW"
    <3> DEFINE i == settling[s]
               o == invoices[i].owner
    <3>1. /\ i \in Invoices /\ i # None /\ o \in Owners
          /\ invoices'[i].status = "PAID" /\ invoices'[i].owner = o
          /\ \A j \in Invoices : j # i => invoices'[j] = invoices[j]
          /\ o \in Commitments =>
               /\ commitments' = [commitments EXCEPT ![o].status = "SETTLEMENT_PENDING"]
               /\ received' = [received EXCEPT ![o] = @ + 1]
               /\ UNCHANGED donations
          /\ o \notin Commitments =>
               /\ o \in Donations /\ donations'[o].status = "SUCCEEDED"
               /\ \A d \in Donations : d # o => donations'[d] = donations[d]
               /\ UNCHANGED <<commitments, received>>
          /\ settling' = [settling EXCEPT ![s] = None]
          /\ UNCHANGED <<requests, gatewayVars, scanVars>>
      BY <1>10, <2>2, SettleEffect DEF Issuing
    <3>2. \A j \in Invoices : Recorded(j)' <=> Recorded(j)
      BY <2>2, <3>1 DEF Recorded
    <3>3. \A c \in Commitments : RowsOf(c)' = RowsOf(c)
      BY <3>1, <3>2 DEF RowsOf
    <3>4. \A r \in Requests : Answered(r) => requests[r].invoice \in Invoices /\ requests[r].invoice # i
      BY <2>2 DEF Issuing, InvoicesHeld, Answered, TypeOK, Creations
    <3> QED
      BY <3>1, <3>2, <3>3, <3>4 DEF Issuing, InvoicesHeld, HeldByOne, RowsOwned, OneInvoice, Answered
  <2> QED
    BY <2>1, <2>2
<1>11. ASSUME NEW s \in Settlers, Stop(s)
       PROVE  Issuing'
  BY <1>11 DEF Stop, Issuing, InvoicesHeld, HeldByOne, RowsOwned, OneInvoice, Answered, Recorded, RowsOf, TypeOK, rowVars, gatewayVars, scanVars
<1>12. CASE StartPass
  BY <1>12 DEF StartPass, Issuing, InvoicesHeld, HeldByOne, RowsOwned, OneInvoice, Answered, Recorded, RowsOf, TypeOK, rowVars, gatewayVars, scanVars
<1>13. CASE AbortScan
  BY <1>13 DEF AbortScan, Issuing, InvoicesHeld, HeldByOne, RowsOwned, OneInvoice, Answered, Recorded, RowsOf, TypeOK, rowVars, gatewayVars, scanVars
<1>14. ASSUME NEW i \in Invoices, ScanNext(i)
       PROVE  Issuing'
  BY <1>14 DEF ScanNext, Issuing, InvoicesHeld, HeldByOne, RowsOwned, OneInvoice, Answered, Recorded, RowsOf, TypeOK, rowVars, gatewayVars, scanVars
<1>15. ASSUME NEW d \in Donations, Succeed(d)
       PROVE  Issuing'
  BY <1>15 DEF Succeed, Issuing, InvoicesHeld, HeldByOne, RowsOwned, OneInvoice, Answered, Recorded, RowsOf, TypeOK, rowVars, gatewayVars, scanVars
<1>16. CASE UNCHANGED vars
  BY <1>16 DEF vars, Issuing, InvoicesHeld, HeldByOne, RowsOwned, OneInvoice, Answered, Recorded, RowsOf, TypeOK, rowVars, gatewayVars, scanVars
<1> QED
  BY <1>1, <1>2, <1>3, <1>4, <1>5, <1>6, <1>7, <1>8, <1>9, <1>10, <1>11, <1>12, <1>13, <1>14, <1>15, <1>16, NextCases

LEMMA PayingNext == TypeOK /\ Issuing /\ Paying /\ [Next]_vars => Paying'
<1> SUFFICES ASSUME TypeOK /\ Issuing /\ Paying, [Next]_vars PROVE Paying'
  OBVIOUS
<1>1. ASSUME NEW r \in Requests, NEW c \in Commitments, NEW a \in Amounts, StartInvestment(r, c, a)
      PROVE  Paying'
  BY <1>1 DEF StartInvestment, Paying, PaidRecorded, SettlesPaid, PaidRowWasPaid, PaidDonationSucceeded, Recorded, TypeOK, rowVars, gatewayVars, scanVars
<1>2. ASSUME NEW r \in Requests, NEW d \in Donations, NEW a \in Amounts, StartDonation(r, d, a)
      PROVE  Paying'
  BY <1>2 DEF StartDonation, Paying, PaidRecorded, SettlesPaid, PaidRowWasPaid, PaidDonationSucceeded, Recorded, TypeOK, rowVars, gatewayVars, scanVars
<1>3. ASSUME NEW r \in Requests, Issue(r)
      PROVE  Paying'
  <2>1. PICK i \in Invoices :
           /\ invoices[i].status = "NONE"
           /\ invoices'[i].status = "ISSUED" /\ invoices'[i].owner = requests[r].owner
           /\ \A j \in Invoices : j # i => invoices'[j] = invoices[j]
           /\ requests[r] # None
           /\ requests'[r].invoice = i /\ requests'[r].owner = requests[r].owner
           /\ \A q \in Requests : q # r => requests'[q] = requests[q]
           /\ UNCHANGED <<rowVars, gatewayVars, settling, scanVars>>
    BY <1>3, IssueEffect
  <2>2. \A j \in Invoices : Recorded(j)' <=> Recorded(j) /\ j # i
    BY <2>1 DEF Recorded
  <2>3. \A j \in Invoices : Recorded(j) => j # i
    BY <2>1 DEF Recorded
  <2> QED
    BY <2>1, <2>2, <2>3 DEF Paying, PaidRecorded, SettlesPaid, PaidRowWasPaid, PaidDonationSucceeded, Recorded, TypeOK, rowVars, gatewayVars, scanVars
<1>4. ASSUME NEW r \in Requests, RecordInvestment(r)
      PROVE  Paying'
  <2> DEFINE i == requests[r].invoice
  <2>1. Answered(r) /\ Record(r)
    BY <1>4 DEF RecordInvestment
  <2>2. /\ i \in Invoices /\ requests[r].owner \in Owners
        /\ invoices'[i].status = "NEW" /\ invoices'[i].owner = invoices[i].owner
        /\ \A j \in Invoices : j # i => invoices'[j] = invoices[j]
        /\ requests'[r] = None
        /\ \A q \in Requests : q # r => requests'[q] = requests[q]
    BY <2>1, RecordEffect
  <2>3. invoices[i].status = "ISSUED" /\ invoices[i].owner = requests[r].owner
    BY <2>1 DEF Issuing, InvoicesHeld
  <2>4. UNCHANGED <<received, gatewayVars, settling, scanVars>>
    BY <2>1 DEF Record
  <2> HIDE DEF i
  <2>5. \A d \in Donations : donations'[d].status = donations[d].status
    BY <1>4 DEF RecordInvestment, TypeOK, DonationRows
  <2> QED
    BY <2>2, <2>3, <2>4, <2>5 DEF Paying, PaidRecorded, SettlesPaid, PaidRowWasPaid, PaidDonationSucceeded, Recorded, TypeOK, gatewayVars
<1>5. ASSUME NEW r \in Requests, RecordDonation(r)
      PROVE  Paying'
  <2> DEFINE i == requests[r].invoice
  <2>1. Answered(r) /\ Record(r)
    BY <1>5 DEF RecordDonation
  <2>2. /\ i \in Invoices /\ requests[r].owner \in Owners
        /\ invoices'[i].status = "NEW" /\ invoices'[i].owner = invoices[i].owner
        /\ \A j \in Invoices : j # i => invoices'[j] = invoices[j]
        /\ requests'[r] = None
        /\ \A q \in Requests : q # r => requests'[q] = requests[q]
    BY <2>1, RecordEffect
  <2>3. invoices[i].status = "ISSUED" /\ invoices[i].owner = requests[r].owner
    BY <2>1 DEF Issuing, InvoicesHeld
  <2>4. UNCHANGED <<received, gatewayVars, settling, scanVars>>
    BY <2>1 DEF Record
  <2> HIDE DEF i
  <2>5. \A d \in Donations : donations'[d].status = donations[d].status
    BY <1>5 DEF RecordDonation, TypeOK, DonationRows
  <2> QED
    BY <2>2, <2>3, <2>4, <2>5 DEF Paying, PaidRecorded, SettlesPaid, PaidRowWasPaid, PaidDonationSucceeded, Recorded, TypeOK, gatewayVars
<1>6. ASSUME NEW r \in Requests, Abandon(r)
      PROVE  Paying'
  BY <1>6 DEF Abandon, Paying, PaidRecorded, SettlesPaid, PaidRowWasPaid, PaidDonationSucceeded, Recorded, TypeOK, rowVars, gatewayVars, scanVars
<1>7. ASSUME NEW i \in Invoices, Pay(i) \/ Unlist(i)
      PROVE  Paying'
  BY <1>7 DEF Pay, Unlist, Paying, PaidRecorded, SettlesPaid, PaidRowWasPaid, PaidDonationSucceeded, Recorded, TypeOK, rowVars, gatewayVars, scanVars
<1>8. ASSUME NEW i \in Invoices, Age(i)
      PROVE  Paying'
  BY <1>8 DEF Age, Paying, PaidRecorded, SettlesPaid, PaidRowWasPaid, PaidDonationSucceeded, Recorded, TypeOK, rowVars, gatewayVars, scanVars
<1>9. ASSUME NEW s \in Settlers, NEW i \in Invoices, Webhook(s, i) \/ CheckInvestment(s, i) \/ CheckDonation(s, i)
      PROVE  Paying'
  BY <1>9 DEF Webhook, CheckInvestment, CheckDonation, Found, Paying, PaidRecorded, SettlesPaid, PaidRowWasPaid, PaidDonationSucceeded, Recorded, TypeOK, rowVars, gatewayVars, scanVars
<1>10. ASSUME NEW s \in Settlers, Settle(s)
       PROVE  Paying'
  <2>1. CASE invoices[settling[s]].status # "NEW"
    BY <1>10, <2>1, SettledBefore DEF Paying, PaidRecorded, SettlesPaid, PaidRowWasPaid, PaidDonationSucceeded, Recorded, TypeOK, rowVars, gatewayVars, scanVars
  <2>2. CASE invoices[settling[s]].status = "NEW"
    <3> DEFINE i == settling[s]
               o == invoices[i].owner
    <3>1. /\ i \in Invoices /\ i # None /\ o \in Owners
          /\ invoices'[i].status = "PAID" /\ invoices'[i].owner = o
          /\ \A j \in Invoices : j # i => invoices'[j] = invoices[j]
          /\ o \in Commitments =>
               /\ commitments' = [commitments EXCEPT ![o].status = "SETTLEMENT_PENDING"]
               /\ received' = [received EXCEPT ![o] = @ + 1]
               /\ UNCHANGED donations
          /\ o \notin Commitments =>
               /\ o \in Donations /\ donations'[o].status = "SUCCEEDED"
               /\ \A d \in Donations : d # o => donations'[d] = donations[d]
               /\ UNCHANGED <<commitments, received>>
          /\ settling' = [settling EXCEPT ![s] = None]
          /\ UNCHANGED <<requests, gatewayVars, scanVars>>
      BY <1>10, <2>2, SettleEffect DEF Issuing
    <3>2. i \in paid
      BY <3>1 DEF Paying, SettlesPaid
    <3>3. PaidRecorded' /\ SettlesPaid' /\ PaidRowWasPaid'
      BY <2>2, <3>1, <3>2 DEF Paying, PaidRecorded, SettlesPaid, PaidRowWasPaid, Recorded, TypeOK, gatewayVars
    <3>4. PaidDonationSucceeded'
      BY <3>1, LightningAssumption DEF Paying, PaidDonationSucceeded
    <3> QED
      BY <3>3, <3>4 DEF Paying
  <2> QED
    BY <2>1, <2>2
<1>11. ASSUME NEW s \in Settlers, Stop(s)
       PROVE  Paying'
  BY <1>11 DEF Stop, Paying, PaidRecorded, SettlesPaid, PaidRowWasPaid, PaidDonationSucceeded, Recorded, TypeOK, rowVars, gatewayVars, scanVars
<1>12. CASE StartPass
  BY <1>12 DEF StartPass, Paying, PaidRecorded, SettlesPaid, PaidRowWasPaid, PaidDonationSucceeded, Recorded, TypeOK, rowVars, gatewayVars, scanVars
<1>13. CASE AbortScan
  BY <1>13 DEF AbortScan, Paying, PaidRecorded, SettlesPaid, PaidRowWasPaid, PaidDonationSucceeded, Recorded, TypeOK, rowVars, gatewayVars, scanVars
<1>14. ASSUME NEW i \in Invoices, ScanNext(i)
       PROVE  Paying'
  BY <1>14 DEF ScanNext, Paying, PaidRecorded, SettlesPaid, PaidRowWasPaid, PaidDonationSucceeded, Recorded, TypeOK, rowVars, gatewayVars, scanVars
<1>15. ASSUME NEW d \in Donations, Succeed(d)
       PROVE  Paying'
  BY <1>15 DEF Succeed, Paying, PaidRecorded, SettlesPaid, PaidRowWasPaid, PaidDonationSucceeded, Recorded, TypeOK, rowVars, gatewayVars, scanVars
<1>16. CASE UNCHANGED vars
  BY <1>16 DEF vars, Paying, PaidRecorded, SettlesPaid, PaidRowWasPaid, PaidDonationSucceeded, Recorded, TypeOK, rowVars, gatewayVars, scanVars
<1> QED
  BY <1>1, <1>2, <1>3, <1>4, <1>5, <1>6, <1>7, <1>8, <1>9, <1>10, <1>11, <1>12, <1>13, <1>14, <1>15, <1>16, NextCases

LEMMA FollowingNext == TypeOK /\ Issuing /\ Paying /\ Following /\ [Next]_vars => Following'
<1> SUFFICES ASSUME TypeOK /\ Issuing /\ Paying /\ Following, [Next]_vars PROVE Following'
  OBVIOUS
<1>1. ASSUME NEW r \in Requests, NEW c \in Commitments, NEW a \in Amounts, StartInvestment(r, c, a)
      PROVE  Following'
  BY <1>1 DEF StartInvestment, Following, CommitmentFollowsInvoice, ReceivedOnce, Recorded, RowsOf, TypeOK, rowVars, gatewayVars, scanVars
<1>2. ASSUME NEW r \in Requests, NEW d \in Donations, NEW a \in Amounts, StartDonation(r, d, a)
      PROVE  Following'
  BY <1>2 DEF StartDonation, Following, CommitmentFollowsInvoice, ReceivedOnce, Recorded, RowsOf, TypeOK, rowVars, gatewayVars, scanVars
<1>3. ASSUME NEW r \in Requests, Issue(r)
      PROVE  Following'
  <2>1. PICK i \in Invoices :
           /\ invoices[i].status = "NONE"
           /\ invoices'[i].status = "ISSUED" /\ invoices'[i].owner = requests[r].owner
           /\ \A j \in Invoices : j # i => invoices'[j] = invoices[j]
           /\ requests[r] # None
           /\ requests'[r].invoice = i /\ requests'[r].owner = requests[r].owner
           /\ \A q \in Requests : q # r => requests'[q] = requests[q]
           /\ UNCHANGED <<rowVars, gatewayVars, settling, scanVars>>
    BY <1>3, IssueEffect
  <2>2. \A j \in Invoices : Recorded(j)' <=> Recorded(j) /\ j # i
    BY <2>1 DEF Recorded
  <2>3. \A j \in Invoices : Recorded(j) => j # i
    BY <2>1 DEF Recorded
  <2>4. \A c \in Commitments : RowsOf(c)' = RowsOf(c)
    BY <2>1, <2>2, <2>3 DEF RowsOf
  <2>5. \A j \in Invoices : j # i => invoices'[j] = invoices[j]
    BY <2>1
  <2> QED
    BY <2>1, <2>3, <2>4, <2>5 DEF Following, CommitmentFollowsInvoice, ReceivedOnce, RowsOf, rowVars
<1>4. ASSUME NEW r \in Requests, RecordInvestment(r)
      PROVE  Following'
  <2> DEFINE i == requests[r].invoice
  <2>1. Answered(r) /\ Record(r)
    BY <1>4 DEF RecordInvestment
  <2>2. /\ i \in Invoices /\ requests[r].owner \in Owners
        /\ invoices'[i].status = "NEW" /\ invoices'[i].owner = invoices[i].owner
        /\ \A j \in Invoices : j # i => invoices'[j] = invoices[j]
        /\ requests'[r] = None
        /\ \A q \in Requests : q # r => requests'[q] = requests[q]
    BY <2>1, RecordEffect
  <2>3. invoices[i].status = "ISSUED" /\ invoices[i].owner = requests[r].owner
    BY <2>1 DEF Issuing, InvoicesHeld
  <2>4. UNCHANGED <<received, gatewayVars, settling, scanVars>>
    BY <2>1 DEF Record
  <2> HIDE DEF i
  <2> DEFINE o == requests[r].owner
  <2>5. /\ o \in Commitments /\ RowsOf(o) = {}
        /\ commitments' = [commitments EXCEPT ![o].status = "AWAITING_PAYMENT"]
    BY <1>4 DEF RecordInvestment
  <2>6. commitments[o].status # "SETTLEMENT_PENDING"
    BY <2>5 DEF Following, CommitmentFollowsInvoice
  <2>7. \A c \in Commitments : c = o => RowsOf(c)' = {i}
    BY <2>2, <2>3, <2>5 DEF RowsOf, Recorded
  <2>8. \A c \in Commitments : c # o => RowsOf(c)' = RowsOf(c) /\ i \notin RowsOf(c)
    BY <2>2, <2>3 DEF RowsOf, Recorded
  <2>9. /\ commitments'[o].status = "AWAITING_PAYMENT"
        /\ \A c \in Commitments : c # o => commitments'[c] = commitments[c]
    BY <2>5 DEF TypeOK, CommitmentRows
  <2> HIDE DEF o
  <2>10. CommitmentFollowsInvoice'
    BY <2>2, <2>5, <2>7, <2>8, <2>9 DEF Following, CommitmentFollowsInvoice, RowsOf
  <2>11. ReceivedOnce'
    BY <2>4, <2>5, <2>6, <2>9 DEF Following, ReceivedOnce
  <2> QED
    BY <2>10, <2>11 DEF Following
<1>5. ASSUME NEW r \in Requests, RecordDonation(r)
      PROVE  Following'
  <2> DEFINE i == requests[r].invoice
  <2>1. Answered(r) /\ Record(r)
    BY <1>5 DEF RecordDonation
  <2>2. /\ i \in Invoices /\ requests[r].owner \in Owners
        /\ invoices'[i].status = "NEW" /\ invoices'[i].owner = invoices[i].owner
        /\ \A j \in Invoices : j # i => invoices'[j] = invoices[j]
        /\ requests'[r] = None
        /\ \A q \in Requests : q # r => requests'[q] = requests[q]
    BY <2>1, RecordEffect
  <2>3. invoices[i].status = "ISSUED" /\ invoices[i].owner = requests[r].owner
    BY <2>1 DEF Issuing, InvoicesHeld
  <2>4. UNCHANGED <<received, gatewayVars, settling, scanVars>>
    BY <2>1 DEF Record
  <2> HIDE DEF i
  <2>5. requests[r].owner \notin Commitments /\ UNCHANGED commitments
    BY <1>5, LightningAssumption DEF RecordDonation
  <2>6. \A c \in Commitments : RowsOf(c)' = RowsOf(c) /\ i \notin RowsOf(c)
    BY <2>2, <2>3, <2>5 DEF RowsOf, Recorded
  <2> QED
    BY <2>2, <2>4, <2>5, <2>6 DEF Following, CommitmentFollowsInvoice, ReceivedOnce, RowsOf
<1>6. ASSUME NEW r \in Requests, Abandon(r)
      PROVE  Following'
  BY <1>6 DEF Abandon, Following, CommitmentFollowsInvoice, ReceivedOnce, Recorded, RowsOf, TypeOK, rowVars, gatewayVars, scanVars
<1>7. ASSUME NEW i \in Invoices, Pay(i) \/ Unlist(i)
      PROVE  Following'
  BY <1>7 DEF Pay, Unlist, Following, CommitmentFollowsInvoice, ReceivedOnce, Recorded, RowsOf, TypeOK, rowVars, gatewayVars, scanVars
<1>8. ASSUME NEW i \in Invoices, Age(i)
      PROVE  Following'
  BY <1>8 DEF Age, Following, CommitmentFollowsInvoice, ReceivedOnce, Recorded, RowsOf, TypeOK, rowVars, gatewayVars, scanVars
<1>9. ASSUME NEW s \in Settlers, NEW i \in Invoices, Webhook(s, i) \/ CheckInvestment(s, i) \/ CheckDonation(s, i)
      PROVE  Following'
  BY <1>9 DEF Webhook, CheckInvestment, CheckDonation, Found, Following, CommitmentFollowsInvoice, ReceivedOnce, Recorded, RowsOf, TypeOK, rowVars, gatewayVars, scanVars
<1>10. ASSUME NEW s \in Settlers, Settle(s)
       PROVE  Following'
  <2>1. CASE invoices[settling[s]].status # "NEW"
    BY <1>10, <2>1, SettledBefore DEF Following, CommitmentFollowsInvoice, ReceivedOnce, RowsOf, Recorded, rowVars, gatewayVars, scanVars
  <2>2. CASE invoices[settling[s]].status = "NEW"
    <3> DEFINE i == settling[s]
               o == invoices[i].owner
    <3>1. /\ i \in Invoices /\ i # None /\ o \in Owners
          /\ invoices'[i].status = "PAID" /\ invoices'[i].owner = o
          /\ \A j \in Invoices : j # i => invoices'[j] = invoices[j]
          /\ o \in Commitments =>
               /\ commitments' = [commitments EXCEPT ![o].status = "SETTLEMENT_PENDING"]
               /\ received' = [received EXCEPT ![o] = @ + 1]
               /\ UNCHANGED donations
          /\ o \notin Commitments =>
               /\ o \in Donations /\ donations'[o].status = "SUCCEEDED"
               /\ \A d \in Donations : d # o => donations'[d] = donations[d]
               /\ UNCHANGED <<commitments, received>>
          /\ settling' = [settling EXCEPT ![s] = None]
          /\ UNCHANGED <<requests, gatewayVars, scanVars>>
      BY <1>10, <2>2, SettleEffect DEF Issuing
    <3>2. \A c \in Commitments : RowsOf(c)' = RowsOf(c)
      BY <2>2, <3>1 DEF RowsOf, Recorded
    <3>3. CASE o \notin Commitments
      BY <3>1, <3>2, <3>3 DEF Following, CommitmentFollowsInvoice, ReceivedOnce, RowsOf
    <3>4. CASE o \in Commitments
      <4>1. RowsOf(o) = {i} /\ \A c \in Commitments : c # o => i \notin RowsOf(c)
        BY <2>2, <3>1, <3>4 DEF Issuing, OneInvoice, RowsOf, Recorded
      <4>2. commitments[o].status = "AWAITING_PAYMENT"
        BY <2>2, <3>4, <4>1 DEF Following, CommitmentFollowsInvoice
      <4>3. received[o] = 0
        BY <3>4, <4>2 DEF Following, ReceivedOnce
      <4>4. /\ commitments'[o].status = "SETTLEMENT_PENDING" /\ received'[o] = 1
            /\ \A c \in Commitments : c # o => commitments'[c] = commitments[c] /\ received'[c] = received[c]
        BY <3>1, <3>4, <4>3 DEF TypeOK, CommitmentRows
      <4>5. CommitmentFollowsInvoice'
        BY <3>1, <3>2, <3>4, <4>1, <4>4 DEF Following, CommitmentFollowsInvoice, RowsOf
      <4>6. ReceivedOnce'
        BY <4>4 DEF Following, ReceivedOnce
      <4> QED
        BY <4>5, <4>6 DEF Following
    <3> QED
      BY <3>3, <3>4
  <2> QED
    BY <2>1, <2>2
<1>11. ASSUME NEW s \in Settlers, Stop(s)
       PROVE  Following'
  BY <1>11 DEF Stop, Following, CommitmentFollowsInvoice, ReceivedOnce, Recorded, RowsOf, TypeOK, rowVars, gatewayVars, scanVars
<1>12. CASE StartPass
  BY <1>12 DEF StartPass, Following, CommitmentFollowsInvoice, ReceivedOnce, Recorded, RowsOf, TypeOK, rowVars, gatewayVars, scanVars
<1>13. CASE AbortScan
  BY <1>13 DEF AbortScan, Following, CommitmentFollowsInvoice, ReceivedOnce, Recorded, RowsOf, TypeOK, rowVars, gatewayVars, scanVars
<1>14. ASSUME NEW i \in Invoices, ScanNext(i)
       PROVE  Following'
  BY <1>14 DEF ScanNext, Following, CommitmentFollowsInvoice, ReceivedOnce, Recorded, RowsOf, TypeOK, rowVars, gatewayVars, scanVars
<1>15. ASSUME NEW d \in Donations, Succeed(d)
       PROVE  Following'
  BY <1>15 DEF Succeed, Following, CommitmentFollowsInvoice, ReceivedOnce, Recorded, RowsOf, TypeOK, rowVars, gatewayVars, scanVars
<1>16. CASE UNCHANGED vars
  BY <1>16 DEF vars, Following, CommitmentFollowsInvoice, ReceivedOnce, Recorded, RowsOf, TypeOK, rowVars, gatewayVars, scanVars
<1> QED
  BY <1>1, <1>2, <1>3, <1>4, <1>5, <1>6, <1>7, <1>8, <1>9, <1>10, <1>11, <1>12, <1>13, <1>14, <1>15, <1>16, NextCases

LEMMA InvInit == Init => IInv
<1> SUFFICES ASSUME Init PROVE IInv
  OBVIOUS
<1>1. \A i \in Invoices : ~Recorded(i)
  BY DEF Init, Recorded, Blank
<1>2. Issuing
  BY <1>1 DEF Init, Issuing, InvoicesHeld, HeldByOne, RowsOwned, OneInvoice, Answered, RowsOf
<1>3. Paying
  BY <1>1 DEF Init, Paying, PaidRecorded, SettlesPaid, PaidRowWasPaid, PaidDonationSucceeded, Recorded
<1>4. Following
  BY <1>1 DEF Init, Following, CommitmentFollowsInvoice, ReceivedOnce, RowsOf
<1> QED
  BY <1>2, <1>3, <1>4, TypeInit DEF IInv

LEMMA InvNext == IInv /\ [Next]_vars => IInv'
  BY TypeNext, IssuingNext, PayingNext, FollowingNext DEF IInv

THEOREM Invariant == Spec => []IInv
  BY InvInit, InvNext, PTL DEF Spec

\* No row of an unpaid invoice says PAID, whoever settled it on whatever it had read before.
THEOREM PaidOnlyIfPaid == Spec => []PaidRowWasPaid
<1>1. IInv => PaidRowWasPaid
  BY DEF IInv, Paying
<1> QED
  BY <1>1, Invariant, PTL

\* Commitment and invoice agree in every interleaving of requests and settlers.
THEOREM CommitmentAgrees == Spec => []CommitmentFollowsInvoice
<1>1. IInv => CommitmentFollowsInvoice
  BY DEF IInv, Following
<1> QED
  BY <1>1, Invariant, PTL

\* The money of a commitment is announced once, however many settlers found it paid.
THEOREM AnnouncedOnce == Spec => []ReceivedOnce
<1>1. IInv => ReceivedOnce
  BY DEF IInv, Following
<1> QED
  BY <1>1, Invariant, PTL

\* A donation with a paid invoice has succeeded, and no request in flight takes that back.
THEOREM PaidGiftStands == Spec => []PaidDonationSucceeded
<1>1. IInv => PaidDonationSucceeded
  BY DEF IInv, Paying
<1> QED
  BY <1>1, Invariant, PTL
-----------------------------------------------------------------------------
(* The refinement *)

LEMMA PromiseInit == Init => Promise!Init
  BY DEF Init, Promise!Init, Standing, RowsOf, Recorded, Blank

\* Where a commitment stands is a matter of its status and of the paid invoices it owns.
StandsAt(c) ==
  IF commitments[c].status = "SETTLEMENT_PENDING" THEN "received"
  ELSE IF \E i \in paid : invoices[i].owner = c THEN "paid" ELSE "open"

LEMMA StandingIs ==
  ASSUME IInv, NEW c \in Commitments
  PROVE  Standing(c) = StandsAt(c)
<1>1. (\E i \in RowsOf(c) : i \in paid) <=> (\E i \in paid : invoices[i].owner = c)
  BY DEF IInv, TypeOK, Paying, PaidRecorded, RowsOf
<1> QED
  BY <1>1 DEF Standing, StandsAt

LEMMA StandingIsNext ==
  ASSUME IInv', NEW c \in Commitments
  PROVE  Standing(c)' = StandsAt(c)'
<1>1. (\E i \in RowsOf(c)' : i \in paid') <=> (\E i \in paid' : invoices'[i].owner = c)
  BY DEF IInv, TypeOK, Paying, PaidRecorded, RowsOf
<1> QED
  BY <1>1 DEF Standing, StandsAt

\* Nothing moves for the investor unless an invoice is paid or a commitment is settled.
LEMMA NothingMoved ==
  ASSUME IInv, IInv', paid' = paid, received' = received,
         \A i \in paid : invoices'[i].owner = invoices[i].owner,
         \A c \in Commitments : commitments'[c].status = "SETTLEMENT_PENDING" <=> commitments[c].status = "SETTLEMENT_PENDING"
  PROVE  UNCHANGED Promise!vars
<1>1. \A c \in Commitments : StandsAt(c)' = StandsAt(c)
  BY DEF StandsAt
<1>2. \A c \in Commitments : Standing(c)' = Standing(c)
  BY <1>1, StandingIs, StandingIsNext
<1> QED
  BY <1>2 DEF Promise!vars

LEMMA PromisePay ==
  ASSUME IInv, IInv', NEW i \in Invoices, Pay(i)
  PROVE  [Promise!Next]_(Promise!vars)
<1> DEFINE o == invoices[i].owner
<1>1. /\ invoices[i].status = "NEW" /\ i \notin paid /\ o \in Owners
      /\ paid' = paid \cup {i}
      /\ UNCHANGED <<rowVars, invoices>>
  BY DEF Pay, IInv, Issuing, RowsOwned, Recorded
<1> HIDE DEF o
<1>2. CASE o \notin Commitments
  <2>1. \A c \in Commitments : StandsAt(c)' = StandsAt(c)
    BY <1>1, <1>2 DEF StandsAt, rowVars, o
  <2>2. \A c \in Commitments : Standing(c)' = Standing(c)
    BY <2>1, StandingIs, StandingIsNext
  <2> QED
    BY <1>1, <2>2 DEF Promise!vars, rowVars
<1>3. CASE o \in Commitments
  <2>1. commitments[o].status = "AWAITING_PAYMENT"
    BY <1>1, <1>3 DEF IInv, Following, CommitmentFollowsInvoice, RowsOf, Recorded, o
  <2>2. \A j \in paid : invoices[j].owner # o
    BY <1>1, <1>3 DEF IInv, TypeOK, Paying, PaidRecorded, Issuing, OneInvoice, RowsOf, Recorded, o
  <2>3. StandsAt(o) = "open"
    BY <2>1, <2>2 DEF StandsAt
  <2>4. \A c \in Commitments : StandsAt(c)' = IF c = o THEN "paid" ELSE StandsAt(c)
    BY <1>1, <2>1 DEF StandsAt, rowVars, o
  <2>5. \A c \in Commitments : Standing(c)' = IF c = o THEN "paid" ELSE Standing(c)
    BY <2>4, StandingIs, StandingIsNext
  <2>6. Standing(o) = "open"
    BY <1>3, <2>3, StandingIs
  <2>7. Promise!Pay(o)
    BY <1>1, <1>3, <2>5, <2>6 DEF Promise!Pay, rowVars
  <2> QED
    BY <1>3, <2>7 DEF Promise!Next
<1> QED
  BY <1>2, <1>3

LEMMA PromiseSettle ==
  ASSUME IInv, IInv', NEW s \in Settlers, Settle(s)
  PROVE  [Promise!Next]_(Promise!vars)
<1>1. CASE invoices[settling[s]].status # "NEW"
  <2>1. UNCHANGED <<rowVars, invoices, gatewayVars>>
    BY <1>1, SettledBefore DEF IInv
  <2> QED
    BY <2>1, NothingMoved DEF rowVars, gatewayVars
<1>2. CASE invoices[settling[s]].status = "NEW"
  <2> DEFINE i == settling[s]
             o == invoices[i].owner
  <2>1. /\ i \in Invoices /\ i # None /\ o \in Owners
        /\ invoices'[i].owner = o
        /\ \A j \in Invoices : j # i => invoices'[j] = invoices[j]
        /\ o \in Commitments =>
             /\ commitments' = [commitments EXCEPT ![o].status = "SETTLEMENT_PENDING"]
             /\ received' = [received EXCEPT ![o] = @ + 1]
        /\ o \notin Commitments => UNCHANGED <<commitments, received>>
        /\ paid' = paid
    BY <1>2, SettleEffect DEF IInv, Issuing, gatewayVars
  <2>2. i \in paid
    BY <2>1 DEF IInv, Paying, SettlesPaid
  <2>3. \A j \in paid : invoices'[j].owner = invoices[j].owner
    BY <2>1 DEF IInv, TypeOK
  <2> HIDE DEF o
  <2>4. CASE o \notin Commitments
    BY <2>1, <2>3, <2>4, NothingMoved
  <2>5. CASE o \in Commitments
    <3>1. commitments[o].status = "AWAITING_PAYMENT"
      BY <1>2, <2>1, <2>5 DEF IInv, Following, CommitmentFollowsInvoice, RowsOf, Recorded, o
    <3>2. StandsAt(o) = "paid"
      BY <2>2, <3>1 DEF StandsAt, o
    <3>3. /\ commitments'[o].status = "SETTLEMENT_PENDING"
          /\ \A c \in Commitments : c # o => commitments'[c] = commitments[c]
      BY <2>1, <2>5 DEF IInv, TypeOK, CommitmentRows
    <3>4. \A c \in Commitments : StandsAt(c)' = IF c = o THEN "received" ELSE StandsAt(c)
      BY <2>1, <2>3, <3>3 DEF StandsAt
    <3>5. \A c \in Commitments : Standing(c)' = IF c = o THEN "received" ELSE Standing(c)
      BY <3>4, StandingIs, StandingIsNext
    <3>6. Standing(o) = "paid"
      BY <2>5, <3>2, StandingIs
    <3>7. Promise!Receive(o)
      BY <2>1, <2>5, <3>5, <3>6 DEF Promise!Receive
    <3> QED
      BY <2>5, <3>7 DEF Promise!Next
  <2> QED
    BY <2>4, <2>5
<1> QED
  BY <1>1, <1>2

LEMMA PromiseNext == IInv /\ IInv' /\ [Next]_vars => [Promise!Next]_(Promise!vars)
<1> SUFFICES ASSUME IInv, IInv', [Next]_vars PROVE [Promise!Next]_(Promise!vars)
  OBVIOUS
<1>1. ASSUME NEW r \in Requests, NEW c \in Commitments, NEW a \in Amounts, StartInvestment(r, c, a)
      PROVE  UNCHANGED Promise!vars
  <2>1. \A k \in Commitments : commitments'[k].status = "SETTLEMENT_PENDING" <=> commitments[k].status = "SETTLEMENT_PENDING"
    BY <1>1 DEF StartInvestment, IInv, TypeOK
  <2> QED
    BY <1>1, <2>1, NothingMoved DEF StartInvestment, gatewayVars
<1>2. ASSUME NEW r \in Requests, NEW d \in Donations, NEW a \in Amounts, StartDonation(r, d, a)
      PROVE  UNCHANGED Promise!vars
  BY <1>2, NothingMoved DEF StartDonation, rowVars, gatewayVars
<1>3. ASSUME NEW r \in Requests, Issue(r)
      PROVE  UNCHANGED Promise!vars
  <2>1. PICK i \in Invoices :
           /\ invoices[i].status = "NONE"
           /\ \A j \in Invoices : j # i => invoices'[j] = invoices[j]
           /\ UNCHANGED <<rowVars, gatewayVars, settling, scanVars>>
    BY <1>3, IssueEffect DEF IInv
  <2>2. i \notin paid
    BY <2>1 DEF IInv, Paying, PaidRecorded, Recorded
  <2> QED
    BY <2>1, <2>2, NothingMoved DEF IInv, TypeOK, rowVars, gatewayVars
<1>4. ASSUME NEW r \in Requests, RecordInvestment(r) \/ RecordDonation(r)
      PROVE  UNCHANGED Promise!vars
  <2>1. Answered(r) /\ Record(r)
    BY <1>4 DEF RecordInvestment, RecordDonation
  <2>2. \A j \in Invoices : invoices'[j].owner = invoices[j].owner
    BY <2>1, RecordEffect DEF IInv
  <2>3. \A k \in Commitments : commitments'[k].status = "SETTLEMENT_PENDING" <=> commitments[k].status = "SETTLEMENT_PENDING"
    <3>1. CASE RecordInvestment(r)
      <4>1. /\ requests[r].owner \in Commitments /\ RowsOf(requests[r].owner) = {}
            /\ commitments' = [commitments EXCEPT ![requests[r].owner].status = "AWAITING_PAYMENT"]
        BY <3>1 DEF RecordInvestment
      <4>2. commitments[requests[r].owner].status # "SETTLEMENT_PENDING"
        BY <4>1 DEF IInv, Following, CommitmentFollowsInvoice
      <4> QED
        BY <4>1, <4>2 DEF IInv, TypeOK, CommitmentRows
    <3>2. CASE RecordDonation(r)
      BY <3>2 DEF RecordDonation
    <3> QED
      BY <1>4, <3>1, <3>2
  <2> QED
    BY <2>1, <2>2, <2>3, NothingMoved DEF Record, gatewayVars, IInv, TypeOK
<1>5. ASSUME NEW r \in Requests, Abandon(r)
      PROVE  UNCHANGED Promise!vars
  BY <1>5, NothingMoved DEF Abandon, rowVars, gatewayVars
<1>6. ASSUME NEW i \in Invoices, Unlist(i)
      PROVE  UNCHANGED Promise!vars
  BY <1>6, NothingMoved DEF Unlist, rowVars
<1>7. ASSUME NEW i \in Invoices, Age(i)
      PROVE  UNCHANGED Promise!vars
  <2>1. \A j \in Invoices : invoices'[j].owner = invoices[j].owner
    BY <1>7 DEF Age, IInv, TypeOK, InvoiceRows
  <2> QED
    BY <1>7, <2>1, NothingMoved DEF Age, rowVars, gatewayVars, IInv, TypeOK
<1>8. ASSUME NEW s \in Settlers, NEW i \in Invoices, Webhook(s, i) \/ CheckInvestment(s, i) \/ CheckDonation(s, i)
      PROVE  UNCHANGED Promise!vars
  BY <1>8, NothingMoved DEF Webhook, CheckInvestment, CheckDonation, Found, rowVars, gatewayVars
<1>9. ASSUME NEW s \in Settlers, Stop(s)
      PROVE  UNCHANGED Promise!vars
  BY <1>9, NothingMoved DEF Stop, rowVars, gatewayVars
<1>10. CASE StartPass
  BY <1>10, NothingMoved DEF StartPass, rowVars, gatewayVars
<1>11. CASE AbortScan
  BY <1>11, NothingMoved DEF AbortScan, rowVars, gatewayVars
<1>12. ASSUME NEW i \in Invoices, ScanNext(i)
       PROVE  UNCHANGED Promise!vars
  BY <1>12, NothingMoved DEF ScanNext, rowVars, gatewayVars
<1>13. ASSUME NEW d \in Donations, Succeed(d)
       PROVE  UNCHANGED Promise!vars
  BY <1>13, NothingMoved DEF Succeed, gatewayVars
<1>14. CASE UNCHANGED vars
  BY <1>14, NothingMoved DEF vars, rowVars, gatewayVars
<1> QED
  BY <1>1, <1>2, <1>3, <1>4, <1>5, <1>6, <1>7, <1>8, <1>9, <1>10, <1>11, <1>12, <1>13, <1>14,
     PromisePay, PromiseSettle, NextCases

\* Requests, gateway and settlers together implement the promise: paid, then announced once.
THEOREM PromiseKept == Spec => FundedOnceKept
<1>1. Spec => Promise!Init /\ [][Promise!Next]_(Promise!vars)
  BY PromiseInit, PromiseNext, Invariant, PTL DEF Spec
<1> QED
  BY <1>1 DEF FundedOnceKept, Promise!Spec
=============================================================================
