------------------------- MODULE LightningSettlement -------------------------
(***************************************************************************)
(* Money received over Lightning (investments/, donations/ and their       *)
(* routes).  A request computes an amount, asks the gateway for an invoice *)
(* and then records it; the payer pays it at the gateway; a webhook, a     *)
(* check by the payer's page and a scan every two minutes each find out    *)
(* and settle.  Between what a handler reads, what the gateway answers and *)
(* what the transaction writes, every other handler may run.               *)
(*                                                                         *)
(* A definition whose name ends in an underscore and a mistake is the next *)
(* definition with that mistake; it is used only to show that a property   *)
(* would notice.                                                           *)
(***************************************************************************)
EXTENDS FiniteSets, Integers

CONSTANTS
  Commitments,  \* idempotency keys of investments
  Donations,    \* donation requests
  Invoices,     \* payment hashes the gateway may issue
  Amounts,      \* sats a price gives a contribution; dollars a donor enters
  Requests,     \* requests in flight that create an invoice
  Handlers,     \* webhook deliveries and status checks in flight
  Scanner,      \* the scan-pending-investments job
  MaxInvoices,  \* MAX_INVOICES
  MaxFailures,  \* bound: how often a scan is cut short
  None

Settlers == Handlers \cup {Scanner}
Owners == Commitments \cup Donations

ASSUME LightningAssumption ==
  /\ Commitments \cap Donations = {}
  /\ IsFiniteSet(Invoices) /\ IsFiniteSet(Requests)
  /\ Amounts \subseteq Nat
  /\ Scanner \notin Handlers
  /\ MaxInvoices \in Nat /\ MaxFailures \in Nat
  /\ None \notin Invoices

VARIABLES
  commitments,  \* the InvestmentCommitment rows
  donations,    \* the DonationRequest rows
  invoices,     \* what the gateway issued and the rows that record it
  requests,     \* what a request in flight has computed, and the invoice it got
  paid,         \* invoices the payer has paid
  listed,       \* paid invoices among the account's 50 most recent transactions
  settling,     \* the invoice a settler has found paid
  todo,         \* invoices the current pass of the scan has still to ask about
  pass,         \* the pass of the scan
  received,     \* outbox events investment.lightning.received of a commitment
  failures

rowVars == <<commitments, donations, received>>
scanVars == <<todo, pass, failures>>
gatewayVars == <<paid, listed>>
vars == <<rowVars, invoices, requests, gatewayVars, settling, scanVars>>

Ages == {"open", "closing", "dropped"}
Blank == [owner |-> None, amount |-> 0, status |-> "NONE", age |-> "open", nth |-> 0]

InvoiceRows ==
  [owner : Owners \cup {None}, amount : Amounts \cup {0},
   status : {"NONE", "ISSUED", "NEW", "PAID"}, age : Ages, nth : Nat]
CommitmentRows ==
  [status : {"NONE", "AWAITING_INVOICE", "AWAITING_PAYMENT", "SETTLEMENT_PENDING"}, amount : Amounts \cup {0}]
DonationRows ==
  [status : {"PENDING", "SUCCEEDED"}, amount : Amounts \cup {0}]
Creations == [owner : Owners, amount : Amounts, invoice : Invoices \cup {None}]

Init ==
  /\ commitments = [c \in Commitments |-> [status |-> "NONE", amount |-> 0]]
  /\ donations = [d \in Donations |-> [status |-> "PENDING", amount |-> 0]]
  /\ invoices = [i \in Invoices |-> Blank]
  /\ requests = [r \in Requests |-> None]
  /\ paid = {} /\ listed = {}
  /\ settling = [s \in Settlers |-> None]
  /\ todo = {} /\ pass = "idle"
  /\ received = [c \in Commitments |-> 0]
  /\ failures = 0

Recorded(i) == invoices[i].status \in {"NEW", "PAID"}
RowsOf(o) == {i \in Invoices : Recorded(i) /\ invoices[i].owner = o}
-----------------------------------------------------------------------------
(* Creating an invoice *)

StartInvestment_Unpriced(r, c, a) ==
  /\ requests[r] = None
  /\ RowsOf(c) = {}
  /\ commitments' = IF commitments[c].status = "NONE"
                    THEN [commitments EXCEPT ![c] = [status |-> "AWAITING_INVOICE", amount |-> a]]
                    ELSE commitments
  /\ requests' = [requests EXCEPT ![r] = [owner |-> c, amount |-> 0, invoice |-> None]]
  /\ UNCHANGED <<donations, received, invoices, gatewayVars, settling, scanVars>>

\* createInvestment up to the gateway call: the amount is priced, the commitment is created under its
\* key unless it exists, and a commitment that has an invoice is returned as it is.
StartInvestment(r, c, a) ==
  /\ requests[r] = None
  /\ RowsOf(c) = {}
  /\ commitments' = IF commitments[c].status = "NONE"
                    THEN [commitments EXCEPT ![c] = [status |-> "AWAITING_INVOICE", amount |-> a]]
                    ELSE commitments
  /\ requests' = [requests EXCEPT ![r] = [owner |-> c, amount |-> a, invoice |-> None]]
  /\ UNCHANGED <<donations, received, invoices, gatewayVars, settling, scanVars>>

\* An invoice that is still new, asks for the same amount and has more than a minute left.
Reusable(d, a) ==
  \E i \in RowsOf(d) : invoices[i].status = "NEW" /\ invoices[i].amount = a /\ invoices[i].age = "open"

\* createDonationLightningInvoice up to the gateway call.
StartDonation(r, d, a) ==
  /\ requests[r] = None
  /\ donations[d].status # "SUCCEEDED"
  /\ ~Reusable(d, a)
  /\ Cardinality(RowsOf(d)) < MaxInvoices
  /\ requests' = [requests EXCEPT ![r] = [owner |-> d, amount |-> a, invoice |-> None]]
  /\ UNCHANGED <<rowVars, invoices, gatewayVars, settling, scanVars>>

\* The gateway issues a fresh invoice for what the request computed.
Issue(r) ==
  LET i == CHOOSE n \in Invoices : invoices[n].status = "NONE" IN
  /\ requests[r] # None
  /\ requests[r].invoice = None
  /\ \E n \in Invoices : invoices[n].status = "NONE"
  /\ invoices' = [invoices EXCEPT ![i] = [Blank EXCEPT !.owner = requests[r].owner, !.amount = requests[r].amount,
                                                       !.status = "ISSUED"]]
  /\ requests' = [requests EXCEPT ![r].invoice = i]
  /\ UNCHANGED <<rowVars, gatewayVars, settling, scanVars>>

Record(r) ==
  LET i == requests[r].invoice IN
  /\ invoices' = [invoices EXCEPT ![i] = [@ EXCEPT !.status = "NEW", !.nth = Cardinality(RowsOf(requests[r].owner))]]
  /\ requests' = [requests EXCEPT ![r] = None]
  /\ UNCHANGED <<received, gatewayVars, settling, scanVars>>

Answered(r) == requests[r] # None /\ requests[r].invoice # None

RecordInvestment_OneOfMany(r) ==
  /\ Answered(r)
  /\ requests[r].owner \in Commitments
  /\ Record(r)
  /\ commitments' = [commitments EXCEPT ![requests[r].owner].status = "AWAITING_PAYMENT"]
  /\ UNCHANGED donations

\* The transaction of createInvestment: a commitment has one invoice row at most (its unique key).
RecordInvestment(r) ==
  /\ Answered(r)
  /\ requests[r].owner \in Commitments
  /\ RowsOf(requests[r].owner) = {}
  /\ Record(r)
  /\ commitments' = [commitments EXCEPT ![requests[r].owner].status = "AWAITING_PAYMENT"]
  /\ UNCHANGED donations

RecordDonation_Reopening(r) ==
  /\ Answered(r)
  /\ requests[r].owner \in Donations
  /\ Record(r)
  /\ donations' = [donations EXCEPT ![requests[r].owner] = [status |-> "PENDING", amount |-> requests[r].amount]]
  /\ UNCHANGED commitments

\* The transaction of createDonationLightningInvoice looks at nothing again.
RecordDonation(r) ==
  /\ Answered(r)
  /\ requests[r].owner \in Donations
  /\ Record(r)
  /\ donations' = [donations EXCEPT ![requests[r].owner].amount = requests[r].amount]
  /\ UNCHANGED commitments

\* An error of the gateway, a violated key or a crash: an invoice already issued is shown to nobody.
Abandon(r) ==
  /\ requests[r] # None
  /\ requests' = [requests EXCEPT ![r] = None]
  /\ UNCHANGED <<rowVars, invoices, gatewayVars, settling, scanVars>>
-----------------------------------------------------------------------------
(* The payer and the gateway *)

\* Only a recorded invoice is shown, and the gateway takes payment until it expires.
Pay(i) ==
  /\ invoices[i].status = "NEW"
  /\ invoices[i].age # "dropped"
  /\ i \notin paid
  /\ paid' = paid \cup {i}
  /\ listed' = listed \cup {i}
  /\ UNCHANGED <<rowVars, invoices, requests, settling, scanVars>>

\* Fifty later transactions push a payment off the list that isSettled reads.
Unlist(i) ==
  /\ i \in listed
  /\ listed' = listed \ {i}
  /\ UNCHANGED <<rowVars, invoices, requests, paid, settling, scanVars>>

\* A donation's invoice grows old: from its last minute on it is not shown again, from five minutes after
\* its expiry on nobody asks about it.  An investment's is asked about whatever its age.
Age(i) ==
  /\ invoices[i].status = "NEW" /\ invoices[i].owner \in Donations
  /\ invoices[i].age # "dropped"
  /\ invoices' = [invoices EXCEPT ![i].age = IF @ = "open" THEN "closing" ELSE "dropped"]
  /\ UNCHANGED <<rowVars, requests, gatewayVars, settling, scanVars>>
-----------------------------------------------------------------------------
(* Finding out *)

Found(s, i) ==
  /\ settling[s] = None
  /\ settling' = [settling EXCEPT ![s] = i]
  /\ UNCHANGED <<rowVars, invoices, requests, gatewayVars, scanVars>>

\* A webhook delivery says the payment succeeded: late, repeated, in any order, or never.
Webhook(s, i) ==
  /\ i \in paid
  /\ invoices[i].status = "NEW"
  /\ Found(s, i)

CheckInvestment_Unasked(s, i) ==
  /\ invoices[i].owner \in Commitments
  /\ invoices[i].status = "NEW"
  /\ Found(s, i)

\* The investor's check of a commitment.
CheckInvestment(s, i) ==
  /\ invoices[i].owner \in Commitments
  /\ invoices[i].status = "NEW"
  /\ i \in listed
  /\ Found(s, i)

\* The donor's page asks about the donation's newest invoice alone.
CheckDonation(s, i) ==
  /\ invoices[i].owner \in Donations
  /\ invoices[i].status = "NEW"
  /\ invoices[i].age # "dropped"
  /\ \A j \in RowsOf(invoices[i].owner) : invoices[j].nth <= invoices[i].nth
  /\ i \in listed
  /\ Found(s, i)

PendingInvestments == {i \in Invoices : /\ invoices[i].owner \in Commitments
                                        /\ invoices[i].status = "NEW"
                                        /\ commitments[invoices[i].owner].status = "AWAITING_PAYMENT"}

PendingDonations_Newest == {i \in Invoices : /\ invoices[i].owner \in Donations
                                             /\ invoices[i].status = "NEW"
                                             /\ invoices[i].age # "dropped"
                                             /\ \A j \in RowsOf(invoices[i].owner) : invoices[j].nth <= invoices[i].nth}

PendingDonations == {i \in Invoices : /\ invoices[i].owner \in Donations
                                      /\ invoices[i].status = "NEW"
                                      /\ invoices[i].age # "dropped"}

\* The scan reads the pending investments, asks about each in turn, then does the same for donations.
StartPass ==
  /\ todo = {} /\ settling[Scanner] = None
  /\ CASE pass = "idle" -> pass' = "investments" /\ todo' = PendingInvestments
       [] pass = "investments" -> pass' = "donations" /\ todo' = PendingDonations
       [] OTHER -> pass' = "idle" /\ todo' = {}
  /\ UNCHANGED <<rowVars, invoices, requests, gatewayVars, settling, failures>>

ScanNext(i) ==
  /\ i \in todo /\ settling[Scanner] = None
  /\ todo' = todo \ {i}
  /\ settling' = IF i \in listed THEN [settling EXCEPT ![Scanner] = i] ELSE settling
  /\ UNCHANGED <<rowVars, invoices, requests, gatewayVars, pass, failures>>

\* A call of the gateway throws, or the worker stops: the rest of both passes is left to the next scan.
AbortScan ==
  /\ pass # "idle"
  /\ failures < MaxFailures
  /\ failures' = failures + 1
  /\ pass' = "idle" /\ todo' = {}
  /\ settling' = [settling EXCEPT ![Scanner] = None]
  /\ UNCHANGED <<rowVars, invoices, requests, gatewayVars>>
-----------------------------------------------------------------------------
(* Settling *)

SettleRow(i) ==
  LET o == invoices[i].owner IN
  /\ invoices' = [invoices EXCEPT ![i].status = "PAID"]
  /\ IF o \in Commitments
     THEN /\ commitments' = [commitments EXCEPT ![o].status = "SETTLEMENT_PENDING"]
          /\ received' = [received EXCEPT ![o] = @ + 1]
          /\ UNCHANGED donations
     ELSE /\ donations' = [donations EXCEPT ![o] = [status |-> "SUCCEEDED", amount |-> invoices[i].amount]]
          /\ UNCHANGED <<commitments, received>>

Settle_Unguarded(s) ==
  /\ settling[s] # None
  /\ settling' = [settling EXCEPT ![s] = None]
  /\ SettleRow(settling[s])
  /\ UNCHANGED <<requests, gatewayVars, scanVars>>

\* settleLightningInvoice and settleDonationLightningInvoice: the row is taken from NEW to PAID by one
\* transaction, and whoever finds it PAID does nothing.
Settle(s) ==
  /\ settling[s] # None
  /\ settling' = [settling EXCEPT ![s] = None]
  /\ IF invoices[settling[s]].status = "NEW" THEN SettleRow(settling[s]) ELSE UNCHANGED <<rowVars, invoices>>
  /\ UNCHANGED <<requests, gatewayVars, scanVars>>

\* A webhook delivery or a check stops before its transaction.
Stop(s) ==
  /\ settling[s] # None
  /\ settling' = [settling EXCEPT ![s] = None]
  /\ UNCHANGED <<rowVars, invoices, requests, gatewayVars, scanVars>>

\* The donor's page reports a payment made on another chain.
Succeed(d) ==
  /\ donations[d].status # "SUCCEEDED"
  /\ donations' = [donations EXCEPT ![d].status = "SUCCEEDED"]
  /\ UNCHANGED <<commitments, received, invoices, requests, gatewayVars, settling, scanVars>>
-----------------------------------------------------------------------------
RequestStep ==
  \E r \in Requests :
    \/ \E c \in Commitments, a \in Amounts : StartInvestment(r, c, a)
    \/ \E d \in Donations, a \in Amounts : StartDonation(r, d, a)
    \/ Issue(r)
    \/ RecordInvestment(r) \/ RecordDonation(r) \/ Abandon(r)

GatewayStep == \E i \in Invoices : Pay(i) \/ Unlist(i) \/ Age(i)

HandlerStep ==
  \E s \in Handlers :
    \/ \E i \in Invoices : Webhook(s, i) \/ CheckInvestment(s, i) \/ CheckDonation(s, i)
    \/ Settle(s) \/ Stop(s)

ScanStep == StartPass \/ Settle(Scanner) \/ \E i \in Invoices : ScanNext(i)

Next == RequestStep \/ GatewayStep \/ HandlerStep \/ ScanStep \/ AbortScan \/ \E d \in Donations : Succeed(d)

\* The scheduler starts a scan every two minutes, and a scan waits for nothing but its own calls.
Fairness == WF_vars(ScanStep)

Spec == Init /\ [][Next]_vars /\ Fairness
-----------------------------------------------------------------------------
TypeOK ==
  /\ commitments \in [Commitments -> CommitmentRows]
  /\ donations \in [Donations -> DonationRows]
  /\ invoices \in [Invoices -> InvoiceRows]
  /\ requests \in [Requests -> Creations \cup {None}]
  /\ paid \subseteq Invoices /\ listed \subseteq paid
  /\ settling \in [Settlers -> Invoices \cup {None}]
  /\ todo \subseteq Invoices /\ pass \in {"idle", "investments", "donations"}
  /\ received \in [Commitments -> Nat]
  /\ failures \in 0..MaxFailures

\* No row says PAID for an invoice that was never paid, whichever of the webhook, the checks and the
\* scan wrote it and however old what it had read was.
PaidRowWasPaid == \A i \in Invoices : invoices[i].status = "PAID" => i \in paid

\* A commitment stands where its invoice stands: two requests with one key, or a request that comes back
\* from the gateway after the settlement, never leave it awaiting a payment it has, nor the reverse.
CommitmentFollowsInvoice ==
  \A c \in Commitments :
    /\ commitments[c].status = "AWAITING_PAYMENT" <=> \E i \in RowsOf(c) : invoices[i].status = "NEW"
    /\ commitments[c].status = "SETTLEMENT_PENDING" <=> \E i \in RowsOf(c) : invoices[i].status = "PAID"

\* The money of a commitment is announced once and only when it is settled, though a webhook, its
\* repetitions, the investor and the scan may all settle it.
ReceivedOnce ==
  \A c \in Commitments : received[c] = IF commitments[c].status = "SETTLEMENT_PENDING" THEN 1 ELSE 0

\* A donation one of whose invoices is recorded as paid has succeeded, also after a request for
\* another invoice that began before it was paid.
PaidDonationSucceeded ==
  \A i \in Invoices : invoices[i].status = "PAID" /\ invoices[i].owner \in Donations
                        => donations[invoices[i].owner].status = "SUCCEEDED"

\* A payment the gateway still lists is settled in the end even if no webhook arrives and nobody looks at
\* a page, unless it is a donation's that the scan has stopped asking about.
ListedIsSettled ==
  \A i \in Invoices :
    i \in listed ~> \/ invoices[i].status = "PAID"
                    \/ i \notin listed
                    \/ invoices[i].owner \in Donations /\ invoices[i].age = "dropped"

Standing(c) ==
  IF commitments[c].status = "SETTLEMENT_PENDING" THEN "received"
  ELSE IF \E i \in RowsOf(c) : i \in paid THEN "paid" ELSE "open"

Promise == INSTANCE FundedOnce WITH standing <- [c \in Commitments |-> Standing(c)]

\* Requests, gateway and settlers together keep the promise: paid, then announced once.
FundedOnceKept == Promise!Spec
=============================================================================
