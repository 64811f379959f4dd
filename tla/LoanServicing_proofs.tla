------------------------ MODULE LoanServicing_proofs ------------------------
(***************************************************************************)
(* What LoanServicing keeps true of every schedule, every set of keys and  *)
(* every bound: its types; the agreement of the savings liability with the *)
(* savings balance and of the paid columns with the standing payments; that *)
(* no payment is lost, paid beyond its due or recorded twice; that the     *)
(* status follows the money; how far the penalty receivable and the        *)
(* interest income can go; and that the principal receivable reconciles.   *)
(***************************************************************************)
EXTENDS LoanServicing, Sums

-----------------------------------------------------------------------------
(* The repayment waterfall, of every payment and schedule: it pays no      *)
(* bucket more than it owes and no more than is left, it pays a row in     *)
(* full before the next, and it accounts for the whole payment.            *)

Balances == [Buckets -> Int]

\* take: a bucket gets a natural amount, at most what it owes and at most what is left; with
\* something left after it, it got all it owes.
LEMMA TakeBounds ==
  ASSUME NEW outstanding \in Int, NEW available \in Nat
  PROVE  /\ Take(outstanding, available) \in Nat
         /\ Take(outstanding, available) <= Max0(outstanding)
         /\ available - Take(outstanding, available) \in Nat
         /\ available - Take(outstanding, available) > 0
              => Take(outstanding, available) = Max0(outstanding)
BY DEF Take, Max0

\* One turn of the loop pays a row of amounts within what each bucket owes and within what is left.
LEMMA PayInstallmentBounds ==
  ASSUME NEW owed \in Balances, NEW available \in Nat
  PROVE  /\ PayInstallment(owed, available) \in Amounts
         /\ \A b \in Buckets : PayInstallment(owed, available)[b] <= Max0(owed[b])
         /\ Total(PayInstallment(owed, available)) <= available
         /\ Total(PayInstallment(owed, available)) < available
              => \A b \in Buckets : PayInstallment(owed, available)[b] = Max0(owed[b])
<1> DEFINE penalties     == Take(owed["penalties"], available)
           fees          == Take(owed["fees"], available - penalties)
           monitoringFee == Take(owed["monitoringFee"], available - penalties - fees)
           interest      == Take(owed["interest"], available - penalties - fees - monitoringFee)
           principal     == Take(owed["principal"],
                                 available - penalties - fees - monitoringFee - interest)
           row           == PayInstallment(owed, available)
<1>1. /\ owed["penalties"] \in Int /\ owed["fees"] \in Int /\ owed["monitoringFee"] \in Int
      /\ owed["interest"] \in Int /\ owed["principal"] \in Int
  BY DEF Balances, Buckets
<1>2. /\ penalties \in Nat /\ penalties <= Max0(owed["penalties"])
      /\ available - penalties \in Nat
      /\ available - penalties > 0 => penalties = Max0(owed["penalties"])
  BY <1>1, TakeBounds
<1>3. /\ fees \in Nat /\ fees <= Max0(owed["fees"])
      /\ available - penalties - fees \in Nat
      /\ available - penalties - fees > 0 => fees = Max0(owed["fees"])
  <2> HIDE DEF penalties
  <2> QED BY <1>1, <1>2, TakeBounds
<1>4. /\ monitoringFee \in Nat /\ monitoringFee <= Max0(owed["monitoringFee"])
      /\ available - penalties - fees - monitoringFee \in Nat
      /\ available - penalties - fees - monitoringFee > 0 => monitoringFee = Max0(owed["monitoringFee"])
  <2> HIDE DEF penalties, fees
  <2> QED BY <1>1, <1>2, <1>3, TakeBounds
<1>5. /\ interest \in Nat /\ interest <= Max0(owed["interest"])
      /\ available - penalties - fees - monitoringFee - interest \in Nat
      /\ available - penalties - fees - monitoringFee - interest > 0
           => interest = Max0(owed["interest"])
  <2> HIDE DEF penalties, fees, monitoringFee
  <2> QED BY <1>1, <1>2, <1>3, <1>4, TakeBounds
<1>6. /\ principal \in Nat /\ principal <= Max0(owed["principal"])
      /\ available - penalties - fees - monitoringFee - interest - principal \in Nat
      /\ available - penalties - fees - monitoringFee - interest - principal > 0
           => principal = Max0(owed["principal"])
  <2> HIDE DEF penalties, fees, monitoringFee, interest
  <2> QED BY <1>1, <1>2, <1>3, <1>4, <1>5, TakeBounds
<1>7. /\ row \in [Buckets -> Nat]
      /\ row["penalties"] = penalties /\ row["fees"] = fees
      /\ row["monitoringFee"] = monitoringFee
      /\ row["interest"] = interest /\ row["principal"] = principal
  <2>1. row = [b \in Buckets |->
                 CASE b = "penalties"     -> penalties
                   [] b = "fees"          -> fees
                   [] b = "monitoringFee" -> monitoringFee
                   [] b = "interest"      -> interest
                   [] b = "principal"     -> principal]
    BY DEF PayInstallment
  <2> HIDE DEF row, penalties, fees, monitoringFee, interest, principal
  <2> QED BY <2>1, <1>2, <1>3, <1>4, <1>5, <1>6 DEF Buckets
<1> HIDE DEF row, penalties, fees, monitoringFee, interest, principal
<1>8. \A b \in Buckets : row[b] <= Max0(owed[b])
  BY <1>2, <1>3, <1>4, <1>5, <1>6, <1>7 DEF Buckets
<1>9. Total(row) <= available
  BY <1>2, <1>3, <1>4, <1>5, <1>6, <1>7 DEF Total
<1>10. ASSUME Total(row) < available
       PROVE  \A b \in Buckets : row[b] = Max0(owed[b])
  <2>1. available - penalties - fees - monitoringFee - interest - principal > 0
    BY <1>2, <1>3, <1>4, <1>5, <1>6, <1>7, <1>10 DEF Total
  <2>2. /\ available - penalties > 0 /\ available - penalties - fees > 0
        /\ available - penalties - fees - monitoringFee > 0
        /\ available - penalties - fees - monitoringFee - interest > 0
    BY <1>2, <1>3, <1>4, <1>5, <1>6, <2>1
  <2> QED BY <1>2, <1>3, <1>4, <1>5, <1>6, <1>7, <2>1, <2>2 DEF Buckets
<1> QED BY <1>7, <1>8, <1>9, <1>10 DEF Amounts, row

\* The allocation of a payment: a row of amounts per installment, within what each bucket owes, and
\* an overpayment between nothing and the payment.
LEMMA AllocationBounds ==
  ASSUME NEW owed \in [Installments -> Balances], NEW payment \in Nat,
         NEW rem \in Remainders(owed, payment)
  PROVE  /\ Allocation(owed, rem) \in [Installments -> Amounts]
         /\ \A i \in Installments, b \in Buckets : Allocation(owed, rem)[i][b] <= Max0(owed[i][b])
         /\ rem[N] \in Nat
         /\ rem[N] <= payment
<1>1. /\ rem \in [0 .. N -> 0 .. payment]
      /\ N \in Nat
  BY NAssumption DEF Remainders
<1>2. \A i \in Installments : rem[i - 1] \in Nat
  BY <1>1 DEF Installments
<1>3. \A i \in Installments :
        /\ PayInstallment(owed[i], rem[i - 1]) \in Amounts
        /\ \A b \in Buckets : PayInstallment(owed[i], rem[i - 1])[b] <= Max0(owed[i][b])
  BY <1>2, PayInstallmentBounds
<1> QED BY <1>1, <1>3 DEF Allocation

LEMMA TotalType ==
  ASSUME NEW row
  PROVE  /\ row \in Amounts => Total(row) \in Nat /\ \A b \in Buckets : row[b] <= Total(row)
         /\ row \in Balances => Total(row) \in Int
BY DEF Total, Amounts, Balances, Buckets

\* One turn of the loop, and what it leaves.
LEMMA RemainderStep ==
  ASSUME NEW owed \in [Installments -> Balances], NEW payment \in Nat,
         NEW rem \in Remainders(owed, payment), NEW i \in Installments
  PROVE  /\ rem[i - 1] \in Nat /\ rem[i] \in Nat
         /\ rem[i] = rem[i - 1] - Total(Allocation(owed, rem)[i])
         /\ rem[i] > 0 => \A b \in Buckets : Allocation(owed, rem)[i][b] = Max0(owed[i][b])
         /\ rem[i - 1] = 0 => \A b \in Buckets : Allocation(owed, rem)[i][b] = 0
<1>1. /\ rem \in [0 .. N -> 0 .. payment]
      /\ N \in Nat /\ i \in 1 .. N
      /\ rem[i] = rem[i - 1] - Total(PayInstallment(owed[i], rem[i - 1]))
  BY NAssumption DEF Remainders, Installments
<1>2. rem[i - 1] \in Nat /\ rem[i] \in Nat
  BY <1>1
<1>3. Allocation(owed, rem)[i] = PayInstallment(owed[i], rem[i - 1])
  BY DEF Allocation
<1> DEFINE row == PayInstallment(owed[i], rem[i - 1])
<1>4. /\ row \in Amounts
      /\ Total(row) <= rem[i - 1]
      /\ Total(row) < rem[i - 1] => \A b \in Buckets : row[b] = Max0(owed[i][b])
  BY <1>2, PayInstallmentBounds
<1> HIDE DEF row
<1>5. Total(row) \in Nat
  BY <1>4, TotalType
<1>6. rem[i] > 0 => \A b \in Buckets : row[b] = Max0(owed[i][b])
  BY <1>1, <1>2, <1>4, <1>5 DEF row
<1>7. rem[i - 1] = 0 => \A b \in Buckets : row[b] = 0
  <2> SUFFICES ASSUME rem[i - 1] = 0 PROVE \A b \in Buckets : row[b] = 0
    OBVIOUS
  <2>1. \A b \in Buckets : row[b] \in Nat /\ row[b] <= Total(row)
    BY <1>4, TotalType DEF Amounts
  <2> QED BY <1>4, <1>5, <2>1
<1> QED BY <1>1, <1>2, <1>3, <1>6, <1>7 DEF row

\* What the first i installments get and what is left after them add up to the payment.
LEMMA WaterfallSum ==
  ASSUME NEW owed \in [Installments -> Balances], NEW payment \in Nat,
         NEW rem \in Remainders(owed, payment), NEW n \in 0 .. N
  PROVE  SumFunctionOnSet(RowTotals(Allocation(owed, rem)), 1 .. n) = payment - rem[n]
<1> DEFINE f == RowTotals(Allocation(owed, rem))
           C == {m \in 0 .. N : SumFunctionOnSet(f, 1 .. m) # payment - rem[m]}
<1> SUFFICES ASSUME C # {} PROVE FALSE
  OBVIOUS
<1>1. C \subseteq Nat
  BY NAssumption
<1> HIDE DEF C
<1>2. PICK m \in C : \A l \in C : m <= l
  BY <1>1, Least
<1>3. m \in 0 .. N /\ SumFunctionOnSet(f, 1 .. m) # payment - rem[m]
  BY <1>2 DEF C
<1>4. \A i \in Installments : f[i] \in Nat /\ f[i] = Total(Allocation(owed, rem)[i])
  BY AllocationBounds, TotalType DEF RowTotals
<1> HIDE DEF f
<1>5. m # 0
  <2> SUFFICES ASSUME m = 0 PROVE FALSE
    OBVIOUS
  <2>1. 1 .. m = {} /\ rem[m] = payment
    BY DEF Remainders
  <2>2. SumFunctionOnSet(f, 1 .. m) = 0
    BY <2>1, SumEmpty
  <2> QED BY <1>3, <2>1, <2>2
<1>6. m \in Installments /\ m - 1 \in 0 .. N /\ m - 1 \notin C
  BY <1>1, <1>2, <1>3, <1>5, NAssumption DEF Installments
<1>7. SumFunctionOnSet(f, 1 .. (m - 1)) = payment - rem[m - 1]
  BY <1>6 DEF C
<1>8. SumFunctionOnSet(f, 1 .. m) = f[m] + SumFunctionOnSet(f, 1 .. (m - 1))
  <2>1. IsFiniteSet(1 .. (m - 1)) /\ 1 .. m = (1 .. (m - 1)) \cup {m} /\ m \notin 1 .. (m - 1)
    <3>1. m \in Nat /\ m - 1 \in Nat
      BY <1>1, <1>3, <1>5
    <3>2. IsFiniteSet(1 .. (m - 1))
      BY <3>1, FS_Interval
    <3>3. 1 .. m = (1 .. (m - 1)) \cup {m} /\ m \notin 1 .. (m - 1)
      BY <3>1, <1>5
    <3> QED BY <3>2, <3>3
  <2>2. \A i \in (1 .. (m - 1)) \cup {m} : f[i] \in Int
    BY <1>1, <1>3, <1>4, <1>6, NAssumption DEF Installments
  <2> QED BY <2>1, <2>2, SumAdd
<1>9. rem[m] = rem[m - 1] - f[m] /\ rem[m - 1] \in Nat /\ rem[m] \in Nat
  BY <1>4, <1>6, RemainderStep
<1> QED BY <1>3, <1>4, <1>6, <1>7, <1>8, <1>9

\* The loop runs to its end and has one outcome, whatever the rows owe: of a payment there is exactly
\* one function of remainders, so a repayment is never stuck and never a choice.
THEOREM WaterfallDetermined ==
  ASSUME NEW owed \in [Installments -> Balances], NEW payment \in Nat
  PROVE  \E rem : Remainders(owed, payment) = {rem}
<1> DEFINE left(i, amount) == amount - Total(PayInstallment(owed[i], amount))
           Runs(m) == {rem \in [0 .. m -> 0 .. payment] :
                         rem[0] = payment /\ \A i \in 1 .. m : rem[i] = left(i, rem[i - 1])}
<1>1. ASSUME NEW i \in Installments, NEW amount \in 0 .. payment
      PROVE  left(i, amount) \in 0 .. payment
  <2>1. /\ PayInstallment(owed[i], amount) \in Amounts
        /\ Total(PayInstallment(owed[i], amount)) <= amount
    BY PayInstallmentBounds
  <2> QED BY <2>1, TotalType
<1> HIDE DEF left
<1>2. \A m \in 0 .. N : Runs(m) # {}
  <2> DEFINE C == {m \in 0 .. N : Runs(m) = {}}
  <2> SUFFICES ASSUME C # {} PROVE FALSE
    OBVIOUS
  <2>1. C \subseteq Nat
    BY NAssumption
  <2> HIDE DEF C
  <2>2. PICK m \in C : \A l \in C : m <= l
    BY <2>1, Least
  <2>3. m \in 0 .. N /\ Runs(m) = {}
    BY <2>2 DEF C
  <2>4. m # 0
    <3> SUFFICES ASSUME m = 0 PROVE FALSE
      OBVIOUS
    <3>1. [i \in 0 .. 0 |-> payment] \in Runs(0)
      OBVIOUS
    <3> QED BY <2>3, <3>1
  <2>5. m \in Installments /\ m - 1 \in 0 .. N /\ m - 1 \notin C
    BY <2>1, <2>2, <2>3, <2>4, NAssumption DEF Installments
  <2>6. PICK rem \in Runs(m - 1) : TRUE
    BY <2>5 DEF C
  <2>7. rem[m - 1] \in 0 .. payment
    BY <2>5, <2>6
  <2> DEFINE run == [i \in 0 .. m |-> IF i = m THEN left(m, rem[m - 1]) ELSE rem[i]]
  <2>8. run \in [0 .. m -> 0 .. payment]
    <3>1. left(m, rem[m - 1]) \in 0 .. payment
      BY <1>1, <2>5, <2>7
    <3>2. \A i \in 0 .. m : i # m => rem[i] \in 0 .. payment
      BY <2>1, <2>3, <2>6
    <3> QED BY <3>1, <3>2
  <2>9. run[0] = payment /\ \A i \in 1 .. m : run[i] = left(i, run[i - 1])
    BY <2>3, <2>4, <2>6
  <2> HIDE DEF run
  <2> QED BY <2>3, <2>8, <2>9
<1>3. Remainders(owed, payment) = Runs(N)
  BY DEF Remainders, left, Installments
<1>4. PICK rem \in Runs(N) : TRUE
  <2>1. N \in 0 .. N
    BY NAssumption
  <2> HIDE DEF Runs
  <2> QED BY <1>2, <2>1
<1>5. ASSUME NEW other \in Runs(N)
      PROVE  other = rem
  <2> DEFINE C == {i \in 0 .. N : other[i] # rem[i]}
  <2>1. CASE C = {}
    <3>1. \A i \in 0 .. N : other[i] = rem[i]
      BY <2>1
    <3>2. other = [i \in 0 .. N |-> other[i]] /\ rem = [i \in 0 .. N |-> rem[i]]
      OBVIOUS
    <3>3. [i \in 0 .. N |-> other[i]] = [i \in 0 .. N |-> rem[i]]
      BY <3>1, Zenon
    <3> QED BY <3>2, <3>3
  <2>2. CASE C # {}
    <3>1. C \subseteq Nat
      BY NAssumption
    <3> HIDE DEF C
    <3>2. PICK i \in C : \A j \in C : i <= j
      BY <2>2, <3>1, Least
    <3>3. i \in 0 .. N /\ other[i] # rem[i]
      BY <3>2 DEF C
    <3>4. i # 0
      BY <3>3
    <3>5. i \in 1 .. N /\ i - 1 \in 0 .. N /\ i - 1 \notin C
      BY <3>1, <3>2, <3>3, <3>4, NAssumption
    <3> QED BY <3>3, <3>5 DEF C
  <2> QED BY <2>1, <2>2
<1> HIDE DEF Runs
<1> QED BY <1>3, <1>4, <1>5

-----------------------------------------------------------------------------
(* The operators of the module on well-typed states.                       *)

LEMMA OwedType ==
  ASSUME TypeOK
  PROVE  /\ Owed \in [Installments -> Balances]
         /\ \A i \in Installments, b \in Buckets :
              Owed[i][b] = due[i][b] - paid[i][b] /\ due[i][b] \in Nat /\ paid[i][b] \in Nat
<1>1. \A i \in Installments, b \in Buckets : due[i][b] \in Nat /\ paid[i][b] \in Nat
  BY DEF TypeOK, Amounts
<1> QED BY <1>1 DEF Owed, Balances

LEMMA NoRowsType == NoRows \in [Installments -> Amounts]
BY DEF NoRows, Nothing, Amounts

LEMMA NoJobType == NoJob \in Jobs
BY DEF NoJob, Jobs, Statuses

\* What a scan records per installment is an amount.
LEMMA ScannedAmounts ==
  ASSUME TypeOK, NEW i \in Installments
  PROVE  AccruableInterest(i) \in Nat /\ AssessablePenalty(i) \in Nat
<1>1. /\ \A b \in Buckets : due[i][b] \in Nat /\ paid[i][b] \in Nat /\ waived[i][b] \in Nat
      /\ \A b \in Buckets : Owed[i][b] \in Int
  BY OwedType DEF TypeOK, Amounts, Balances
<1>2. AccruableInterest(i) \in Nat
  BY <1>1 DEF AccruableInterest, Max0, Buckets
<1>3. PenaltyAmount(i) \in Nat
  <2> DEFINE base == Max0(Owed[i]["principal"] + Owed[i]["interest"]
                            - waived[i]["principal"] - waived[i]["interest"])
  <2>1. base \in Nat
    BY <1>1 DEF Max0, Buckets
  <2>2. LateFeeRule.percentageBps \in Nat /\ LateFeeRule.amountMinor \in Nat
    BY ServicingAssumption
  <2>3. \A n, m \in Nat : n * m \in Nat
    OBVIOUS
  <2>4. base * LateFeeRule.percentageBps \in Nat
    <3> HIDE DEF base
    <3> QED BY <2>1, <2>2, <2>3
  <2>5. \A n \in Nat : n \div 10000 \in Nat
    OBVIOUS
  <2>6. (base * LateFeeRule.percentageBps) \div 10000 \in Nat
    <3> HIDE DEF base
    <3> QED BY <2>4, <2>5
  <2> QED BY <2>2, <2>6 DEF PenaltyAmount
<1>4. AssessablePenalty(i) \in Nat
  BY <1>3 DEF AssessablePenalty
<1> QED BY <1>2, <1>4

\* What a full settlement pays and waives on a row.
LEMMA SettlementRows ==
  ASSUME TypeOK, NEW i \in Installments, NEW day, NEW waivePenalties
  PROVE  /\ SettledRow(i, day, waivePenalties) \in Amounts
         /\ WaivedRow(i, day, waivePenalties) \in Amounts
         /\ \A b \in Buckets : SettledRow(i, day, waivePenalties)[b] <= Max0(Owed[i][b])
<1>1. \A b \in Buckets : Max0(Owed[i][b]) \in Nat
  BY OwedType DEF Max0
<1> QED BY <1>1 DEF SettledRow, WaivedRow, Amounts

\* A posted repayment is a well-formed payment and leaves the state well-typed.
LEMMA ApplyRepaymentType ==
  ASSUME TypeOK, NEW k \in Keys, NEW amount \in Nat, NEW source \in Sources, NEW overdue,
         source = "savings" => amount <= savings,
         ApplyRepayment(k, amount, source, overdue)
  PROVE  /\ payments' \in [Keys -> Payments \cup {NoPayment}]
         /\ paid' \in [Installments -> Amounts]
         /\ savings' \in Nat
         /\ savingsLiability' \in Int
         /\ cashedOut' \in BOOLEAN
         /\ status' \in Statuses
<1>1. Owed \in [Installments -> Balances]
  BY OwedType
<1> DEFINE alloc(rem) == Allocation(Owed, rem)
           p(rem) == [type |-> "REPAYMENT", amount |-> amount, source |-> source, alloc |-> alloc(rem),
                      interestReceivable |-> {i \in Installments : accrued[i] > 0 /\ alloc(rem)[i]["interest"] > 0},
                      penaltyReceivable |-> {i \in Installments : assessed[i] > 0 /\ alloc(rem)[i]["penalties"] > 0},
                      swept |-> IF savingsActive THEN rem[N] ELSE 0,
                      retained |-> IF savingsActive THEN 0 ELSE rem[N],
                      reversed |-> FALSE]
<1>2. PICK rem \in Remainders(Owed, amount) :
        /\ payments' = [payments EXCEPT ![k] = p(rem)]
        /\ paid' = [i \in Installments |-> [b \in Buckets |-> paid[i][b] + alloc(rem)[i][b]]]
        /\ savingsLiability' = savingsLiability + LiabilityCredit(p(rem))
        /\ savings' = savings + PassbookCredit(p(rem))
        /\ cashedOut' = (cashedOut \/ source = "savings")
        /\ status' = StatusAfterRepayment(p(rem), overdue)
  BY DEF ApplyRepayment
<1>3. /\ alloc(rem) \in [Installments -> Amounts]
      /\ rem[N] \in Nat
  BY <1>1, AllocationBounds
<1>4. p(rem) \in Payments
  BY <1>3 DEF Payments
<1>5. /\ p(rem).swept \in Nat
      /\ p(rem).source = source
      /\ p(rem).amount = amount
  BY <1>3
<1> HIDE DEF p, alloc
<1>6. payments' \in [Keys -> Payments \cup {NoPayment}]
  BY <1>2, <1>4 DEF TypeOK
<1>7. paid' \in [Installments -> Amounts]
  <2>1. \A i \in Installments, b \in Buckets : paid[i][b] + alloc(rem)[i][b] \in Nat
    BY <1>3 DEF TypeOK, Amounts
  <2> QED BY <1>2, <2>1 DEF Amounts
<1>8. savings' \in Nat /\ savingsLiability' \in Int
  BY <1>2, <1>5 DEF TypeOK, LiabilityCredit, PassbookCredit
<1>9. cashedOut' \in BOOLEAN
  BY <1>2
<1>10. status' \in Statuses
  <2>1. StatusAfterRepayment(p(rem), overdue) \in {"OVERPAID", "CLOSED", "ACTIVE", status}
    BY DEF StatusAfterRepayment
  <2> QED BY <1>2, <2>1 DEF TypeOK, Statuses
<1> QED BY <1>6, <1>7, <1>8, <1>9, <1>10
-----------------------------------------------------------------------------
(* Type correctness.                                                       *)

\* A pending change of due dates leaves the schedule in order.
DatesAscend ==
  \A c \in dateChanges : \A i, j \in Installments : i < j => c.to[i] <= c.to[j]

LEMMA InitType == Init => TypeOK /\ DatesAscend
<1> SUFFICES ASSUME Init PROVE TypeOK
  BY DEF Init, DatesAscend
<1>1. due \in [Installments -> Amounts] /\ today \in Days
  BY ServicingAssumption DEF Init, Days
<1>2. /\ paid \in [Installments -> Amounts] /\ waived \in [Installments -> Amounts]
      /\ job \in Jobs /\ status \in Statuses
  BY NoRowsType, NoJobType DEF Init, Statuses
<1>3. /\ accrued \in [Installments -> Nat] /\ assessed \in [Installments -> Nat]
      /\ payments \in [Keys -> Payments \cup {NoPayment}] /\ requests \subseteq Requests
  BY DEF Init
<1>4. savings = (IF disbursed THEN Payout ELSE 0) /\ savingsLiability = savings
  BY DEF Init
<1>5. savings \in Nat /\ savingsLiability \in Int
  BY <1>4, ServicingAssumption
<1>6. savingsActive \in BOOLEAN /\ disbursed \in BOOLEAN /\ cashedOut \in BOOLEAN
  BY Zenon DEF Init
<1>7. /\ dueDay \in [Installments -> Nat] /\ dateChanges \subseteq DateChanges
      /\ \A i, j \in Installments : i < j => dueDay[i] <= dueDay[j]
  BY ServicingAssumption DEF Init
<1> QED BY <1>1, <1>2, <1>3, <1>5, <1>6, <1>7 DEF TypeOK

LEMMA RepaymentStepType ==
  ASSUME TypeOK, RepaymentStep, dueDay' = dueDay, dateChanges' \subseteq DateChanges
  PROVE  TypeOK'
<1>1. ASSUME NEW k \in Keys, NEW amount \in 1 .. MaxAmount, NEW source \in Sources,
             StartRepayment(k, amount, source)
      PROVE  TypeOK'
  <2>1. [key |-> k, amount |-> amount, source |-> source] \in Requests
    BY ServicingAssumption DEF Requests
  <2> QED BY <1>1, <2>1 DEF StartRepayment, TypeOK, loanVars, savingsVars
<1>2. ASSUME NEW r \in requests, NEW day \in Days, CommitRepayment(r, day)
      PROVE  TypeOK'
  <2>1. /\ r.key \in Keys /\ r.amount \in Nat /\ r.source \in Sources
        /\ requests' \subseteq Requests
    BY <1>2 DEF CommitRepayment, TypeOK, Requests
  <2>2. CASE Used(r.key)
    BY <1>2, <2>1, <2>2 DEF CommitRepayment, TypeOK, loanVars, savingsVars
  <2>3. CASE ~Used(r.key)
    <3>1. /\ r.source = "savings" => r.amount <= savings
          /\ ApplyRepayment(r.key, r.amount, r.source, DueBefore(day))
      BY <1>2, <2>3 DEF CommitRepayment
    <3>2. UNCHANGED <<due, waived, accrued, assessed, savingsActive, disbursed>>
      BY <3>1 DEF ApplyRepayment
    <3> QED BY <1>2, <2>1, <3>1, <3>2, ApplyRepaymentType DEF CommitRepayment, TypeOK
  <2> QED BY <2>2, <2>3
<1>3. ASSUME NEW r \in requests, AbandonRepayment(r)
      PROVE  TypeOK'
  BY <1>3 DEF AbandonRepayment, TypeOK, loanVars, savingsVars
<1>4. ASSUME NEW k \in Keys, SweepStandingOrder(k)
      PROVE  TypeOK'
  <2>1. PICK amount \in Nat :
          /\ amount <= savings
          /\ ApplyRepayment(k, amount, "savings", DueBy(today))
    <3> DEFINE dueOutstanding ==
                 SumFunctionOnSet(Outstanding, {i \in DueBy(today) : Outstanding[i] > 0})
               amount == IF savings < dueOutstanding THEN savings ELSE dueOutstanding
    <3>1. amount \in Nat /\ ApplyRepayment(k, amount, "savings", DueBy(today))
      BY <1>4 DEF SweepStandingOrder, SweepAmount
    <3>2. amount <= savings
      <4> HIDE DEF dueOutstanding
      <4> QED BY <3>1 DEF TypeOK
    <3> HIDE DEF amount
    <3> QED BY <3>1, <3>2
  <2>2. UNCHANGED <<due, waived, accrued, assessed, savingsActive, disbursed>>
    BY <2>1 DEF ApplyRepayment
  <2>3. UNCHANGED <<requests, job, today>>
    BY <1>4 DEF SweepStandingOrder
  <2>4. "savings" \in Sources
    BY DEF Sources
  <2> QED BY <2>1, <2>2, <2>3, <2>4, ApplyRepaymentType DEF TypeOK
<1> QED BY <1>1, <1>2, <1>3, <1>4 DEF RepaymentStep

\* What a job leaves for its next row.
LEMMA NextRowType ==
  ASSUME TypeOK, NEW kind, NEW i \in Installments, NextRow(kind, i)
  PROVE  job' \in Jobs
<1>1. [job EXCEPT !.amounts[i] = 0] \in Jobs
  BY DEF TypeOK, Jobs
<1> QED BY <1>1, NoJobType DEF NextRow

LEMMA JobStepType ==
  ASSUME TypeOK, JobStep, dueDay' = dueDay, dateChanges' \subseteq DateChanges
  PROVE  TypeOK'
<1>1. CASE ScanInterest
  <2>1. [i \in Installments |-> AccruableInterest(i)] \in [Installments -> Nat]
    BY ScannedAmounts
  <2>2. job' \in Jobs
    BY <1>1, <2>1 DEF ScanInterest, ScanRows, NoJob, Jobs, Statuses
  <2> QED BY <1>1, <2>2 DEF ScanInterest, ScanRows, TypeOK, loanVars, savingsVars
<1>2. CASE ScanPenalties
  <2>1. [i \in Installments |-> AssessablePenalty(i)] \in [Installments -> Nat]
    BY ScannedAmounts
  <2>2. job' \in Jobs
    BY <1>2, <2>1 DEF ScanPenalties, ScanRows, NoJob, Jobs, Statuses
  <2> QED BY <1>2, <2>2 DEF ScanPenalties, ScanRows, TypeOK, loanVars, savingsVars
<1>3. CASE ScanArrears
  <2>1. ClassifiedStatus \in Statuses
    BY DEF ClassifiedStatus, Statuses
  <2>2. job' \in Jobs
    BY <1>3, <2>1 DEF ScanArrears, NoJob, Jobs, TypeOK
  <2> QED BY <1>3, <2>2 DEF ScanArrears, TypeOK, loanVars, savingsVars
<1>4. ASSUME NEW i \in Installments, PostAccrual(i)
      PROVE  TypeOK'
  <2>1. job' \in Jobs /\ job.amounts[i] \in Nat
    BY <1>4, NextRowType DEF PostAccrual, TypeOK, Jobs
  <2> QED BY <1>4, <2>1 DEF PostAccrual, TypeOK, savingsVars
<1>5. ASSUME NEW i \in Installments, PostPenalty(i)
      PROVE  TypeOK'
  <2>1. job' \in Jobs /\ job.amounts[i] \in Nat
    BY <1>5, NextRowType DEF PostPenalty, TypeOK, Jobs
  <2>2. [due EXCEPT ![i]["penalties"] = @ + job.amounts[i]] \in [Installments -> Amounts]
    BY <2>1 DEF TypeOK, Amounts, Buckets
  <2> QED BY <1>5, <2>1, <2>2 DEF PostPenalty, TypeOK, savingsVars
<1>6. CASE CommitArrears
  BY <1>6, NoJobType DEF CommitArrears, TypeOK, Jobs, savingsVars
<1>7. CASE AbortJob
  BY <1>7, NoJobType DEF AbortJob, TypeOK, loanVars, savingsVars
<1>8. ASSUME NEW i \in Installments, SkipRow(i)
      PROVE  TypeOK'
  <2>1. job' \in Jobs
    BY <1>8, NextRowType DEF SkipRow
  <2> QED BY <1>8, <2>1 DEF SkipRow, TypeOK, loanVars, savingsVars
<1> QED BY <1>1, <1>2, <1>3, <1>4, <1>5, <1>6, <1>7, <1>8 DEF JobStep

LEMMA SettleInFullType ==
  ASSUME TypeOK, NEW k \in Keys, NEW type \in {"PREPAYMENT", "FORECLOSURE"}, NEW day,
         NEW waivePenalties, SettleInFull(k, type, day, waivePenalties),
         dueDay' = dueDay, dateChanges' \subseteq DateChanges
  PROVE  TypeOK'
<1> DEFINE alloc == [i \in Installments |-> SettledRow(i, day, waivePenalties)]
           total == SumFunctionOnSet(RowTotals(alloc), Installments)
           p == [type |-> type, amount |-> total, source |-> "settlement", alloc |-> alloc,
                 interestReceivable |-> {}, penaltyReceivable |-> {},
                 swept |-> 0, retained |-> 0, reversed |-> FALSE]
<1>1. /\ total \in Nat
      /\ payments' = [payments EXCEPT ![k] = p]
      /\ paid' = [i \in Installments |-> [b \in Buckets |-> paid[i][b] + alloc[i][b]]]
      /\ waived' = [i \in Installments |-> [b \in Buckets |->
                      waived[i][b] + WaivedRow(i, day, waivePenalties)[b]]]
      /\ status' = "CLOSED"
      /\ UNCHANGED <<due, accrued, assessed, requests, job, savingsVars, today>>
  BY DEF SettleInFull
<1>2. alloc \in [Installments -> Amounts]
  BY SettlementRows
<1> HIDE DEF total
<1>3. p \in Payments
  BY <1>1, <1>2 DEF Payments, Sources
<1> HIDE DEF alloc, p
<1>4. /\ payments' \in [Keys -> Payments \cup {NoPayment}]
      /\ status' \in Statuses
  BY <1>1, <1>3 DEF TypeOK, Statuses
<1>5. paid' \in [Installments -> Amounts]
  <2>1. \A i \in Installments, b \in Buckets : paid[i][b] + alloc[i][b] \in Nat
    BY <1>2 DEF TypeOK, Amounts
  <2> QED BY <1>1, <2>1 DEF Amounts
<1>6. waived' \in [Installments -> Amounts]
  <2>1. \A i \in Installments, b \in Buckets :
          waived[i][b] + WaivedRow(i, day, waivePenalties)[b] \in Nat
    BY SettlementRows DEF TypeOK, Amounts
  <2> QED BY <1>1, <2>1 DEF Amounts
<1> QED BY <1>1, <1>4, <1>5, <1>6 DEF TypeOK, savingsVars

LEMMA ReverseRepaymentType ==
  ASSUME TypeOK, NEW k \in Keys, NEW day, ReverseRepayment(k, day),
         dueDay' = dueDay, dateChanges' \subseteq DateChanges
  PROVE  TypeOK'
<1>1. payments[k] \in Payments
  BY DEF ReverseRepayment, Live, Used, TypeOK
<1>2. /\ payments[k].alloc \in [Installments -> Amounts]
      /\ payments[k].swept \in Nat /\ payments[k].amount \in Nat
  BY <1>1 DEF Payments
<1>3. [payments[k] EXCEPT !.reversed = TRUE] \in Payments
  BY <1>1 DEF Payments
<1>4. payments' \in [Keys -> Payments \cup {NoPayment}]
  BY <1>3 DEF ReverseRepayment, TypeOK
<1>5. paid' \in [Installments -> Amounts]
  <2>1. \A i \in Installments, b \in Buckets : paid[i][b] - payments[k].alloc[i][b] \in Nat
    BY <1>2 DEF ReverseRepayment, TypeOK, Amounts
  <2> QED BY <2>1 DEF ReverseRepayment, RestoredPaid, Amounts
<1>6. savings' \in Nat /\ savingsLiability' \in Int
  BY <1>2 DEF ReverseRepayment, LiabilityCredit, TypeOK
<1>7. status' \in Statuses
  <2>1. StatusAfterReversal(k, day) \in Statuses
    BY DEF StatusAfterReversal, Statuses
  <2> QED BY <2>1 DEF ReverseRepayment
<1>8. cashedOut' \in BOOLEAN
  BY DEF ReverseRepayment
<1> QED BY <1>4, <1>5, <1>6, <1>7, <1>8 DEF ReverseRepayment, TypeOK

LEMMA ServiceStepType ==
  ASSUME TypeOK, ServiceStep, dueDay' = dueDay, dateChanges' \subseteq DateChanges
  PROVE  TypeOK'
<1>1. ASSUME NEW k \in Keys, NEW day \in Days, Prepay(k, day)
      PROVE  TypeOK'
  BY <1>1, SettleInFullType DEF Prepay
<1>2. ASSUME NEW k \in Keys, NEW day \in Days, Foreclose(k, day)
      PROVE  TypeOK'
  BY <1>2, SettleInFullType DEF Foreclose
<1>3. ASSUME NEW k \in Keys, NEW day \in Days, ReverseRepayment(k, day)
      PROVE  TypeOK'
  BY <1>3, ReverseRepaymentType
<1>4. CASE UndoDisbursal
  <2>1. savings' \in Nat /\ savingsLiability' \in Int
    BY <1>4, ServicingAssumption DEF UndoDisbursal, UndoAllowed, TypeOK
  <2> QED BY <1>4, <2>1, NoRowsType, NoJobType DEF UndoDisbursal, TypeOK, Statuses
<1> QED BY <1>1, <1>2, <1>3, <1>4 DEF ServiceStep

LEMMA SavingsStepType ==
  ASSUME TypeOK, SavingsStep, dueDay' = dueDay, dateChanges' \subseteq DateChanges
  PROVE  TypeOK'
<1>1. ASSUME NEW amount \in 1 .. MaxAmount, Deposit(amount)
      PROVE  TypeOK'
  <2>1. savings' \in Nat /\ savingsLiability' \in Int
    BY <1>1, ServicingAssumption DEF Deposit, TypeOK
  <2> QED BY <1>1, <2>1 DEF Deposit, TypeOK, loanVars
<1>2. ASSUME NEW amount \in 1 .. MaxAmount, Withdraw(amount)
      PROVE  TypeOK'
  <2>1. savings' \in Nat /\ savingsLiability' \in Int
    BY <1>2, ServicingAssumption DEF Withdraw, TypeOK
  <2> QED BY <1>2, <2>1 DEF Withdraw, TypeOK, loanVars
<1>3. CASE ApproveSavingsAccount
  BY <1>3 DEF ApproveSavingsAccount, TypeOK, loanVars
<1> QED BY <1>1, <1>2, <1>3 DEF SavingsStep

\* A change of due dates is read well-typed, and what it writes keeps the schedule in order.
LEMMA DateChangeStepType ==
  ASSUME TypeOK, DatesAscend, DateChangeStep
  PROVE  TypeOK' /\ DatesAscend'
<1>1. ASSUME NEW dates \in NewDates, StartDateChange(dates)
      PROVE  TypeOK' /\ DatesAscend'
  <2> DEFINE c == [from |-> dueDay, to |-> dates, status |-> StatusUnder(dates)]
  <2>1. StatusUnder(dates) \in Statuses
    BY DEF StatusUnder, Statuses
  <2>2. /\ c \in DateChanges
        /\ c.to = dates
        /\ \A i, j \in Installments : i < j => dates[i] <= dates[j]
    <3>1. dates \in [Installments -> Nat] /\ dueDay \in [Installments -> Nat]
      BY ServicingAssumption DEF TypeOK
    <3>2. \A i, j \in Installments : i < j => dates[i] < dates[j]
      BY <1>1 DEF StartDateChange, MayMove
    <3>3. \A i \in Installments : dates[i] \in Nat
      BY <3>1
    <3>4. \A i, j \in Installments : i < j => dates[i] <= dates[j]
      BY <3>2, <3>3
    <3>5. c \in DateChanges
      BY <2>1, <3>1 DEF DateChanges
    <3> QED BY <3>4, <3>5
  <2> HIDE DEF c
  <2>3. dateChanges' = dateChanges \cup {c}
    BY <1>1 DEF StartDateChange, c
  <2>4. UNCHANGED <<loanVars, dueDay, requests, job, savingsVars, today>>
    BY <1>1 DEF StartDateChange
  <2>5. TypeOK'
    BY <2>2, <2>3, <2>4 DEF TypeOK, loanVars, savingsVars
  <2> QED BY <2>2, <2>3, <2>5 DEF DatesAscend
<1>2. ASSUME NEW c \in dateChanges, CommitDateChange(c)
      PROVE  TypeOK' /\ DatesAscend'
  <2>1. /\ c.to \in [Installments -> Nat] /\ c.status \in Statuses
        /\ \A i, j \in Installments : i < j => c.to[i] <= c.to[j]
    BY DEF TypeOK, DateChanges, DatesAscend
  <2> QED BY <1>2, <2>1 DEF CommitDateChange, TypeOK, DatesAscend, savingsVars
<1>3. ASSUME NEW c \in dateChanges, AbandonDateChange(c)
      PROVE  TypeOK' /\ DatesAscend'
  BY <1>3 DEF AbandonDateChange, TypeOK, DatesAscend, loanVars, savingsVars
<1> QED BY <1>1, <1>2, <1>3 DEF DateChangeStep

LEMMA NextType ==
  ASSUME TypeOK, DatesAscend, [Next]_vars
  PROVE  TypeOK' /\ DatesAscend'
<1>1. CASE RepaymentStep \/ JobStep \/ ServiceStep \/ SavingsStep \/ (Tick /\ DateChangesKept)
  <2>1. /\ dueDay' = dueDay /\ dateChanges' \subseteq dateChanges
        /\ dateChanges' \subseteq DateChanges
    <3>1. DateChangesKept
      BY <1>1 DEF RepaymentStep, JobStep, ServiceStep, SavingsStep
    <3> QED BY <3>1 DEF DateChangesKept, TypeOK
  <2>2. ASSUME Tick
        PROVE  TypeOK'
    <3>1. today' \in Days
      BY <2>2, ServicingAssumption DEF Tick, TypeOK, Days
    <3> QED BY <2>1, <2>2, <3>1 DEF Tick, TypeOK, loanVars, savingsVars
  <2>3. TypeOK'
    BY <1>1, <2>1, <2>2, RepaymentStepType, JobStepType, ServiceStepType, SavingsStepType
  <2> QED BY <2>1, <2>3 DEF DatesAscend
<1>2. CASE UNCHANGED vars
  BY <1>2 DEF TypeOK, DatesAscend, vars, loanVars, savingsVars
<1> QED BY <1>1, <1>2, DateChangeStepType DEF Next

\* The balances, columns and recorded payments keep their types in every reachable state; in
\* particular the savings balance and every paid column stay natural numbers.
THEOREM TypeCorrect == Spec => []TypeOK
<1>1. Init => TypeOK /\ DatesAscend
  BY InitType
<1>2. TypeOK /\ DatesAscend /\ [Next]_vars => (TypeOK /\ DatesAscend)'
  BY NextType
<1> QED BY <1>1, <1>2, PTL DEF Spec
-----------------------------------------------------------------------------
(* The savings liability of the ledger.                                    *)

LEMMA SavingsReconcileStep ==
  ASSUME TypeOK, SavingsReconcile, [Next]_vars
  PROVE  SavingsReconcile'
<1>1. ASSUME NEW k, NEW amount, NEW source, NEW overdue, ApplyRepayment(k, amount, source, overdue)
      PROVE  SavingsReconcile'
  BY <1>1 DEF ApplyRepayment, SavingsReconcile, LiabilityCredit, PassbookCredit
<1>2. CASE RepaymentStep
  <2>1. ASSUME NEW k \in Keys, NEW amount, NEW source, StartRepayment(k, amount, source)
        PROVE  SavingsReconcile'
    BY <2>1 DEF StartRepayment, SavingsReconcile, savingsVars
  <2>2. ASSUME NEW r \in requests, NEW day \in Days, CommitRepayment(r, day)
        PROVE  SavingsReconcile'
    BY <1>1, <2>2 DEF CommitRepayment, SavingsReconcile, savingsVars
  <2>3. ASSUME NEW r \in requests, AbandonRepayment(r)
        PROVE  SavingsReconcile'
    BY <2>3 DEF AbandonRepayment, SavingsReconcile, savingsVars
  <2>4. ASSUME NEW k \in Keys, SweepStandingOrder(k)
        PROVE  SavingsReconcile'
    BY <1>1, <2>4 DEF SweepStandingOrder
  <2> QED BY <1>2, <2>1, <2>2, <2>3, <2>4 DEF RepaymentStep
<1>3. CASE JobStep
  BY <1>3 DEF JobStep, ScanInterest, ScanPenalties, ScanRows, ScanArrears, PostAccrual, PostPenalty,
              SkipRow, CommitArrears, AbortJob, SavingsReconcile, savingsVars
<1>4. CASE ServiceStep
  <2>1. ASSUME NEW k \in Keys, NEW day \in Days, ReverseRepayment(k, day)
        PROVE  SavingsReconcile'
    <3>1. payments[k] \in Payments
      BY <2>1 DEF ReverseRepayment, Live, Used, TypeOK
    <3>2. payments[k].swept \in Nat /\ payments[k].amount \in Nat
      BY <3>1 DEF Payments
    <3> QED BY <2>1, <3>2 DEF ReverseRepayment, LiabilityCredit, SavingsReconcile, TypeOK
  <2>2. CASE UndoDisbursal
    BY <2>2 DEF UndoDisbursal, SavingsReconcile
  <2> QED BY <1>4, <2>1, <2>2 DEF ServiceStep, Prepay, Foreclose, SettleInFull, SavingsReconcile, savingsVars
<1>5. CASE SavingsStep
  BY <1>5 DEF SavingsStep, Deposit, Withdraw, ApproveSavingsAccount, SavingsReconcile
<1>6. CASE Tick
  BY <1>6 DEF Tick, SavingsReconcile, savingsVars
<1>7. CASE DateChangeStep
  BY <1>7 DEF DateChangeStep, StartDateChange, CommitDateChange, AbandonDateChange, SavingsReconcile,
              savingsVars
<1>8. CASE UNCHANGED vars
  BY <1>8 DEF SavingsReconcile, vars, savingsVars
<1> QED BY <1>2, <1>3, <1>4, <1>5, <1>6, <1>7, <1>8 DEF Next

\* The savings liability account equals the savings balance after any interleaving of repayments,
\* transfers, sweeps, cancellations and an undo, for every schedule and every amount.
THEOREM LiabilityReconciles == Spec => []SavingsReconcile
<1>1. Init => TypeOK /\ DatesAscend /\ SavingsReconcile
  BY InitType DEF Init, SavingsReconcile
<1>2. TypeOK /\ DatesAscend /\ SavingsReconcile /\ [Next]_vars => (TypeOK /\ DatesAscend /\ SavingsReconcile)'
  BY NextType, SavingsReconcileStep
<1> QED BY <1>1, <1>2, PTL DEF Spec
-----------------------------------------------------------------------------
(* Paid columns within what is due.                                        *)

LEMMA InitWithinDue == Init => PaidWithinDue
<1> SUFFICES ASSUME Init PROVE PaidWithinDue
  OBVIOUS
<1>1. \A i \in Installments, b \in Buckets : paid[i][b] = 0 /\ due[i][b] \in Nat
  BY ServicingAssumption DEF Init, NoRows, Nothing, Amounts
<1> QED BY <1>1 DEF PaidWithinDue

LEMMA ApplyRepaymentWithinDue ==
  ASSUME TypeOK, PaidWithinDue, NEW k, NEW amount \in Nat, NEW source, NEW overdue,
         ApplyRepayment(k, amount, source, overdue)
  PROVE  PaidWithinDue'
<1>1. Owed \in [Installments -> Balances]
  BY OwedType
<1>2. PICK rem \in Remainders(Owed, amount) :
        /\ paid' = [i \in Installments |-> [b \in Buckets |-> paid[i][b] + Allocation(Owed, rem)[i][b]]]
        /\ due' = due
  BY DEF ApplyRepayment
<1>3. ASSUME NEW i \in Installments, NEW b \in Buckets
      PROVE  paid'[i][b] <= due'[i][b]
  <2>1. /\ Allocation(Owed, rem)[i][b] <= Max0(Owed[i][b])
        /\ Allocation(Owed, rem)[i][b] \in Nat
    BY <1>1, AllocationBounds DEF Amounts
  <2>2. Owed[i][b] = due[i][b] - paid[i][b] /\ due[i][b] \in Nat /\ paid[i][b] \in Nat
    BY OwedType
  <2>3. paid[i][b] <= due[i][b]
    BY DEF PaidWithinDue
  <2>4. paid'[i][b] = paid[i][b] + Allocation(Owed, rem)[i][b] /\ due'[i][b] = due[i][b]
    BY <1>2
  <2> QED BY <2>1, <2>2, <2>3, <2>4 DEF Max0
<1> QED BY <1>3 DEF PaidWithinDue

LEMMA SettleInFullWithinDue ==
  ASSUME TypeOK, PaidWithinDue, NEW k, NEW type, NEW day, NEW waivePenalties,
         SettleInFull(k, type, day, waivePenalties)
  PROVE  PaidWithinDue'
<1>1. ASSUME NEW i \in Installments, NEW b \in Buckets
      PROVE  paid'[i][b] <= due'[i][b]
  <2>1. /\ SettledRow(i, day, waivePenalties)[b] <= Max0(Owed[i][b])
        /\ SettledRow(i, day, waivePenalties)[b] \in Nat
    BY SettlementRows DEF Amounts
  <2>2. Owed[i][b] = due[i][b] - paid[i][b] /\ due[i][b] \in Nat /\ paid[i][b] \in Nat
    BY OwedType
  <2>3. paid[i][b] <= due[i][b]
    BY DEF PaidWithinDue
  <2>4. /\ paid'[i][b] = paid[i][b] + SettledRow(i, day, waivePenalties)[b]
        /\ due'[i][b] = due[i][b]
    BY DEF SettleInFull
  <2> QED BY <2>1, <2>2, <2>3, <2>4 DEF Max0
<1> QED BY <1>1 DEF PaidWithinDue

LEMMA PaidWithinDueStep ==
  ASSUME TypeOK, PaidWithinDue, [Next]_vars
  PROVE  PaidWithinDue'
<1>1. CASE RepaymentStep
  <2>1. ASSUME NEW k \in Keys, NEW amount, NEW source, StartRepayment(k, amount, source)
        PROVE  PaidWithinDue'
    BY <2>1 DEF StartRepayment, PaidWithinDue, loanVars
  <2>2. ASSUME NEW r \in requests, NEW day \in Days, CommitRepayment(r, day)
        PROVE  PaidWithinDue'
    <3>1. r.amount \in Nat
      BY DEF TypeOK, Requests
    <3>2. CASE Used(r.key)
      BY <2>2, <3>2 DEF CommitRepayment, PaidWithinDue, loanVars
    <3>3. CASE ~Used(r.key)
      <4>1. ApplyRepayment(r.key, r.amount, r.source, DueBefore(day))
        BY <2>2, <3>3 DEF CommitRepayment
      <4> QED BY <3>1, <4>1, ApplyRepaymentWithinDue
    <3> QED BY <3>2, <3>3
  <2>3. ASSUME NEW r \in requests, AbandonRepayment(r)
        PROVE  PaidWithinDue'
    BY <2>3 DEF AbandonRepayment, PaidWithinDue, loanVars
  <2>4. ASSUME NEW k \in Keys, SweepStandingOrder(k)
        PROVE  PaidWithinDue'
    <3>1. PICK amount \in Nat : ApplyRepayment(k, amount, "savings", DueBy(today))
      BY <2>4 DEF SweepStandingOrder
    <3> QED BY <3>1, ApplyRepaymentWithinDue
  <2> QED BY <1>1, <2>1, <2>2, <2>3, <2>4 DEF RepaymentStep
<1>2. CASE JobStep
  <2>1. ASSUME NEW i \in Installments, PostPenalty(i)
        PROVE  PaidWithinDue'
    <3>1. /\ job.amounts[i] \in Nat
          /\ \A j \in Installments, b \in Buckets : due[j][b] \in Nat /\ paid[j][b] \in Nat
          /\ due \in [Installments -> [Buckets -> Nat]]
          /\ "penalties" \in Buckets
      BY DEF TypeOK, Jobs, Amounts, Buckets
    <3>2. \A j \in Installments, b \in Buckets :
            due'[j][b] = due[j][b] \/ due'[j][b] = due[j][b] + job.amounts[i]
      BY <2>1, <3>1 DEF PostPenalty
    <3>3. paid' = paid
      BY <2>1 DEF PostPenalty
    <3> QED BY <3>1, <3>2, <3>3 DEF PaidWithinDue
  <2> QED BY <1>2, <2>1 DEF JobStep, ScanInterest, ScanPenalties, ScanRows, ScanArrears, PostAccrual,
                            SkipRow, CommitArrears, AbortJob, PaidWithinDue, loanVars
<1>3. CASE ServiceStep
  <2>1. ASSUME NEW k \in Keys, NEW day \in Days, ReverseRepayment(k, day)
        PROVE  PaidWithinDue'
    <3>1. payments[k] \in Payments
      BY <2>1 DEF ReverseRepayment, Live, Used, TypeOK
    <3>2. \A i \in Installments, b \in Buckets :
            payments[k].alloc[i][b] \in Nat /\ due[i][b] \in Nat /\ paid[i][b] \in Nat
      BY <3>1 DEF Payments, TypeOK, Amounts
    <3>3. \A i \in Installments, b \in Buckets :
            paid'[i][b] = paid[i][b] - payments[k].alloc[i][b] /\ due'[i][b] = due[i][b]
      BY <2>1 DEF ReverseRepayment, RestoredPaid
    <3> QED BY <3>2, <3>3 DEF PaidWithinDue
  <2>2. CASE UndoDisbursal
    BY <2>2 DEF UndoDisbursal, PaidWithinDue, NoRows, Nothing
  <2> QED BY <1>3, <2>1, <2>2, SettleInFullWithinDue DEF ServiceStep, Prepay, Foreclose
<1>4. CASE SavingsStep
  BY <1>4 DEF SavingsStep, Deposit, Withdraw, ApproveSavingsAccount, PaidWithinDue, loanVars
<1>5. CASE Tick
  BY <1>5 DEF Tick, PaidWithinDue, loanVars
<1>6. CASE DateChangeStep
  BY <1>6 DEF DateChangeStep, StartDateChange, CommitDateChange, AbandonDateChange, PaidWithinDue,
              loanVars
<1>7. CASE UNCHANGED vars
  BY <1>7 DEF PaidWithinDue, vars, loanVars
<1> QED BY <1>1, <1>2, <1>3, <1>4, <1>5, <1>6, <1>7 DEF Next

\* No bucket of any installment is ever paid beyond its due, whatever the schedule, the late-fee rule
\* and the interleaving of payments, jobs, settlements and cancellations.
THEOREM NothingOverpaid == Spec => []PaidWithinDue
<1>1. Init => TypeOK /\ DatesAscend /\ PaidWithinDue
  BY InitType, InitWithinDue
<1>2. TypeOK /\ DatesAscend /\ PaidWithinDue /\ [Next]_vars => (TypeOK /\ DatesAscend /\ PaidWithinDue)'
  BY NextType, PaidWithinDueStep
<1> QED BY <1>1, <1>2, PTL DEF Spec
-----------------------------------------------------------------------------
(* A loan reopens only by a cancelled repayment.                           *)

\* An arrears job in flight was started on a serviced loan, so its guarded update never matches a
\* closed or overpaid one, and it does not make a loan overpaid.
ArrearsJobFromServiced == job.kind = "arrears" => job.from \in Serviced /\ job.to # "OVERPAID"

LEMMA ArrearsJobFromServicedStep ==
  ASSUME TypeOK, ArrearsJobFromServiced, [Next]_vars
  PROVE  ArrearsJobFromServiced'
<1>1. ASSUME NEW kind, NEW i \in Installments, NextRow(kind, i), kind # "arrears"
      PROVE  ArrearsJobFromServiced'
  <2>1. job \in Jobs /\ job.kind = kind
    BY <1>1 DEF NextRow, TypeOK
  <2>2. [job EXCEPT !.amounts[i] = 0].kind = kind
    BY <2>1 DEF Jobs
  <2>3. job'.kind # "arrears"
    BY <1>1, <2>2 DEF NextRow, NoJob
  <2> QED BY <2>3 DEF ArrearsJobFromServiced
<1>2. CASE JobStep
  <2>1. CASE ScanInterest \/ ScanPenalties
    BY <2>1 DEF ScanInterest, ScanPenalties, ScanRows, NoJob, ArrearsJobFromServiced
  <2>2. CASE ScanArrears
    <3>1. ClassifiedStatus # "OVERPAID"
      BY DEF ClassifiedStatus
    <3>2. job' = [NoJob EXCEPT !.kind = "arrears", !.from = status, !.to = ClassifiedStatus]
          /\ status \in Serviced
      BY <2>2 DEF ScanArrears
    <3>3. job'.from = status /\ job'.to = ClassifiedStatus
      BY <3>2 DEF NoJob
    <3> QED BY <3>1, <3>2, <3>3 DEF ArrearsJobFromServiced
  <2>3. CASE CommitArrears \/ AbortJob
    BY <2>3 DEF CommitArrears, AbortJob, NoJob, ArrearsJobFromServiced
  <2>4. ASSUME NEW i \in Installments, PostAccrual(i) \/ PostPenalty(i) \/ SkipRow(i)
        PROVE  ArrearsJobFromServiced'
    BY <1>1, <2>4 DEF PostAccrual, PostPenalty, SkipRow
  <2> QED BY <1>2, <2>1, <2>2, <2>3, <2>4 DEF JobStep
<1>3. CASE RepaymentStep
  <2>1. UNCHANGED job
    BY <1>3 DEF RepaymentStep, StartRepayment, CommitRepayment, AbandonRepayment, SweepStandingOrder
  <2> QED BY <2>1 DEF ArrearsJobFromServiced
<1>4. CASE ServiceStep
  <2>1. UNCHANGED job \/ job' = NoJob
    BY <1>4 DEF ServiceStep, Prepay, Foreclose, SettleInFull, ReverseRepayment, UndoDisbursal
  <2> QED BY <2>1 DEF ArrearsJobFromServiced, NoJob
<1>5. CASE SavingsStep \/ Tick \/ DateChangeStep \/ UNCHANGED vars
  <2>1. UNCHANGED job
    BY <1>5 DEF SavingsStep, Deposit, Withdraw, ApproveSavingsAccount, Tick, DateChangeStep,
                StartDateChange, CommitDateChange, AbandonDateChange, vars
  <2> QED BY <2>1 DEF ArrearsJobFromServiced
<1> QED BY <1>2, <1>3, <1>4, <1>5 DEF Next

LEMMA ReopensStep ==
  ASSUME TypeOK, ArrearsJobFromServiced, Next, Reopens
  PROVE  \E k \in Keys : Live(k) /\ payments'[k].reversed
<1>1. status \in {"CLOSED", "OVERPAID"} /\ status' \in Serviced /\ status' # status
  BY DEF Reopens, Serviced
<1>2. ASSUME NEW k, NEW amount, NEW source, NEW overdue, ApplyRepayment(k, amount, source, overdue)
      PROVE  FALSE
  <2>1. PICK p : status' = StatusAfterRepayment(p, overdue)
    BY <1>2 DEF ApplyRepayment
  <2> QED BY <1>1, <2>1 DEF StatusAfterRepayment, Serviced
<1>3. ~RepaymentStep
  BY <1>1, <1>2 DEF RepaymentStep, StartRepayment, CommitRepayment, AbandonRepayment,
                    SweepStandingOrder, loanVars
<1>4. ~JobStep
  <2>1. ~CommitArrears
    BY <1>1 DEF CommitArrears, ArrearsJobFromServiced, Serviced
  <2> QED BY <1>1, <2>1 DEF JobStep, ScanInterest, ScanPenalties, ScanRows, ScanArrears, PostAccrual,
                            PostPenalty, SkipRow, AbortJob, loanVars
<1>5. ~SavingsStep /\ ~Tick /\ ~DateChangeStep
  BY <1>1 DEF SavingsStep, Deposit, Withdraw, ApproveSavingsAccount, Tick, DateChangeStep,
              StartDateChange, CommitDateChange, AbandonDateChange, Serviced, loanVars
<1>6. ServiceStep
  BY <1>3, <1>4, <1>5 DEF Next
<1>7. ~UndoDisbursal
  BY <1>1 DEF UndoDisbursal, Serviced
<1>8. \A k \in Keys, day \in Days : ~Prepay(k, day) /\ ~Foreclose(k, day)
  BY <1>1 DEF Prepay, Foreclose, SettleInFull, Serviced
<1>9. PICK k \in Keys, day \in Days : ReverseRepayment(k, day)
  BY <1>6, <1>7, <1>8 DEF ServiceStep
<1>10. payments[k] \in Payments /\ payments \in [Keys -> Payments \cup {NoPayment}]
  BY <1>9 DEF ReverseRepayment, Live, Used, TypeOK
<1>11. payments'[k].reversed
  BY <1>9, <1>10 DEF ReverseRepayment, Payments
<1> QED BY <1>9, <1>11 DEF ReverseRepayment

\* Once a loan is closed or overpaid, no repayment, job, settlement or savings movement makes it
\* ACTIVE or IN_ARREARS again: only the cancellation of one of its repayments does.
THEOREM OnlyReversalReopens == Spec => ReopensOnlyByReversal
<1>1. Init => TypeOK /\ DatesAscend /\ ArrearsJobFromServiced
  BY InitType DEF Init, NoJob, ArrearsJobFromServiced
<1>2. TypeOK /\ DatesAscend /\ ArrearsJobFromServiced /\ [Next]_vars
        => (TypeOK /\ DatesAscend /\ ArrearsJobFromServiced)'
  BY NextType, ArrearsJobFromServicedStep
<1>3. TypeOK /\ ArrearsJobFromServiced /\ [Next]_vars
        => [Reopens => \E k \in Keys : Live(k) /\ payments'[k].reversed]_vars
  BY ReopensStep
<1> QED BY <1>1, <1>2, <1>3, PTL DEF Spec, ReopensOnlyByReversal
-----------------------------------------------------------------------------
(* Steps, as they look to the recorded payments and the paid columns.      *)

Accounted(p) ==
  /\ SumFunctionOnSet(RowTotals(p.alloc), Installments) + p.swept + p.retained = p.amount
  /\ p.swept = 0 \/ p.retained = 0

\* A payment is recorded under a key that was not used, and the rows get its allocation.
Records(k, p) ==
  /\ ~Used(k)
  /\ ~p.reversed
  /\ Accounted(p)
  /\ payments' = [payments EXCEPT ![k] = p]
  /\ paid' = [i \in Installments |-> [b \in Buckets |-> paid[i][b] + p.alloc[i][b]]]

\* A standing payment is cancelled, and the rows give its allocation back.
Cancels(k) ==
  /\ Live(k)
  /\ payments' = [payments EXCEPT ![k].reversed = TRUE]
  /\ paid' = RestoredPaid(payments[k])

LEMMA FiniteInstallments == IsFiniteSet(Installments) /\ \A S \in SUBSET Installments : IsFiniteSet(S)
<1>1. IsFiniteSet(Installments)
  BY FS_Interval, NAssumption DEF Installments
<1> QED BY <1>1, FS_Subset

\* What a repayment records: the waterfall over what is owed, with the overpayment in one place.
LEMMA ApplyRepaymentRecords ==
  ASSUME TypeOK, NEW k \in Keys, NEW amount \in Nat, NEW source \in Sources, NEW overdue,
         ~Used(k), ApplyRepayment(k, amount, source, overdue)
  PROVE  \E p \in Payments, rem \in Remainders(Owed, amount) :
           /\ Records(k, p)
           /\ p.type = "REPAYMENT" /\ p.amount = amount /\ p.source = source
           /\ p.alloc = Allocation(Owed, rem)
           /\ p.swept + p.retained = rem[N]
           /\ status' = StatusAfterRepayment(p, overdue)
<1>1. Owed \in [Installments -> Balances]
  BY OwedType
<1> DEFINE alloc(rem) == Allocation(Owed, rem)
           p(rem) == [type |-> "REPAYMENT", amount |-> amount, source |-> source, alloc |-> alloc(rem),
                      interestReceivable |-> {i \in Installments : accrued[i] > 0 /\ alloc(rem)[i]["interest"] > 0},
                      penaltyReceivable |-> {i \in Installments : assessed[i] > 0 /\ alloc(rem)[i]["penalties"] > 0},
                      swept |-> IF savingsActive THEN rem[N] ELSE 0,
                      retained |-> IF savingsActive THEN 0 ELSE rem[N],
                      reversed |-> FALSE]
<1>2. PICK rem \in Remainders(Owed, amount) :
        /\ payments' = [payments EXCEPT ![k] = p(rem)]
        /\ paid' = [i \in Installments |-> [b \in Buckets |-> paid[i][b] + alloc(rem)[i][b]]]
        /\ status' = StatusAfterRepayment(p(rem), overdue)
  BY DEF ApplyRepayment
<1>3. /\ alloc(rem) \in [Installments -> Amounts]
      /\ rem[N] \in Nat
  BY <1>1, AllocationBounds
<1>4. p(rem) \in Payments
  BY <1>3 DEF Payments
<1>5. SumFunctionOnSet(RowTotals(alloc(rem)), Installments) = amount - rem[N]
  <2>1. N \in 0 .. N
    BY NAssumption
  <2> QED BY <1>1, <2>1, WaterfallSum DEF Installments
<1>6. /\ p(rem).type = "REPAYMENT" /\ p(rem).amount = amount /\ p(rem).source = source
      /\ p(rem).alloc = alloc(rem) /\ ~p(rem).reversed
      /\ p(rem).swept + p(rem).retained = rem[N]
      /\ p(rem).swept = 0 \/ p(rem).retained = 0
      /\ p(rem).swept \in Nat /\ p(rem).retained \in Nat
  BY <1>3
<1> HIDE DEF p, alloc
<1>7. Accounted(p(rem))
  BY <1>3, <1>5, <1>6 DEF Accounted
<1>8. Records(k, p(rem))
  BY <1>2, <1>6, <1>7 DEF Records
<1> QED BY <1>2, <1>4, <1>6, <1>8 DEF alloc

\* What a full settlement records.
LEMMA SettleInFullRecords ==
  ASSUME TypeOK, NEW k \in Keys, NEW type \in {"PREPAYMENT", "FORECLOSURE"}, NEW day,
         NEW waivePenalties, SettleInFull(k, type, day, waivePenalties)
  PROVE  \E p \in Payments : /\ Records(k, p)
                             /\ p.source = "settlement" /\ p.penaltyReceivable = {}
<1> DEFINE alloc == [i \in Installments |-> SettledRow(i, day, waivePenalties)]
           total == SumFunctionOnSet(RowTotals(alloc), Installments)
           p == [type |-> type, amount |-> total, source |-> "settlement", alloc |-> alloc,
                 interestReceivable |-> {}, penaltyReceivable |-> {},
                 swept |-> 0, retained |-> 0, reversed |-> FALSE]
<1>1. /\ total \in Nat /\ ~Used(k)
      /\ payments' = [payments EXCEPT ![k] = p]
      /\ paid' = [i \in Installments |-> [b \in Buckets |-> paid[i][b] + alloc[i][b]]]
  BY DEF SettleInFull
<1>2. alloc \in [Installments -> Amounts]
  BY SettlementRows
<1>3. p \in Payments
  <2> HIDE DEF total
  <2> QED BY <1>1, <1>2 DEF Payments, Sources
<1>4. Accounted(p)
  BY <1>1 DEF Accounted
<1>5. p.alloc = alloc /\ ~p.reversed /\ p.source = "settlement" /\ p.penaltyReceivable = {}
  OBVIOUS
<1> HIDE DEF p, alloc, total
<1> QED BY <1>1, <1>3, <1>4, <1>5 DEF Records

\* Every step records one payment, cancels one, takes the schedule back while none stands, or leaves
\* payments and paid columns alone.
LEMMA PaymentSteps ==
  ASSUME TypeOK, [Next]_vars
  PROVE  \/ \E k \in Keys, p \in Payments : Records(k, p)
         \/ \E k \in Keys : Cancels(k)
         \/ LiveKeys = {} /\ paid' = NoRows /\ UNCHANGED payments
         \/ UNCHANGED <<payments, paid>>
<1>1. CASE RepaymentStep
  <2>1. ASSUME NEW r \in requests, NEW day \in Days, CommitRepayment(r, day), ~Used(r.key)
        PROVE  \E k \in Keys, p \in Payments : Records(k, p)
    <3>1. r.key \in Keys /\ r.amount \in Nat /\ r.source \in Sources
      BY DEF TypeOK, Requests
    <3>2. ApplyRepayment(r.key, r.amount, r.source, DueBefore(day))
      BY <2>1 DEF CommitRepayment
    <3> QED BY <2>1, <3>1, <3>2, ApplyRepaymentRecords
  <2>2. ASSUME NEW k \in Keys, SweepStandingOrder(k)
        PROVE  \E p \in Payments : Records(k, p)
    <3>1. PICK amount \in Nat : ~Used(k) /\ ApplyRepayment(k, amount, "savings", DueBy(today))
      BY <2>2 DEF SweepStandingOrder
    <3> QED BY <3>1, ApplyRepaymentRecords DEF Sources
  <2>3. ASSUME NEW k \in Keys, NEW amount, NEW source, StartRepayment(k, amount, source)
        PROVE  UNCHANGED <<payments, paid>>
    BY <2>3 DEF StartRepayment, loanVars
  <2>4. ASSUME NEW r \in requests, NEW day \in Days, CommitRepayment(r, day), Used(r.key)
        PROVE  UNCHANGED <<payments, paid>>
    BY <2>4 DEF CommitRepayment, loanVars
  <2>5. ASSUME NEW r \in requests, AbandonRepayment(r)
        PROVE  UNCHANGED <<payments, paid>>
    BY <2>5 DEF AbandonRepayment, loanVars
  <2> QED BY <1>1, <2>1, <2>2, <2>3, <2>4, <2>5 DEF RepaymentStep
<1>2. CASE ServiceStep
  <2>1. ASSUME NEW k \in Keys, NEW day \in Days, Prepay(k, day) \/ Foreclose(k, day)
        PROVE  \E p \in Payments : Records(k, p)
    BY <2>1, SettleInFullRecords DEF Prepay, Foreclose
  <2>2. ASSUME NEW k \in Keys, NEW day \in Days, ReverseRepayment(k, day)
        PROVE  Cancels(k)
    BY <2>2 DEF ReverseRepayment, Cancels
  <2>3. CASE UndoDisbursal
    BY <2>3 DEF UndoDisbursal, UndoAllowed
  <2> QED BY <1>2, <2>1, <2>2, <2>3 DEF ServiceStep
<1>3. CASE JobStep
  BY <1>3 DEF JobStep, ScanInterest, ScanPenalties, ScanRows, ScanArrears, PostAccrual, PostPenalty,
              SkipRow, CommitArrears, AbortJob, loanVars
<1>4. CASE SavingsStep \/ Tick \/ DateChangeStep \/ UNCHANGED vars
  BY <1>4 DEF SavingsStep, Deposit, Withdraw, ApproveSavingsAccount, Tick, DateChangeStep,
              StartDateChange, CommitDateChange, AbandonDateChange, vars, loanVars
<1> QED BY <1>1, <1>2, <1>3, <1>4 DEF Next

\* Which payments stand after it.
LEMMA RecordsLive ==
  ASSUME TypeOK, NEW k \in Keys, NEW p \in Payments, Records(k, p)
  PROVE  /\ k \notin LiveKeys /\ LiveKeys' = LiveKeys \cup {k}
         /\ payments'[k] = p /\ Used(k)' /\ \A j \in Keys \ {k} : payments'[j] = payments[j]
<1>1. payments'[k] = p /\ \A j \in Keys \ {k} : payments'[j] = payments[j]
  BY DEF Records, TypeOK
<1>2. p # NoPayment /\ ~p.reversed /\ ~Used(k)
  BY ServicingAssumption DEF Records
<1> QED BY <1>1, <1>2 DEF LiveKeys, Live, Used

LEMMA CancelsLive ==
  ASSUME TypeOK, NEW k \in Keys, Cancels(k)
  PROVE  /\ k \in LiveKeys /\ LiveKeys' = LiveKeys \ {k}
         /\ payments'[k] = [payments[k] EXCEPT !.reversed = TRUE] /\ payments[k] \in Payments
         /\ Used(k)' /\ \A j \in Keys \ {k} : payments'[j] = payments[j]
<1>1. /\ payments'[k] = [payments[k] EXCEPT !.reversed = TRUE]
      /\ \A j \in Keys \ {k} : payments'[j] = payments[j]
  BY DEF Cancels, TypeOK
<1>2. payments[k] \in Payments /\ Live(k)
  BY DEF Cancels, Live, Used, TypeOK
<1>3. payments'[k] \in Payments /\ payments'[k].reversed
  BY <1>1, <1>2 DEF Payments
<1>4. payments'[k] # NoPayment
  BY <1>3, ServicingAssumption
<1> QED BY <1>1, <1>2, <1>3, <1>4 DEF LiveKeys, Live, Used

\* What a standing payment holds.
LEMMA LiveTypes ==
  ASSUME TypeOK, NEW k \in LiveKeys
  PROVE  /\ payments[k] \in Payments /\ payments[k].retained \in Nat
         /\ payments[k].alloc \in [Installments -> Amounts]
         /\ \A i \in Installments, b \in Buckets : payments[k].alloc[i][b] \in Nat
<1>1. payments[k] \in Payments
  BY DEF LiveKeys, Live, Used, TypeOK
<1> QED BY <1>1 DEF Payments, Amounts
-----------------------------------------------------------------------------
(* Payments accounted for, and the paid columns explained by them.         *)

\* However many keys there are, finitely many payments stand at a time: their sums are sums.
FewPayments == IsFiniteSet(LiveKeys)

LEMMA FewPaymentsStep ==
  ASSUME TypeOK, FewPayments, [Next]_vars
  PROVE  FewPayments'
<1>1. ASSUME NEW k \in Keys, NEW p \in Payments, Records(k, p)
      PROVE  FewPayments'
  BY <1>1, RecordsLive, FS_AddElement DEF FewPayments
<1>2. ASSUME NEW k \in Keys, Cancels(k)
      PROVE  FewPayments'
  <2>1. LiveKeys' \subseteq LiveKeys
    BY <1>2, CancelsLive
  <2> QED BY <2>1, FS_Subset DEF FewPayments
<1>3. ASSUME UNCHANGED payments
      PROVE  FewPayments'
  BY <1>3 DEF FewPayments, LiveKeys, Live, Used
<1> QED BY <1>1, <1>2, <1>3, PaymentSteps

LEMMA PaymentAccountedForStep ==
  ASSUME TypeOK, PaymentAccountedFor, [Next]_vars
  PROVE  PaymentAccountedFor'
<1>1. ASSUME NEW k \in Keys, NEW p \in Payments, Records(k, p)
      PROVE  PaymentAccountedFor'
  <2>1. Accounted(p)
    BY <1>1 DEF Records
  <2>2. payments'[k] = p /\ \A j \in Keys \ {k} : payments'[j] = payments[j]
    BY <1>1, RecordsLive
  <2> QED BY <2>1, <2>2 DEF PaymentAccountedFor, Accounted, Used
<1>2. ASSUME NEW k \in Keys, Cancels(k)
      PROVE  PaymentAccountedFor'
  <2>1. /\ payments'[k] = [payments[k] EXCEPT !.reversed = TRUE]
        /\ payments[k] \in Payments /\ Used(k)
        /\ \A j \in Keys \ {k} : payments'[j] = payments[j]
    BY <1>2, CancelsLive DEF LiveKeys, Live
  <2>2. /\ payments'[k].alloc = payments[k].alloc /\ payments'[k].swept = payments[k].swept
        /\ payments'[k].retained = payments[k].retained /\ payments'[k].amount = payments[k].amount
    BY <2>1 DEF Payments
  <2>3. Accounted(payments[k]) /\ \A j \in Keys : Used(j) => Accounted(payments[j])
    BY <2>1 DEF PaymentAccountedFor, Accounted
  <2>4. Accounted(payments'[k])
    BY <2>2, <2>3 DEF Accounted
  <2>5. \A j \in Keys : Used(j)' => Accounted(payments'[j])
    BY <2>1, <2>3, <2>4 DEF Used
  <2> QED BY <2>5 DEF PaymentAccountedFor, Accounted
<1>3. ASSUME UNCHANGED payments
      PROVE  PaymentAccountedFor'
  BY <1>3 DEF PaymentAccountedFor, Used
<1> QED BY <1>1, <1>2, <1>3, PaymentSteps

\* Every recorded payment, cancelled or not, is accounted for to the last unit: the allocations of
\* its rows, the overpayment swept to savings and the one kept on the liability add up to it.
THEOREM EveryPaymentAccountedFor == Spec => []PaymentAccountedFor
<1>1. Init => TypeOK /\ DatesAscend /\ PaymentAccountedFor
  BY InitType DEF Init, PaymentAccountedFor, Used
<1>2. TypeOK /\ DatesAscend /\ PaymentAccountedFor /\ [Next]_vars
        => (TypeOK /\ DatesAscend /\ PaymentAccountedFor)'
  BY NextType, PaymentAccountedForStep
<1> QED BY <1>1, <1>2, PTL DEF Spec

LEMMA InitPayments ==
  ASSUME Init
  PROVE  LiveKeys = {} /\ FewPayments /\ PaidMatchesPayments
<1>1. LiveKeys = {}
  BY DEF Init, LiveKeys, Live, Used
<1>2. \A i \in Installments, b \in Buckets : paid[i][b] = 0
  BY DEF Init, NoRows, Nothing
<1> QED BY <1>1, <1>2, SumEmpty, FS_EmptySet DEF FewPayments, PaidMatchesPayments

LEMMA PaidMatchesPaymentsStep ==
  ASSUME TypeOK, FewPayments, PaidMatchesPayments, [Next]_vars
  PROVE  PaidMatchesPayments'
<1> SUFFICES ASSUME NEW i \in Installments, NEW b \in Buckets
             PROVE  paid'[i][b] = SumFunctionOnSet(Allocated(i, b)', LiveKeys')
  BY DEF PaidMatchesPayments
<1> DEFINE before == SumFunctionOnSet(Allocated(i, b), LiveKeys)
           after == SumFunctionOnSet(Allocated(i, b)', LiveKeys')
<1>1. paid[i][b] = before /\ paid[i][b] \in Nat
  BY DEF PaidMatchesPayments, TypeOK, Amounts
<1>2. \A j \in LiveKeys : Allocated(i, b)[j] = payments[j].alloc[i][b] /\ Allocated(i, b)[j] \in Nat
  BY LiveTypes DEF Allocated
<1>3. \A j \in LiveKeys' : Allocated(i, b)'[j] = payments'[j].alloc[i][b]
  BY DEF Allocated
<1>4. ASSUME NEW k \in Keys, NEW p \in Payments, Records(k, p)
      PROVE  paid'[i][b] = after
  <2>1. /\ k \notin LiveKeys /\ LiveKeys' = LiveKeys \cup {k}
        /\ Allocated(i, b)'[k] = p.alloc[i][b] /\ p.alloc[i][b] \in Nat
        /\ \A j \in LiveKeys : Allocated(i, b)'[j] = Allocated(i, b)[j]
    <3>1. /\ k \notin LiveKeys /\ LiveKeys' = LiveKeys \cup {k}
          /\ payments'[k] = p /\ \A j \in Keys \ {k} : payments'[j] = payments[j]
      BY <1>4, RecordsLive
    <3>2. p.alloc[i][b] \in Nat
      BY DEF Payments, Amounts
    <3> QED BY <1>2, <1>3, <3>1, <3>2 DEF LiveKeys
  <2>2. after = Allocated(i, b)'[k] + SumFunctionOnSet(Allocated(i, b)', LiveKeys)
    BY <1>2, <2>1, SumAdd DEF FewPayments
  <2>3. SumFunctionOnSet(Allocated(i, b)', LiveKeys) = before
    BY <2>1, SumSame DEF FewPayments
  <2>4. paid'[i][b] = paid[i][b] + p.alloc[i][b]
    BY <1>4 DEF Records
  <2> QED BY <1>1, <2>1, <2>2, <2>3, <2>4
<1>5. ASSUME NEW k \in Keys, Cancels(k)
      PROVE  paid'[i][b] = after
  <2>1. /\ k \in LiveKeys /\ LiveKeys' = LiveKeys \ {k}
        /\ \A j \in LiveKeys' : Allocated(i, b)'[j] = Allocated(i, b)[j]
    <3>1. /\ k \in LiveKeys /\ LiveKeys' = LiveKeys \ {k}
          /\ \A j \in Keys \ {k} : payments'[j] = payments[j]
      BY <1>5, CancelsLive
    <3> QED BY <1>2, <1>3, <3>1 DEF LiveKeys
  <2>2. before = Allocated(i, b)[k] + SumFunctionOnSet(Allocated(i, b), LiveKeys \ {k})
    BY <1>2, <2>1, SumRemove DEF FewPayments
  <2>3. after = SumFunctionOnSet(Allocated(i, b), LiveKeys \ {k})
    BY <2>1, FS_Subset, SumSame DEF FewPayments
  <2>4. paid'[i][b] = paid[i][b] - Allocated(i, b)[k]
    BY <1>2, <1>5, <2>1 DEF Cancels, RestoredPaid
  <2>5. SumFunctionOnSet(Allocated(i, b), LiveKeys \ {k}) \in Nat
    BY <1>2, FS_Subset, SumType DEF FewPayments
  <2> QED BY <1>1, <1>2, <2>1, <2>2, <2>3, <2>4, <2>5
<1>6. ASSUME LiveKeys = {}, paid' = NoRows, UNCHANGED payments
      PROVE  paid'[i][b] = after
  <2>1. LiveKeys' = {}
    BY <1>6 DEF LiveKeys, Live, Used
  <2> QED BY <1>6, <2>1, SumEmpty DEF NoRows, Nothing
<1>7. ASSUME UNCHANGED <<payments, paid>>
      PROVE  paid'[i][b] = after
  BY <1>1, <1>7 DEF Allocated, LiveKeys, Live, Used
<1> QED BY <1>4, <1>5, <1>6, <1>7, PaymentSteps

\* The paid columns always are what the standing payments allocated: no payment is lost from a row, no
\* row is paid without one, and a cancellation gives back exactly what its payment paid.
THEOREM PaymentsExplainPaid == Spec => []PaidMatchesPayments
<1>1. Init => TypeOK /\ DatesAscend /\ FewPayments /\ PaidMatchesPayments
  BY InitType, InitPayments
<1>2. TypeOK /\ DatesAscend /\ FewPayments /\ PaidMatchesPayments /\ [Next]_vars
        => (TypeOK /\ DatesAscend /\ FewPayments /\ PaidMatchesPayments)'
  BY NextType, FewPaymentsStep, PaidMatchesPaymentsStep
<1> QED BY <1>1, <1>2, PTL DEF Spec
-----------------------------------------------------------------------------
\* What a repayment leaves alone.
LEMMA RepaymentKeeps ==
  ASSUME RepaymentStep
  PROVE  UNCHANGED <<due, waived, accrued, assessed, job>>
<1>1. ASSUME NEW r \in requests, NEW day \in Days, CommitRepayment(r, day)
      PROVE  UNCHANGED <<due, waived, accrued, assessed, job>>
  <2>1. job' = job
    BY <1>1 DEF CommitRepayment
  <2>2. CASE Used(r.key)
    BY <1>1, <2>1, <2>2 DEF CommitRepayment, loanVars
  <2>3. CASE ~Used(r.key)
    BY <1>1, <2>1, <2>3 DEF CommitRepayment, ApplyRepayment
  <2> QED BY <2>2, <2>3
<1>2. ASSUME NEW k \in Keys, SweepStandingOrder(k)
      PROVE  UNCHANGED <<due, waived, accrued, assessed, job>>
  <2>1. PICK amount : ApplyRepayment(k, amount, "savings", DueBy(today)) /\ job' = job
    BY <1>2 DEF SweepStandingOrder
  <2> QED BY <2>1 DEF ApplyRepayment
<1>3. ASSUME NEW k \in Keys, NEW amount, NEW source, StartRepayment(k, amount, source)
      PROVE  UNCHANGED <<due, waived, accrued, assessed, job>>
  BY <1>3 DEF StartRepayment, loanVars
<1>4. ASSUME NEW r \in requests, AbandonRepayment(r)
      PROVE  UNCHANGED <<due, waived, accrued, assessed, job>>
  BY <1>4 DEF AbandonRepayment, loanVars
<1> QED BY <1>1, <1>2, <1>3, <1>4 DEF RepaymentStep
-----------------------------------------------------------------------------
(* The penalty receivable.                                                 *)

\* A row owes no penalty but what it began with and what the late-fee job booked on it.
PenaltiesAssessed == \A i \in Installments : due[i]["penalties"] <= Schedule[i]["penalties"] + assessed[i]

LEMMA PenaltiesAssessedStep ==
  ASSUME TypeOK, PenaltiesAssessed, [Next]_vars
  PROVE  PenaltiesAssessed'
<1>1. ASSUME NEW i \in Installments, PostPenalty(i)
      PROVE  PenaltiesAssessed'
  <2>1. /\ job.amounts[i] \in Nat /\ due \in [Installments -> [Buckets -> Nat]]
        /\ assessed \in [Installments -> Nat] /\ "penalties" \in Buckets
    BY DEF TypeOK, Jobs, Amounts, Buckets
  <2>2. CASE assessed[i] = 0
    <3>1. /\ assessed' = [assessed EXCEPT ![i] = job.amounts[i]]
          /\ due' = [due EXCEPT ![i]["penalties"] = @ + job.amounts[i]]
      BY <1>1, <2>2 DEF PostPenalty
    <3>2. \A j \in Installments :
            /\ assessed'[j] = IF j = i THEN job.amounts[i] ELSE assessed[j]
            /\ due'[j]["penalties"] = due[j]["penalties"] + (IF j = i THEN job.amounts[i] ELSE 0)
            /\ due[j]["penalties"] \in Nat
            /\ due[j]["penalties"] <= Schedule[j]["penalties"] + assessed[j]
      BY <2>1, <3>1 DEF PenaltiesAssessed
    <3>3. \A j \in Installments : Schedule[j]["penalties"] \in Nat
      BY ServicingAssumption DEF Amounts, Buckets
    <3> QED BY <2>1, <2>2, <3>2, <3>3 DEF PenaltiesAssessed
  <2>3. CASE assessed[i] # 0
    BY <1>1, <2>3 DEF PostPenalty, PenaltiesAssessed
  <2> QED BY <2>2, <2>3
<1>2. CASE UndoDisbursal
  <2>1. \A i \in Installments : assessed[i] \in Nat /\ Schedule[i]["penalties"] \in Nat
    BY ServicingAssumption DEF TypeOK, Amounts, Buckets
  <2>2. \A i \in Installments : due'[i]["penalties"] = 0 /\ assessed'[i] = assessed[i]
    BY <1>2 DEF UndoDisbursal, NoRows, Nothing, Buckets
  <2> QED BY <2>1, <2>2 DEF PenaltiesAssessed
<1>3. ASSUME UNCHANGED <<due, assessed>>
      PROVE  PenaltiesAssessed'
  BY <1>3 DEF PenaltiesAssessed
<1>4. CASE RepaymentStep
  BY <1>3, <1>4, RepaymentKeeps
<1>5. CASE JobStep
  BY <1>1, <1>3, <1>5 DEF JobStep, ScanInterest, ScanPenalties, ScanRows, ScanArrears, PostAccrual,
                          SkipRow, CommitArrears, AbortJob, loanVars
<1>6. CASE ServiceStep
  BY <1>2, <1>3, <1>6 DEF ServiceStep, Prepay, Foreclose, SettleInFull, ReverseRepayment
<1>7. CASE SavingsStep \/ Tick \/ DateChangeStep \/ UNCHANGED vars
  BY <1>3, <1>7 DEF SavingsStep, Deposit, Withdraw, ApproveSavingsAccount, Tick, DateChangeStep,
                    StartDateChange, CommitDateChange, AbandonDateChange, vars, loanVars
<1> QED BY <1>4, <1>5, <1>6, <1>7 DEF Next

\* What collections took out of the receivable of a row.
PenaltyCollected(i) ==
  SumFunctionOnSet(Allocated(i, "penalties"), {k \in LiveKeys : i \in payments[k].penaltyReceivable})

PenaltyCollectionsWithin == \A i \in Installments : PenaltyCollected(i) <= Schedule[i]["penalties"] + assessed[i]

\* What collections credited to the receivable is part of what the standing payments allocated to the
\* row's penalties, which is what the row has paid, which is no more than it owes.
LEMMA CollectionsCovered ==
  ASSUME TypeOK, FewPayments, PaidMatchesPayments, PaidWithinDue, PenaltiesAssessed
  PROVE  PenaltyCollectionsWithin
<1> SUFFICES ASSUME NEW i \in Installments
             PROVE  PenaltyCollected(i) <= Schedule[i]["penalties"] + assessed[i]
  BY DEF PenaltyCollectionsWithin
<1> DEFINE f == Allocated(i, "penalties")
           S == {k \in LiveKeys : i \in payments[k].penaltyReceivable}
<1>1. \A k \in LiveKeys : f[k] \in Nat
  BY LiveTypes DEF Allocated, Buckets
<1>2. paid[i]["penalties"] = SumFunctionOnSet(f, LiveKeys)
  BY DEF PaidMatchesPayments, Buckets
<1>3. S \in SUBSET LiveKeys
  OBVIOUS
<1> HIDE DEF f, S
<1>4. SumFunctionOnSet(f, S) <= SumFunctionOnSet(f, LiveKeys)
  BY <1>1, <1>3, SumOfPart DEF FewPayments
<1>5. SumFunctionOnSet(f, S) \in Nat
  BY <1>1, <1>3, FS_Subset, SumType DEF FewPayments
<1>6. paid[i]["penalties"] <= due[i]["penalties"] /\ due[i]["penalties"] <= Schedule[i]["penalties"] + assessed[i]
  BY DEF PaidWithinDue, PenaltiesAssessed, Buckets
<1>7. /\ paid[i]["penalties"] \in Nat /\ due[i]["penalties"] \in Nat /\ assessed[i] \in Nat
      /\ Schedule[i]["penalties"] \in Nat
  BY ServicingAssumption DEF TypeOK, Amounts, Buckets
<1>8. SumFunctionOnSet(f, S) <= Schedule[i]["penalties"] + assessed[i]
  BY <1>2, <1>4, <1>5, <1>6, <1>7
<1> QED BY <1>8 DEF f, S, PenaltyCollected

\* Two counters kept by two programs, the late-fee job's and the repayment's: for every loan, imported
\* ones included, collections take no more out of the penalty receivable of a row than the job booked
\* on it and the row began with.
THEOREM PenaltyCollectionsBounded == Spec => []PenaltyCollectionsWithin
<1> DEFINE Inv == /\ TypeOK /\ DatesAscend /\ FewPayments /\ PaidMatchesPayments /\ PaidWithinDue
                  /\ PenaltiesAssessed
<1>1. Init => Inv
  <2> SUFFICES ASSUME Init PROVE PenaltiesAssessed
    BY InitType, InitPayments, InitWithinDue
  <2>1. \A i \in Installments : /\ due[i]["penalties"] = Schedule[i]["penalties"] /\ assessed[i] = 0
                                /\ Schedule[i]["penalties"] \in Nat
    BY ServicingAssumption DEF Init, Amounts, Buckets
  <2> QED BY <2>1 DEF PenaltiesAssessed
<1>2. Inv /\ [Next]_vars => Inv'
  BY NextType, FewPaymentsStep, PaidMatchesPaymentsStep, PaidWithinDueStep, PenaltiesAssessedStep
<1>3. Inv => PenaltyCollectionsWithin
  BY CollectionsCovered
<1> QED BY <1>1, <1>2, <1>3, PTL DEF Spec

\* What disburse-loan.ts creates: a schedule that starts without penalties.  (An import may bring
\* penalties of the old system along; see the README.)
WithoutPenalties == \A i \in Installments : Schedule[i]["penalties"] = 0

\* Collections never drive the penalty receivable of a row below zero, for every loan the program
\* disbursed.
THEOREM PenaltyCollectionsCovered ==
  ASSUME WithoutPenalties
  PROVE  Spec => []PenaltyReceivableCovered
<1>1. TypeOK /\ PenaltyCollectionsWithin => PenaltyReceivableCovered
  <2> SUFFICES ASSUME TypeOK, PenaltyCollectionsWithin, NEW i \in Installments
               PROVE  PenaltyCollected(i) <= assessed[i]
    BY DEF PenaltyReceivableCovered, PenaltyCollected
  <2>1. /\ PenaltyCollected(i) <= Schedule[i]["penalties"] + assessed[i]
        /\ Schedule[i]["penalties"] = 0 /\ assessed[i] \in Nat
    BY DEF PenaltyCollectionsWithin, WithoutPenalties, TypeOK
  <2> QED BY <2>1
<1> QED BY <1>1, TypeCorrect, PenaltyCollectionsBounded, PTL
-----------------------------------------------------------------------------
(* An overpaid loan holds money of the borrower.                           *)

\* Neither the arrears job nor a change of due dates computes that status.
DateChangesNeverOverpay == \A c \in dateChanges : c.status # "OVERPAID"

LEMMA DateChangesNeverOverpayStep ==
  ASSUME DateChangesNeverOverpay, [Next]_vars
  PROVE  DateChangesNeverOverpay'
<1>1. ASSUME NEW dates \in NewDates, StartDateChange(dates)
      PROVE  DateChangesNeverOverpay'
  <2>1. StatusUnder(dates) # "OVERPAID"
    BY DEF StatusUnder
  <2> QED BY <1>1, <2>1 DEF StartDateChange, DateChangesNeverOverpay
<1>2. ASSUME dateChanges' \subseteq dateChanges
      PROVE  DateChangesNeverOverpay'
  BY <1>2 DEF DateChangesNeverOverpay
<1>3. CASE DateChangeStep
  BY <1>1, <1>2, <1>3 DEF DateChangeStep, CommitDateChange, AbandonDateChange
<1>4. CASE RepaymentStep \/ JobStep \/ ServiceStep \/ SavingsStep \/ (Tick /\ DateChangesKept)
  <2>1. DateChangesKept
    BY <1>4 DEF RepaymentStep, JobStep, ServiceStep, SavingsStep
  <2> QED BY <1>2, <2>1 DEF DateChangesKept
<1>5. CASE UNCHANGED vars
  BY <1>5 DEF vars, DateChangesNeverOverpay
<1> QED BY <1>3, <1>4, <1>5 DEF Next

\* How a step comes to leave a loan overpaid.
LEMMA OverpaidSteps ==
  ASSUME TypeOK, ArrearsJobFromServiced, DateChangesNeverOverpay, [Next]_vars, status' = "OVERPAID"
  PROVE  \/ \E k \in Keys, p \in Payments : Records(k, p) /\ (p.retained > 0 \/ status = "OVERPAID")
         \/ \E k \in Keys : Cancels(k) /\ SumFunctionOnSet(Retained, LiveKeys \ {k}) > 0
         \/ status = "OVERPAID" /\ UNCHANGED payments
<1>1. ASSUME NEW k \in Keys, NEW amount \in Nat, NEW source \in Sources, NEW overdue,
             ~Used(k), ApplyRepayment(k, amount, source, overdue)
      PROVE  \E p \in Payments : Records(k, p) /\ (p.retained > 0 \/ status = "OVERPAID")
  <2>1. PICK p \in Payments : Records(k, p) /\ status' = StatusAfterRepayment(p, overdue)
    BY <1>1, ApplyRepaymentRecords
  <2> QED BY <2>1 DEF StatusAfterRepayment
<1>2. CASE RepaymentStep
  <2>1. ASSUME NEW r \in requests, NEW day \in Days, CommitRepayment(r, day), ~Used(r.key)
        PROVE  \E k \in Keys, p \in Payments : Records(k, p) /\ (p.retained > 0 \/ status = "OVERPAID")
    <3>1. r.key \in Keys /\ r.amount \in Nat /\ r.source \in Sources
      BY DEF TypeOK, Requests
    <3>2. ApplyRepayment(r.key, r.amount, r.source, DueBefore(day))
      BY <2>1 DEF CommitRepayment
    <3> QED BY <1>1, <2>1, <3>1, <3>2
  <2>2. ASSUME NEW k \in Keys, SweepStandingOrder(k)
        PROVE  \E p \in Payments : Records(k, p) /\ (p.retained > 0 \/ status = "OVERPAID")
    <3>1. PICK amount \in Nat : ~Used(k) /\ ApplyRepayment(k, amount, "savings", DueBy(today))
      BY <2>2 DEF SweepStandingOrder
    <3> QED BY <1>1, <3>1 DEF Sources
  <2>3. ASSUME NEW k \in Keys, NEW amount, NEW source, StartRepayment(k, amount, source)
        PROVE  status = "OVERPAID" /\ UNCHANGED payments
    BY <2>3 DEF StartRepayment, loanVars
  <2>4. ASSUME NEW r \in requests, NEW day \in Days, CommitRepayment(r, day), Used(r.key)
        PROVE  status = "OVERPAID" /\ UNCHANGED payments
    BY <2>4 DEF CommitRepayment, loanVars
  <2>5. ASSUME NEW r \in requests, AbandonRepayment(r)
        PROVE  status = "OVERPAID" /\ UNCHANGED payments
    BY <2>5 DEF AbandonRepayment, loanVars
  <2> QED BY <1>2, <2>1, <2>2, <2>3, <2>4, <2>5 DEF RepaymentStep
<1>3. CASE JobStep
  <2>1. CASE CommitArrears
    BY <2>1 DEF CommitArrears, ArrearsJobFromServiced
  <2> QED BY <1>3, <2>1 DEF JobStep, ScanInterest, ScanPenalties, ScanRows, ScanArrears, PostAccrual,
                            PostPenalty, SkipRow, AbortJob, loanVars
<1>4. CASE ServiceStep
  <2>1. ASSUME NEW k \in Keys, NEW day \in Days, ReverseRepayment(k, day)
        PROVE  Cancels(k) /\ SumFunctionOnSet(Retained, LiveKeys \ {k}) > 0
    <3>1. Cancels(k)
      BY <2>1 DEF ReverseRepayment, Cancels
    <3>2. StatusAfterReversal(k, day) = "OVERPAID"
      BY <2>1 DEF ReverseRepayment
    <3> QED BY <3>1, <3>2 DEF StatusAfterReversal
  <2> QED BY <1>4, <2>1 DEF ServiceStep, Prepay, Foreclose, SettleInFull, UndoDisbursal
<1>5. CASE DateChangeStep
  BY <1>5 DEF DateChangeStep, StartDateChange, CommitDateChange, AbandonDateChange,
              DateChangesNeverOverpay, loanVars
<1>6. CASE SavingsStep \/ Tick \/ UNCHANGED vars
  BY <1>6 DEF SavingsStep, Deposit, Withdraw, ApproveSavingsAccount, Tick, vars, loanVars
<1> QED BY <1>2, <1>3, <1>4, <1>5, <1>6 DEF Next

LEMMA OverpaidHoldsLiabilityStep ==
  ASSUME TypeOK, FewPayments, ArrearsJobFromServiced, DateChangesNeverOverpay, OverpaidHoldsLiability,
         [Next]_vars
  PROVE  OverpaidHoldsLiability'
<1> SUFFICES ASSUME status' = "OVERPAID" PROVE SumFunctionOnSet(Retained', LiveKeys') > 0
  BY DEF OverpaidHoldsLiability
<1>1. \A k \in LiveKeys : Retained[k] = payments[k].retained /\ Retained[k] \in Nat
  BY LiveTypes DEF Retained
<1>2. \A k \in LiveKeys' : Retained'[k] = payments'[k].retained
  BY DEF Retained
<1>3. SumFunctionOnSet(Retained, LiveKeys) \in Nat
  BY <1>1, SumType DEF FewPayments
<1>4. status = "OVERPAID" => SumFunctionOnSet(Retained, LiveKeys) > 0
  BY DEF OverpaidHoldsLiability
<1>5. ASSUME NEW k \in Keys, NEW p \in Payments, Records(k, p), p.retained > 0 \/ status = "OVERPAID"
      PROVE  SumFunctionOnSet(Retained', LiveKeys') > 0
  <2>1. /\ k \notin LiveKeys /\ LiveKeys' = LiveKeys \cup {k}
        /\ payments'[k] = p /\ \A j \in Keys \ {k} : payments'[j] = payments[j]
    BY <1>5, RecordsLive
  <2>2. p.retained \in Nat
    BY DEF Payments
  <2>3. Retained'[k] = p.retained /\ \A j \in LiveKeys : Retained'[j] = Retained[j]
    BY <1>1, <1>2, <2>1 DEF LiveKeys
  <2>4. SumFunctionOnSet(Retained', LiveKeys') = Retained'[k] + SumFunctionOnSet(Retained', LiveKeys)
    BY <1>1, <2>1, <2>2, <2>3, SumAdd DEF FewPayments
  <2>5. SumFunctionOnSet(Retained', LiveKeys) = SumFunctionOnSet(Retained, LiveKeys)
    BY <2>3, SumSame DEF FewPayments
  <2> QED BY <1>3, <1>4, <1>5, <2>2, <2>3, <2>4, <2>5
<1>6. ASSUME NEW k \in Keys, Cancels(k), SumFunctionOnSet(Retained, LiveKeys \ {k}) > 0
      PROVE  SumFunctionOnSet(Retained', LiveKeys') > 0
  <2>1. LiveKeys' = LiveKeys \ {k} /\ \A j \in Keys \ {k} : payments'[j] = payments[j]
    BY <1>6, CancelsLive
  <2>2. \A j \in LiveKeys' : Retained'[j] = Retained[j]
    BY <1>1, <1>2, <2>1 DEF LiveKeys
  <2>3. SumFunctionOnSet(Retained', LiveKeys') = SumFunctionOnSet(Retained, LiveKeys')
    BY <2>1, <2>2, FS_Subset, SumSame DEF FewPayments
  <2> QED BY <1>6, <2>1, <2>3
<1>7. ASSUME status = "OVERPAID", UNCHANGED payments
      PROVE  SumFunctionOnSet(Retained', LiveKeys') > 0
  BY <1>4, <1>7 DEF Retained, LiveKeys, Live, Used
<1> QED BY <1>5, <1>6, <1>7, OverpaidSteps

\* A loan shown as overpaid has an overpayment on the liability account from a payment that still
\* stands: the status outlives neither its cancellation nor the jobs.
THEOREM OverpaidIsHeld == Spec => []OverpaidHoldsLiability
<1> DEFINE Inv == /\ TypeOK /\ DatesAscend /\ FewPayments /\ ArrearsJobFromServiced
                  /\ DateChangesNeverOverpay /\ OverpaidHoldsLiability
<1>1. Init => Inv
  <2> SUFFICES ASSUME Init
               PROVE  ArrearsJobFromServiced /\ DateChangesNeverOverpay /\ OverpaidHoldsLiability
    BY InitType, InitPayments
  <2> QED BY DEF Init, NoJob, ArrearsJobFromServiced, DateChangesNeverOverpay, OverpaidHoldsLiability
<1>2. Inv /\ [Next]_vars => Inv'
  BY NextType, FewPaymentsStep, ArrearsJobFromServicedStep, DateChangesNeverOverpayStep,
     OverpaidHoldsLiabilityStep
<1>3. Inv => OverpaidHoldsLiability
  OBVIOUS
<1> QED BY <1>1, <1>2, <1>3, PTL DEF Spec
-----------------------------------------------------------------------------
(* A loan still serviced has something left to pay.                        *)

\* What the rows owe in all, and a payment's rows taken from it.
LEMMA UnpaidTypes ==
  ASSUME TypeOK
  PROVE  \A i \in Installments : /\ Unpaid[i] = Total(due[i]) - Total(paid[i]) /\ Unpaid[i] \in Int
                                 /\ Total(due[i]) \in Nat /\ Total(paid[i]) \in Nat
                                 /\ Total(waived[i]) \in Nat
<1>1. \A i \in Installments : due[i] \in Amounts /\ paid[i] \in Amounts /\ waived[i] \in Amounts
  BY DEF TypeOK
<1>2. \A i \in Installments :
        Total(due[i]) \in Nat /\ Total(paid[i]) \in Nat /\ Total(waived[i]) \in Nat
  BY <1>1, TotalType
<1> QED BY <1>2 DEF Unpaid

LEMMA TotalPlus ==
  ASSUME NEW row \in Amounts, NEW more \in Amounts
  PROVE  Total([b \in Buckets |-> row[b] + more[b]]) = Total(row) + Total(more)
<1>1. \A b \in Buckets : row[b] \in Nat /\ more[b] \in Nat
  BY DEF Amounts
<1> QED BY <1>1 DEF Total, Buckets

\* A recorded payment lowers what is unpaid by what reached the rows.
LEMMA RecordsUnpaid ==
  ASSUME TypeOK, UNCHANGED due, NEW k \in Keys, NEW p \in Payments, Records(k, p)
  PROVE  SumFunctionOnSet(Unpaid', Installments)
           = SumFunctionOnSet(Unpaid, Installments) - (p.amount - p.swept - p.retained)
<1>1. p.alloc \in [Installments -> Amounts] /\ p.swept \in Nat /\ p.retained \in Nat /\ p.amount \in Nat
  BY DEF Payments
<1>2. \A i \in Installments : RowTotals(p.alloc)[i] = Total(p.alloc[i]) /\ Total(p.alloc[i]) \in Nat
  BY <1>1, TotalType DEF RowTotals
<1>3. ASSUME NEW i \in Installments
      PROVE  /\ Unpaid'[i] \in Int /\ Unpaid[i] \in Int
             /\ Unpaid[i] = Unpaid'[i] + RowTotals(p.alloc)[i]
  <2>1. paid'[i] = [b \in Buckets |-> paid[i][b] + p.alloc[i][b]]
    BY DEF Records
  <2>2. paid[i] \in Amounts /\ p.alloc[i] \in Amounts
    BY <1>1 DEF TypeOK
  <2>3. Total(paid'[i]) = Total(paid[i]) + Total(p.alloc[i])
    BY <2>1, <2>2, TotalPlus
  <2>4. Unpaid'[i] = Total(due[i]) - Total(paid'[i])
    BY DEF Unpaid
  <2>5. /\ Unpaid[i] = Total(due[i]) - Total(paid[i]) /\ Total(due[i]) \in Nat
        /\ Total(paid[i]) \in Nat
    BY UnpaidTypes
  <2> QED BY <1>2, <2>3, <2>4, <2>5
<1>4. \A i \in Installments : RowTotals(p.alloc)[i] \in Int
  BY <1>2
<1>5. SumFunctionOnSet(Unpaid, Installments)
        = SumFunctionOnSet(Unpaid', Installments) + SumFunctionOnSet(RowTotals(p.alloc), Installments)
  BY <1>3, <1>4, FiniteInstallments, SumPlus
<1>6. /\ SumFunctionOnSet(Unpaid', Installments) \in Int
      /\ SumFunctionOnSet(RowTotals(p.alloc), Installments) \in Int
  BY <1>3, <1>4, FiniteInstallments, SumType
<1>7. SumFunctionOnSet(RowTotals(p.alloc), Installments) + p.swept + p.retained = p.amount
  BY DEF Records, Accounted
<1> QED BY <1>1, <1>5, <1>6, <1>7

\* A positive sum of what is left after a cancellation is a positive sum of what is unpaid.
LEMMA ReversalOwes ==
  ASSUME TypeOK, NEW k \in Keys, NEW day, ReverseRepayment(k, day), status' \in Serviced
  PROVE  SumFunctionOnSet(Unpaid', Installments) > 0
<1> DEFINE p == payments[k]
           left == [i \in Installments |-> Outstanding[i] + Total(p.alloc[i])]
<1>1. SumFunctionOnSet(left, Installments) > 0
  BY DEF ReverseRepayment, StatusAfterReversal, Serviced
<1>2. p \in Payments
  BY DEF ReverseRepayment, Live, Used, TypeOK
<1>3. p.alloc \in [Installments -> Amounts]
  BY <1>2 DEF Payments
<1>4. ASSUME NEW i \in Installments
      PROVE  left[i] \in Int /\ Unpaid'[i] \in Int /\ left[i] <= Unpaid'[i]
  <2>1. paid'[i] = [b \in Buckets |-> paid[i][b] - p.alloc[i][b]] /\ due' = due
    BY DEF ReverseRepayment, RestoredPaid
  <2>2. paid[i] \in Amounts /\ p.alloc[i] \in Amounts
    BY <1>3 DEF TypeOK
  <2>3. /\ \A b \in Buckets : paid[i][b] \in Nat /\ p.alloc[i][b] \in Nat
        /\ Total(p.alloc[i]) \in Nat
    BY <2>2, TotalType DEF Amounts
  <2>4. Total(paid'[i]) = Total(paid[i]) - Total(p.alloc[i])
    BY <2>1, <2>3 DEF Total, Buckets
  <2>5. Unpaid'[i] = Total(due[i]) - Total(paid'[i])
    BY <2>1 DEF Unpaid
  <2>6. /\ Unpaid[i] = Total(due[i]) - Total(paid[i]) /\ Total(due[i]) \in Nat
        /\ Total(paid[i]) \in Nat /\ Total(waived[i]) \in Nat
    BY UnpaidTypes
  <2>7. left[i] = Unpaid[i] - Total(waived[i]) + Total(p.alloc[i])
    BY DEF Outstanding
  <2> HIDE DEF left, p
  <2> QED BY <2>3, <2>4, <2>5, <2>6, <2>7
<1> HIDE DEF left
<1>5. SumFunctionOnSet(left, Installments) <= SumFunctionOnSet(Unpaid', Installments)
  BY <1>4, FiniteInstallments, SumAtMost
<1>6. SumFunctionOnSet(left, Installments) \in Int /\ SumFunctionOnSet(Unpaid', Installments) \in Int
  BY <1>4, FiniteInstallments, SumType
<1> QED BY <1>1, <1>5, <1>6

LEMMA ApplyRepaymentOwes ==
  ASSUME TypeOK, NEW k \in Keys, NEW amount \in Nat, NEW source \in Sources, NEW overdue,
         ~Used(k), ApplyRepayment(k, amount, source, overdue), status' \in Serviced
  PROVE  SumFunctionOnSet(Unpaid', Installments) > 0
<1>1. PICK p \in Payments : Records(k, p) /\ status' = StatusAfterRepayment(p, overdue)
  BY ApplyRepaymentRecords
<1> DEFINE remaining == SumFunctionOnSet(Unpaid, Installments) - (p.amount - p.swept - p.retained)
<1>2. ~(remaining <= 0)
  BY <1>1 DEF StatusAfterRepayment, Serviced
<1>3. SumFunctionOnSet(Unpaid', Installments) = remaining
  <2>1. due' = due
    BY DEF ApplyRepayment
  <2> QED BY <1>1, <2>1, RecordsUnpaid
<1>4. remaining \in Int
  <2>1. SumFunctionOnSet(Unpaid, Installments) \in Int
    BY UnpaidTypes, FiniteInstallments, SumType
  <2>2. p.amount \in Nat /\ p.swept \in Nat /\ p.retained \in Nat
    BY DEF Payments
  <2> QED BY <2>1, <2>2
<1> HIDE DEF remaining
<1> QED BY <1>2, <1>3, <1>4

LEMMA PostPenaltyOwes ==
  ASSUME TypeOK, NEW i \in Installments, PostPenalty(i), SumFunctionOnSet(Unpaid, Installments) > 0
  PROVE  SumFunctionOnSet(Unpaid', Installments) > 0
<1>1. /\ job.amounts[i] \in Nat /\ due \in [Installments -> [Buckets -> Nat]] /\ paid' = paid
  BY DEF TypeOK, Jobs, Amounts, PostPenalty
<1>2. ASSUME NEW j \in Installments
      PROVE  Unpaid[j] \in Int /\ Unpaid'[j] \in Int /\ Unpaid[j] <= Unpaid'[j]
  <2>1. /\ \A b \in Buckets : due[j][b] \in Nat
        /\ due'[j] = due[j] \/ due'[j] = [due[j] EXCEPT !["penalties"] = @ + job.amounts[i]]
    BY <1>1 DEF PostPenalty
  <2>2. Total(due'[j]) = Total(due[j]) \/ Total(due'[j]) = Total(due[j]) + job.amounts[i]
    BY <1>1, <2>1 DEF Total, Buckets
  <2>3. Unpaid'[j] = Total(due'[j]) - Total(paid[j])
    BY <1>1 DEF Unpaid
  <2>4. /\ Unpaid[j] = Total(due[j]) - Total(paid[j]) /\ Total(due[j]) \in Nat
        /\ Total(paid[j]) \in Nat
    BY UnpaidTypes
  <2> QED BY <1>1, <2>2, <2>3, <2>4
<1>3. SumFunctionOnSet(Unpaid, Installments) <= SumFunctionOnSet(Unpaid', Installments)
  BY <1>2, FiniteInstallments, SumAtMost
<1>4. SumFunctionOnSet(Unpaid, Installments) \in Int /\ SumFunctionOnSet(Unpaid', Installments) \in Int
  BY <1>2, FiniteInstallments, SumType
<1> QED BY <1>3, <1>4

LEMMA ServicedOwesStep ==
  ASSUME TypeOK, ArrearsJobFromServiced, ServicedOwes, [Next]_vars
  PROVE  ServicedOwes'
<1> SUFFICES ASSUME status' \in Serviced PROVE SumFunctionOnSet(Unpaid', Installments) > 0
  BY DEF ServicedOwes
<1>1. ASSUME status \in Serviced, UNCHANGED <<due, paid>>
      PROVE  SumFunctionOnSet(Unpaid', Installments) > 0
  BY <1>1 DEF ServicedOwes, Unpaid
<1>2. CASE RepaymentStep
  <2>1. ASSUME NEW r \in requests, NEW day \in Days, CommitRepayment(r, day), ~Used(r.key)
        PROVE  SumFunctionOnSet(Unpaid', Installments) > 0
    <3>1. r.key \in Keys /\ r.amount \in Nat /\ r.source \in Sources
      BY DEF TypeOK, Requests
    <3>2. ApplyRepayment(r.key, r.amount, r.source, DueBefore(day))
      BY <2>1 DEF CommitRepayment
    <3> QED BY <2>1, <3>1, <3>2, ApplyRepaymentOwes
  <2>2. ASSUME NEW k \in Keys, SweepStandingOrder(k)
        PROVE  SumFunctionOnSet(Unpaid', Installments) > 0
    <3>1. PICK amount \in Nat : ~Used(k) /\ ApplyRepayment(k, amount, "savings", DueBy(today))
      BY <2>2 DEF SweepStandingOrder
    <3> QED BY <3>1, ApplyRepaymentOwes DEF Sources
  <2>3. ASSUME NEW k \in Keys, NEW amount, NEW source, StartRepayment(k, amount, source)
        PROVE  SumFunctionOnSet(Unpaid', Installments) > 0
    BY <1>1, <2>3 DEF StartRepayment, loanVars
  <2>4. ASSUME NEW r \in requests, NEW day \in Days, CommitRepayment(r, day), Used(r.key)
        PROVE  SumFunctionOnSet(Unpaid', Installments) > 0
    BY <1>1, <2>4 DEF CommitRepayment, loanVars
  <2>5. ASSUME NEW r \in requests, AbandonRepayment(r)
        PROVE  SumFunctionOnSet(Unpaid', Installments) > 0
    BY <1>1, <2>5 DEF AbandonRepayment, loanVars
  <2> QED BY <1>2, <2>1, <2>2, <2>3, <2>4, <2>5 DEF RepaymentStep
<1>3. CASE JobStep
  <2>1. CASE CommitArrears
    BY <1>1, <2>1 DEF CommitArrears, ArrearsJobFromServiced
  <2>2. ASSUME NEW i \in Installments, PostPenalty(i)
        PROVE  SumFunctionOnSet(Unpaid', Installments) > 0
    BY <2>2, PostPenaltyOwes DEF PostPenalty, ServicedOwes
  <2> QED BY <1>1, <1>3, <2>1, <2>2 DEF JobStep, ScanInterest, ScanPenalties, ScanRows, ScanArrears,
                                        PostAccrual, SkipRow, AbortJob, loanVars
<1>4. CASE ServiceStep
  <2>1. ASSUME NEW k \in Keys, NEW day \in Days, ReverseRepayment(k, day)
        PROVE  SumFunctionOnSet(Unpaid', Installments) > 0
    BY <2>1, ReversalOwes
  <2> QED BY <1>4, <2>1 DEF ServiceStep, Prepay, Foreclose, SettleInFull, UndoDisbursal, Serviced
<1>5. CASE DateChangeStep
  BY <1>1, <1>5 DEF DateChangeStep, StartDateChange, CommitDateChange, AbandonDateChange, loanVars
<1>6. CASE SavingsStep \/ Tick \/ UNCHANGED vars
  BY <1>1, <1>6 DEF SavingsStep, Deposit, Withdraw, ApproveSavingsAccount, Tick, vars, loanVars
<1> QED BY <1>2, <1>3, <1>4, <1>5, <1>6 DEF Next

\* A disbursed loan's rows owe something, its principal at least.
SomethingLent == SumFunctionOnSet(RowTotals(Schedule), Installments) > 0

\* The nightly jobs and the sweep never find a loan open that has nothing left to pay: whatever clears
\* it closes it in the same step, and nothing but new debt or a cancellation opens it again.
THEOREM ServicedLoansOwe ==
  ASSUME SomethingLent
  PROVE  Spec => []ServicedOwes
<1> DEFINE Inv == TypeOK /\ DatesAscend /\ ArrearsJobFromServiced /\ ServicedOwes
<1>1. Init => Inv
  <2> SUFFICES ASSUME Init PROVE ArrearsJobFromServiced /\ ServicedOwes
    BY InitType
  <2>1. \A i \in Installments : Unpaid[i] = RowTotals(Schedule)[i]
    <3>1. \A i \in Installments : Schedule[i] \in Amounts
      BY ServicingAssumption
    <3>2. \A i \in Installments : Total(Schedule[i]) \in Nat
      BY <3>1, TotalType
    <3>3. \A i \in Installments : due[i] = Schedule[i] /\ Total(paid[i]) = 0
      BY DEF Init, NoRows, Nothing, Total, Buckets
    <3> QED BY <3>2, <3>3 DEF Unpaid, RowTotals
  <2>2. SumFunctionOnSet(Unpaid, Installments) > 0
    <3>1. SumFunctionOnSet(Unpaid, Installments) = SumFunctionOnSet(RowTotals(Schedule), Installments)
      BY <2>1, FiniteInstallments, SumSame
    <3> QED BY <3>1 DEF SomethingLent
  <2> QED BY <2>2 DEF Init, NoJob, ArrearsJobFromServiced, ServicedOwes
<1>2. Inv /\ [Next]_vars => Inv'
  BY NextType, ArrearsJobFromServicedStep, ServicedOwesStep
<1>3. Inv => ServicedOwes
  OBVIOUS
<1> QED BY <1>1, <1>2, <1>3, PTL DEF Spec
-----------------------------------------------------------------------------
(* A standing order collects what is due, and no more.                     *)

\* When nothing is paid beyond its due, a payment with something left after a row paid that row, and
\* every row before it, to the last unit.
LEMMA PaidInFull ==
  ASSUME TypeOK, PaidWithinDue, NEW amount \in Nat, NEW rem \in Remainders(Owed, amount),
         NEW n \in 0 .. N, rem[n] > 0
  PROVE  \A j \in 1 .. n : RowTotals(Allocation(Owed, rem))[j] = Unpaid[j]
<1> DEFINE alloc == Allocation(Owed, rem)
           f == RowTotals(alloc)
<1>1. /\ Owed \in [Installments -> Balances] /\ alloc \in [Installments -> Amounts]
      /\ \A i \in Installments : f[i] = Total(alloc[i]) /\ f[i] \in Nat
  BY OwedType, AllocationBounds, TotalType DEF RowTotals
<1>2. \A m \in 0 .. N : SumFunctionOnSet(f, 1 .. m) = amount - rem[m] /\ rem[m] \in 0 .. amount
  BY <1>1, WaterfallSum DEF Remainders
<1> TAKE j \in 1 .. n
<1>3. j \in Installments /\ j \in 0 .. N /\ N \in Nat
  BY NAssumption DEF Installments
<1> HIDE DEF f, alloc
<1>4. SumFunctionOnSet(f, 1 .. j) <= SumFunctionOnSet(f, 1 .. n)
  <2>1. 1 .. n \in SUBSET Installments /\ 1 .. j \in SUBSET (1 .. n)
    BY <1>3 DEF Installments
  <2>2. \A x \in 1 .. n : f[x] \in Nat
    BY <1>1, <2>1
  <2>3. IsFiniteSet(1 .. n)
    BY <2>1, FiniteInstallments
  <2> QED BY <2>1, <2>2, <2>3, SumOfPart
<1>5. rem[j] > 0
  BY <1>2, <1>3, <1>4
<1>6. \A b \in Buckets : alloc[j][b] = Max0(Owed[j][b])
  BY <1>1, <1>3, <1>5, RemainderStep DEF alloc
<1>7. \A b \in Buckets : /\ alloc[j][b] = due[j][b] - paid[j][b]
                         /\ due[j][b] \in Nat /\ paid[j][b] \in Nat
  BY <1>3, <1>6, OwedType DEF Max0, PaidWithinDue
<1>8. Total(alloc[j]) = Total(due[j]) - Total(paid[j])
  BY <1>7 DEF Total, Buckets
<1> QED BY <1>1, <1>3, <1>8, UnpaidTypes DEF f, alloc

LEMMA SweepWithinDue ==
  ASSUME TypeOK, PaidWithinDue, NEW k \in Keys, SweepStandingOrder(k)
  PROVE  \E p \in Payments : /\ Records(k, p)
                             /\ p.swept = 0
                             /\ \A i \in Installments \ DueBy(today) : p.alloc[i] = Nothing
<1> DEFINE rows == {i \in DueBy(today) : Outstanding[i] > 0}
           dueOutstanding == SumFunctionOnSet(Outstanding, rows)
           amount == SweepAmount(dueOutstanding)
<1>1. /\ amount \in Nat /\ ~Used(k) /\ ApplyRepayment(k, amount, "savings", DueBy(today))
  BY DEF SweepStandingOrder
<1>2. rows \in SUBSET DueBy(today) /\ DueBy(today) \in SUBSET Installments
  BY DEF DueBy
<1>3. \A i \in Installments : Outstanding[i] = Unpaid[i] - Total(waived[i])
  BY DEF Outstanding
<1> HIDE DEF rows
<1>4. dueOutstanding \in Int
  <2>1. \A i \in rows : Outstanding[i] \in Int
    BY <1>2, <1>3, UnpaidTypes
  <2> QED BY <1>2, <2>1, FiniteInstallments, SumType
<1> HIDE DEF dueOutstanding
<1>5. amount <= dueOutstanding
  BY <1>1, <1>4 DEF SweepAmount, TypeOK
<1> HIDE DEF amount
<1>6. PICK p \in Payments, rem \in Remainders(Owed, amount) :
        Records(k, p) /\ p.alloc = Allocation(Owed, rem) /\ p.swept + p.retained = rem[N]
  BY <1>1, ApplyRepaymentRecords DEF Sources
<1> DEFINE f == RowTotals(Allocation(Owed, rem))
<1>7. /\ Owed \in [Installments -> Balances]
      /\ Allocation(Owed, rem) \in [Installments -> Amounts]
      /\ \A i \in Installments : f[i] \in Nat
  BY <1>1, OwedType, AllocationBounds, TotalType DEF RowTotals
<1> HIDE DEF f
<1>8. ASSUME NEW n \in 0 .. N, DueBy(today) \subseteq 1 .. n
      PROVE  rem[n] = 0
  <2>1. rem[n] \in Nat
    BY <1>1 DEF Remainders
  <2> SUFFICES ASSUME rem[n] > 0 PROVE FALSE
    BY <2>1
  <2>2. SumFunctionOnSet(f, 1 .. n) = amount - rem[n]
    BY <1>1, <1>7, WaterfallSum DEF f
  <2>3. 1 .. n \in SUBSET Installments /\ rows \in SUBSET (1 .. n)
    BY <1>2, <1>8, NAssumption DEF Installments
  <2>4. IsFiniteSet(1 .. n) /\ IsFiniteSet(rows)
    BY <1>2, <2>3, FiniteInstallments
  <2>5. \A i \in rows : Outstanding[i] \in Int /\ f[i] \in Int /\ Outstanding[i] <= f[i]
    <3>1. \A i \in rows : f[i] = Unpaid[i]
      BY <1>1, <2>3, PaidInFull DEF f
    <3>2. \A i \in rows : Unpaid[i] \in Int /\ Total(waived[i]) \in Nat
      BY <2>3, UnpaidTypes
    <3> QED BY <1>3, <2>3, <3>1, <3>2
  <2>6. dueOutstanding <= SumFunctionOnSet(f, rows)
    BY <2>4, <2>5, SumAtMost DEF dueOutstanding
  <2>7. \A i \in 1 .. n : f[i] \in Nat
    BY <1>7, <2>3
  <2>8. SumFunctionOnSet(f, rows) <= SumFunctionOnSet(f, 1 .. n)
    BY <2>3, <2>4, <2>7, SumOfPart
  <2>9. SumFunctionOnSet(f, rows) \in Int
    BY <2>4, <2>5, SumType
  <2> QED BY <1>1, <1>4, <1>5, <2>1, <2>2, <2>6, <2>8, <2>9
<1>9. p.swept = 0
  <2>1. rem[N] = 0
    BY <1>2, <1>8, NAssumption DEF Installments
  <2>2. p.swept \in Nat /\ p.retained \in Nat
    BY DEF Payments
  <2> QED BY <1>6, <2>1, <2>2
<1>10. ASSUME NEW i \in Installments \ DueBy(today)
       PROVE  p.alloc[i] = Nothing
  <2>1. i \in Nat /\ i - 1 \in 0 .. N
    BY NAssumption DEF Installments
  <2>2. DueBy(today) \subseteq 1 .. (i - 1)
    <3> SUFFICES ASSUME NEW j \in DueBy(today) PROVE j \in 1 .. (i - 1)
      OBVIOUS
    <3>1. j \in Installments /\ j # i /\ dueDay[j] <= today /\ ~(dueDay[i] <= today)
      BY DEF DueBy
    <3>2. dueDay[i] \in Nat /\ dueDay[j] \in Nat /\ today \in Nat
      BY <3>1 DEF TypeOK, Days
    <3>3. i < j => dueDay[i] <= dueDay[j]
      BY <3>1 DEF TypeOK
    <3>4. ~(i < j)
      BY <3>1, <3>2, <3>3
    <3> QED BY <2>1, <3>1, <3>4 DEF Installments
  <2>3. rem[i - 1] = 0
    BY <1>8, <2>1, <2>2
  <2>4. \A b \in Buckets : Allocation(Owed, rem)[i][b] = 0
    BY <1>1, <1>7, <2>3, RemainderStep
  <2>5. Allocation(Owed, rem)[i] \in Amounts
    BY <1>7
  <2> QED BY <1>6, <2>4, <2>5 DEF Amounts, Nothing
<1> QED BY <1>6, <1>9, <1>10

LEMMA OnlySweepsAreSweeps ==
  ASSUME TypeOK, PaidWithinDue, Next, NEW k \in Keys,
         ~Used(k), Used(k)', payments'[k].source = "savings", requests' = requests
  PROVE  /\ \A i \in Installments \ DueBy(today) : payments'[k].alloc[i] = Nothing
         /\ payments'[k].swept = 0
<1>1. ~UNCHANGED payments
  BY DEF Used
<1>2. \A j \in Keys, p \in Payments : Records(j, p) => j = k /\ payments'[k] = p
  BY RecordsLive DEF Used
<1>3. PICK j \in Keys : SweepStandingOrder(j)
  <2>1. CASE RepaymentStep
    BY <1>1, <2>1 DEF RepaymentStep, StartRepayment, CommitRepayment, AbandonRepayment, loanVars
  <2>2. CASE ServiceStep
    <3>1. ASSUME NEW j \in Keys, NEW day \in Days, Prepay(j, day) \/ Foreclose(j, day)
          PROVE  FALSE
      <4>1. PICK p \in Payments : Records(j, p) /\ p.source = "settlement"
        BY <3>1, SettleInFullRecords DEF Prepay, Foreclose
      <4> QED BY <1>2, <4>1
    <3>2. ASSUME NEW j \in Keys, NEW day \in Days, ReverseRepayment(j, day)
          PROVE  FALSE
      <4>1. Cancels(j)
        BY <3>2 DEF ReverseRepayment, Cancels
      <4>2. Used(j) /\ \A l \in Keys \ {j} : payments'[l] = payments[l]
        BY <4>1, CancelsLive DEF LiveKeys, Live
      <4> QED BY <4>2 DEF Used
    <3> QED BY <1>1, <2>2, <3>1, <3>2 DEF ServiceStep, UndoDisbursal
  <2>3. ~JobStep
    BY <1>1 DEF JobStep, ScanInterest, ScanPenalties, ScanRows, ScanArrears, PostAccrual, PostPenalty,
                SkipRow, CommitArrears, AbortJob, loanVars
  <2>4. ~SavingsStep /\ ~Tick /\ ~DateChangeStep
    BY <1>1 DEF SavingsStep, Deposit, Withdraw, ApproveSavingsAccount, Tick, DateChangeStep,
                StartDateChange, CommitDateChange, AbandonDateChange, loanVars
  <2> QED BY <2>1, <2>2, <2>3, <2>4 DEF Next
<1>4. PICK p \in Payments : /\ Records(j, p) /\ p.swept = 0
                           /\ \A i \in Installments \ DueBy(today) : p.alloc[i] = Nothing
  BY <1>3, SweepWithinDue
<1> QED BY <1>2, <1>4

\* A standing order never takes savings for an installment of a later day and never overpays: the
\* amount is what is due by the end of the day at most, and the waterfall exhausts it on those rows.
THEOREM StandingOrdersTakeWhatIsDue == Spec => SweepsOnlyWhatIsDue
<1> DEFINE Collects == \A k \in Keys :
             ~Used(k) /\ Used(k)' /\ payments'[k].source = "savings" /\ requests' = requests
               => /\ \A i \in Installments \ DueBy(today) : payments'[k].alloc[i] = Nothing
                  /\ payments'[k].swept = 0
<1>1. Init => TypeOK /\ DatesAscend /\ PaidWithinDue
  BY InitType, InitWithinDue
<1>2. TypeOK /\ DatesAscend /\ PaidWithinDue /\ [Next]_vars => (TypeOK /\ DatesAscend /\ PaidWithinDue)'
  BY NextType, PaidWithinDueStep
<1>3. TypeOK /\ PaidWithinDue /\ [Next]_vars => [Collects]_vars
  BY OnlySweepsAreSweeps
<1> QED BY <1>1, <1>2, <1>3, PTL DEF Spec, SweepsOnlyWhatIsDue
-----------------------------------------------------------------------------
(* A payment is recorded once.                                             *)

\* A used key keeps its payment, cancelled at most once.
RecordedOnce ==
  [][\A k \in Keys : Used(k) =>
       payments'[k] = payments[k] \/ (Live(k) /\ payments'[k] = [payments[k] EXCEPT !.reversed = TRUE])]_vars

\* A command sent again under its key, a sweep run again, a settlement that overtakes a repayment: none
\* replaces or doubles the recorded payment, and a cancelled one is never cancelled again.
THEOREM PaymentsRecordedOnce == Spec => RecordedOnce
<1>1. TypeOK /\ [Next]_vars =>
        [\A k \in Keys : Used(k) =>
           payments'[k] = payments[k] \/ (Live(k) /\ payments'[k] = [payments[k] EXCEPT !.reversed = TRUE])]_vars
  <2> SUFFICES ASSUME TypeOK, [Next]_vars, NEW k \in Keys, Used(k)
               PROVE  payments'[k] = payments[k] \/ (Live(k) /\ payments'[k] = [payments[k] EXCEPT !.reversed = TRUE])
    OBVIOUS
  <2>1. ASSUME NEW j \in Keys, NEW p \in Payments, Records(j, p)
        PROVE  payments'[k] = payments[k]
    BY <2>1, RecordsLive DEF Records
  <2>2. ASSUME NEW j \in Keys, Cancels(j)
        PROVE  payments'[k] = payments[k] \/ (Live(k) /\ payments'[k] = [payments[k] EXCEPT !.reversed = TRUE])
    BY <2>2, CancelsLive DEF Cancels
  <2> QED BY <2>1, <2>2, PaymentSteps
<1> QED BY <1>1, TypeCorrect, PTL DEF Spec, RecordedOnce
-----------------------------------------------------------------------------
(* How often the interest of a row can become income.                      *)

\* The job never books more than the row's scheduled interest, and the row never owes more.
InterestWithinSchedule ==
  \A i \in Installments :
    /\ due[i]["interest"] <= Schedule[i]["interest"]
    /\ accrued[i] <= Schedule[i]["interest"]
    /\ job.kind = "interest" => job.amounts[i] <= Schedule[i]["interest"]

\* The job after a row holds no more than it held.
LEMMA NextRowShrinks ==
  ASSUME TypeOK, NEW kind, NEW i \in Installments, NextRow(kind, i)
  PROVE  /\ job.kind = kind /\ job'.kind \in {"none", job.kind}
         /\ \A j \in Installments : job'.amounts[j] <= job.amounts[j] /\ job.amounts[j] \in Nat
<1> DEFINE left == [job EXCEPT !.amounts[i] = 0]
<1>1. job.kind = kind /\ (job' = NoJob \/ job' = left)
  BY DEF NextRow
<1>2. job \in Jobs
  BY DEF TypeOK
<1>3. /\ job.amounts \in [Installments -> Nat]
      /\ left.kind = job.kind /\ left.amounts = [job.amounts EXCEPT ![i] = 0]
  BY <1>2 DEF Jobs
<1> HIDE DEF left
<1>4. CASE job' = NoJob
  BY <1>1, <1>3, <1>4 DEF NoJob
<1>5. CASE job' = left
  <2>1. \A j \in Installments : left.amounts[j] \in {0, job.amounts[j]} /\ job.amounts[j] \in Nat
    BY <1>3
  <2>2. \A j \in Installments : left.amounts[j] <= job.amounts[j] /\ job.amounts[j] \in Nat
    BY <2>1
  <2> QED BY <1>1, <1>3, <1>5, <2>2
<1> QED BY <1>1, <1>4, <1>5

LEMMA ScheduleNat ==
  \A i \in Installments : Schedule[i] \in Amounts /\ \A b \in Buckets : Schedule[i][b] \in Nat
BY ServicingAssumption DEF Amounts

LEMMA InterestWithinScheduleStep ==
  ASSUME TypeOK, InterestWithinSchedule, [Next]_vars
  PROVE  InterestWithinSchedule'
<1> "interest" \in Buckets
  BY DEF Buckets
<1>0. \A i \in Installments :
        /\ due[i]["interest"] \in Nat /\ paid[i]["interest"] \in Nat /\ waived[i]["interest"] \in Nat
        /\ Schedule[i]["interest"] \in Nat /\ accrued[i] \in Nat
  BY ScheduleNat DEF TypeOK, Amounts
<1>1. ASSUME UNCHANGED <<due, accrued>>, job' = job \/ job' = NoJob \/ job'.kind # "interest"
      PROVE  InterestWithinSchedule'
  BY <1>1 DEF InterestWithinSchedule, NoJob
<1>2. CASE RepaymentStep
  BY <1>1, <1>2, RepaymentKeeps
<1>3. CASE JobStep
  <2>1. CASE ScanInterest
    <3>1. \A i \in Installments : AccruableInterest(i) <= Schedule[i]["interest"]
      <4> SUFFICES ASSUME NEW i \in Installments PROVE AccruableInterest(i) <= Schedule[i]["interest"]
        OBVIOUS
      <4>1. due[i]["interest"] <= Schedule[i]["interest"]
        BY DEF InterestWithinSchedule
      <4> QED BY <1>0, <4>1 DEF AccruableInterest, Max0
    <3>2. job' = [NoJob EXCEPT !.kind = "interest", !.amounts = [i \in Installments |-> AccruableInterest(i)]]
      BY <2>1 DEF ScanInterest, ScanRows
    <3>3. \A i \in Installments : job'.amounts[i] = AccruableInterest(i)
      BY <3>2 DEF NoJob
    <3>4. UNCHANGED <<due, accrued>>
      BY <2>1 DEF ScanInterest, ScanRows, loanVars
    <3> QED BY <3>1, <3>3, <3>4 DEF InterestWithinSchedule
  <2>2. ASSUME NEW i \in Installments, PostAccrual(i)
        PROVE  InterestWithinSchedule'
    <3>1. /\ job.kind = "interest"
          /\ \A j \in Installments : job'.amounts[j] <= job.amounts[j] /\ job.amounts[j] \in Nat
      BY <2>2, NextRowShrinks DEF PostAccrual
    <3>2. job' \in Jobs
      BY NextRowType, <2>2 DEF PostAccrual
    <3>3. \A j \in Installments : job'.amounts[j] \in Nat
      BY <3>2 DEF Jobs
    <3>4. \A j \in Installments : job'.amounts[j] <= Schedule[j]["interest"]
      BY <1>0, <3>1, <3>3 DEF InterestWithinSchedule
    <3>5. \A j \in Installments : accrued'[j] \in {accrued[j], job.amounts[j]} /\ due'[j] = due[j]
      BY <2>2 DEF PostAccrual, TypeOK
    <3>6. \A j \in Installments : accrued'[j] <= Schedule[j]["interest"]
      BY <3>1, <3>5 DEF InterestWithinSchedule
    <3> QED BY <3>4, <3>5, <3>6 DEF InterestWithinSchedule
  <2>3. ASSUME NEW i \in Installments, PostPenalty(i)
        PROVE  InterestWithinSchedule'
    <3>1. job'.kind # "interest"
      BY <2>3, NextRowShrinks DEF PostPenalty
    <3>2. /\ due \in [Installments -> [Buckets -> Nat]]
          /\ "penalties" \in Buckets /\ "interest" \in Buckets
      BY DEF TypeOK, Amounts, Buckets
    <3>3. \A j \in Installments : due'[j]["interest"] = due[j]["interest"] /\ accrued' = accrued
      BY <2>3, <3>2 DEF PostPenalty
    <3> QED BY <3>1, <3>3 DEF InterestWithinSchedule
  <2>4. ASSUME NEW i \in Installments, SkipRow(i)
        PROVE  InterestWithinSchedule'
    <3>1. /\ job'.kind \in {"none", job.kind} /\ UNCHANGED <<due, accrued>>
          /\ \A j \in Installments : job'.amounts[j] <= job.amounts[j] /\ job.amounts[j] \in Nat
      BY <2>4, NextRowShrinks DEF SkipRow, loanVars
    <3>2. job' \in Jobs
      BY NextRowType, <2>4 DEF SkipRow
    <3>3. \A j \in Installments : job'.amounts[j] \in Nat
      BY <3>2 DEF Jobs
    <3>4. job'.kind = "interest" => \A j \in Installments : job'.amounts[j] <= Schedule[j]["interest"]
      BY <1>0, <3>1, <3>3 DEF InterestWithinSchedule
    <3> QED BY <3>1, <3>4 DEF InterestWithinSchedule
  <2>5. CASE ScanPenalties \/ ScanArrears \/ CommitArrears \/ AbortJob
    BY <1>1, <2>5 DEF ScanPenalties, ScanRows, ScanArrears, CommitArrears, AbortJob, NoJob, loanVars
  <2> QED BY <1>3, <2>1, <2>2, <2>3, <2>4, <2>5 DEF JobStep
<1>4. CASE ServiceStep
  <2>1. CASE UndoDisbursal
    <3>1. job' = NoJob /\ accrued' = accrued /\ \A i \in Installments : due'[i]["interest"] = 0
      BY <2>1 DEF UndoDisbursal, NoRows, Nothing
    <3> QED BY <1>0, <3>1 DEF InterestWithinSchedule, NoJob
  <2> QED BY <1>1, <1>4, <2>1 DEF ServiceStep, Prepay, Foreclose, SettleInFull, ReverseRepayment
<1>5. CASE SavingsStep \/ Tick \/ DateChangeStep \/ UNCHANGED vars
  BY <1>1, <1>5 DEF SavingsStep, Deposit, Withdraw, ApproveSavingsAccount, Tick, DateChangeStep,
                    StartDateChange, CommitDateChange, AbandonDateChange, vars, loanVars
<1> QED BY <1>2, <1>3, <1>4, <1>5 DEF Next

InterestAtMostTwice == \A i \in Installments : InterestIncome(i) <= 2 * Schedule[i]["interest"]

\* How far the double recognition of interest can go: the accrual and the collections each book a row's
\* interest at most once, so it is never income more than twice, whatever is accrued, paid, settled,
\* cancelled and paid again.
THEOREM InterestTwiceAtMost == Spec => []InterestAtMostTwice
<1> DEFINE Inv == /\ TypeOK /\ DatesAscend /\ FewPayments /\ PaidMatchesPayments /\ PaidWithinDue
                  /\ InterestWithinSchedule
<1>1. Init => Inv
  <2> SUFFICES ASSUME Init PROVE InterestWithinSchedule
    BY InitType, InitPayments, InitWithinDue
  <2>1. \A i \in Installments : Schedule[i]["interest"] \in Nat
    BY ScheduleNat DEF Buckets
  <2> QED BY <2>1 DEF Init, NoJob, InterestWithinSchedule
<1>2. Inv /\ [Next]_vars => Inv'
  BY NextType, FewPaymentsStep, PaidMatchesPaymentsStep, PaidWithinDueStep, InterestWithinScheduleStep
<1>3. Inv => InterestAtMostTwice
  <2> SUFFICES ASSUME Inv, NEW i \in Installments
               PROVE  InterestIncome(i) <= 2 * Schedule[i]["interest"]
    BY DEF InterestAtMostTwice
  <2> DEFINE f == Allocated(i, "interest")
             S == {k \in LiveKeys : i \notin payments[k].interestReceivable}
  <2>1. \A k \in LiveKeys : f[k] \in Nat
    BY LiveTypes DEF Allocated, Buckets
  <2>2. paid[i]["interest"] = SumFunctionOnSet(f, LiveKeys)
    BY DEF PaidMatchesPayments, Buckets
  <2>3. S \in SUBSET LiveKeys
    OBVIOUS
  <2>4. InterestIncome(i) = accrued[i] + SumFunctionOnSet(f, S)
    BY DEF InterestIncome
  <2> HIDE DEF f, S
  <2>5. SumFunctionOnSet(f, S) <= SumFunctionOnSet(f, LiveKeys)
    BY <2>1, <2>3, SumOfPart DEF FewPayments
  <2>6. SumFunctionOnSet(f, S) \in Nat
    BY <2>1, <2>3, FS_Subset, SumType DEF FewPayments
  <2>7. /\ paid[i]["interest"] <= due[i]["interest"] /\ due[i]["interest"] <= Schedule[i]["interest"]
        /\ accrued[i] <= Schedule[i]["interest"]
    BY DEF PaidWithinDue, InterestWithinSchedule, Buckets
  <2>8. /\ paid[i]["interest"] \in Nat /\ due[i]["interest"] \in Nat /\ accrued[i] \in Nat
        /\ Schedule[i]["interest"] \in Nat
    BY ScheduleNat DEF TypeOK, Amounts, Buckets
  <2> HIDE DEF Inv
  <2> QED BY <2>2, <2>4, <2>5, <2>6, <2>7, <2>8
<1> QED BY <1>1, <1>2, <1>3, PTL DEF Spec
-----------------------------------------------------------------------------
(* The standing payments and the loan's rows, summed up.                   *)

Swept == [k \in LiveKeys |-> payments[k].swept]
Received == [k \in LiveKeys |-> payments[k].amount]
\* What each standing payment paid of one bucket, over all rows.
Collected(b) == [k \in LiveKeys |-> SumFunctionOnSet([i \in Installments |-> payments[k].alloc[i][b]], Installments)]

\* What the standing payments collected of a bucket is what the rows have paid of it.
LEMMA CollectedIsPaid ==
  ASSUME TypeOK, FewPayments, PaidMatchesPayments, NEW b \in Buckets
  PROVE  SumFunctionOnSet(Collected(b), LiveKeys)
           = SumFunctionOnSet([i \in Installments |-> paid[i][b]], Installments)
<1> DEFINE f == [k \in LiveKeys |-> [i \in Installments |-> payments[k].alloc[i][b]]]
           cols == [i \in Installments |-> paid[i][b]]
<1>1. \A k \in LiveKeys, i \in Installments : f[k][i] \in Int
  BY LiveTypes
<1>2. \A k \in LiveKeys : Collected(b)[k] = SumFunctionOnSet(f[k], Installments)
  BY DEF Collected
<1>3. \A i \in Installments : Column(f, LiveKeys, i) = Allocated(i, b)
  BY DEF Allocated, Column
<1>4. \A i \in Installments : cols[i] = SumFunctionOnSet(Column(f, LiveKeys, i), LiveKeys)
  BY <1>3 DEF PaidMatchesPayments
<1> HIDE DEF f, cols
<1>5. SumFunctionOnSet(Collected(b), LiveKeys) = SumFunctionOnSet(cols, Installments)
  <2>1. IsFiniteSet(LiveKeys) /\ IsFiniteSet(Installments)
    BY FiniteInstallments DEF FewPayments
  <2> QED BY ONLY <1>1, <1>2, <1>4, <2>1, SumSwap
<1> QED BY <1>5 DEF cols

\* What the standing payments paid on one row is what the row has paid.
LEMMA RowCollected ==
  ASSUME TypeOK, FewPayments, PaidMatchesPayments, NEW i \in Installments
  PROVE  SumFunctionOnSet([k \in LiveKeys |-> Total(payments[k].alloc[i])], LiveKeys) = Total(paid[i])
<1> DEFINE a(b) == Allocated(i, b)
           g1 == [k \in LiveKeys |-> a("penalties")[k] + a("fees")[k]]
           g2 == [k \in LiveKeys |-> g1[k] + a("monitoringFee")[k]]
           g3 == [k \in LiveKeys |-> g2[k] + a("interest")[k]]
           g4 == [k \in LiveKeys |-> g3[k] + a("principal")[k]]
           total == [k \in LiveKeys |-> Total(payments[k].alloc[i])]
           sum(f) == SumFunctionOnSet(f, LiveKeys)
<1>1. \A b \in Buckets : \A k \in LiveKeys : a(b)[k] = payments[k].alloc[i][b] /\ a(b)[k] \in Int
  BY LiveTypes DEF Allocated
<1>2. /\ "penalties" \in Buckets /\ "fees" \in Buckets /\ "monitoringFee" \in Buckets
      /\ "interest" \in Buckets /\ "principal" \in Buckets
  BY DEF Buckets
<1>3. \A k \in LiveKeys : total[k] = g4[k]
  BY <1>1, <1>2 DEF Total
<1>4. \A b \in Buckets : paid[i][b] = sum(a(b))
  BY DEF PaidMatchesPayments
<1> HIDE DEF a, total
<1>5. sum(g1) = sum(a("penalties")) + sum(a("fees"))
  <2>1. \A k \in LiveKeys : /\ a("penalties")[k] \in Int /\ a("fees")[k] \in Int
                            /\ g1[k] = a("penalties")[k] + a("fees")[k]
    BY <1>1, <1>2
  <2> HIDE DEF g1
  <2> QED BY <2>1, SumPlus DEF FewPayments
<1>6. sum(g2) = sum(g1) + sum(a("monitoringFee"))
  <2>1. \A k \in LiveKeys : /\ g1[k] \in Int /\ a("monitoringFee")[k] \in Int
                            /\ g2[k] = g1[k] + a("monitoringFee")[k]
    BY <1>1, <1>2
  <2> HIDE DEF g1, g2
  <2> QED BY <2>1, SumPlus DEF FewPayments
<1>7. sum(g3) = sum(g2) + sum(a("interest"))
  <2>1. \A k \in LiveKeys : /\ g2[k] \in Int /\ a("interest")[k] \in Int
                            /\ g3[k] = g2[k] + a("interest")[k]
    BY <1>1, <1>2
  <2> HIDE DEF g1, g2, g3
  <2> QED BY <2>1, SumPlus DEF FewPayments
<1>8. sum(g4) = sum(g3) + sum(a("principal"))
  <2>1. \A k \in LiveKeys : /\ g3[k] \in Int /\ a("principal")[k] \in Int
                            /\ g4[k] = g3[k] + a("principal")[k]
    BY <1>1, <1>2
  <2> HIDE DEF g1, g2, g3, g4
  <2> QED BY <2>1, SumPlus DEF FewPayments
<1> HIDE DEF g1, g2, g3, g4
<1>9. sum(total) = sum(g4)
  BY <1>3, SumSame DEF FewPayments
<1> HIDE DEF sum
<1>10. sum(total) = Total(paid[i])
  BY <1>2, <1>4, <1>5, <1>6, <1>7, <1>8, <1>9 DEF Total
<1> QED BY <1>10 DEF sum, total

\* Everything the standing payments brought in.
MoneyAccountedFor ==
  SumFunctionOnSet(Received, LiveKeys)
    = SumFunctionOnSet(RowTotals(paid), Installments)
        + SumFunctionOnSet(Swept, LiveKeys) + SumFunctionOnSet(Retained, LiveKeys)

\* No money is lost or counted twice: what the standing payments brought in is, to the last unit, paid on
\* the rows, swept to savings or kept on the overpayment liability, however many payments there were and in
\* whatever order they were posted and cancelled.
THEOREM AllMoneyAccountedFor == Spec => []MoneyAccountedFor
<1>1. TypeOK /\ FewPayments /\ PaidMatchesPayments /\ PaymentAccountedFor => MoneyAccountedFor
  <2> SUFFICES ASSUME TypeOK, FewPayments, PaidMatchesPayments, PaymentAccountedFor
               PROVE  MoneyAccountedFor
    OBVIOUS
  <2> DEFINE f == [k \in LiveKeys |-> RowTotals(payments[k].alloc)]
             rows == [k \in LiveKeys |-> SumFunctionOnSet(f[k], Installments)]
             kept == [k \in LiveKeys |-> Swept[k] + Retained[k]]
             cols == RowTotals(paid)
  <2>0. \A k \in LiveKeys, i \in Installments : f[k][i] \in Int
    <3>1. \A k \in LiveKeys, i \in Installments : payments[k].alloc[i] \in Amounts
      BY LiveTypes
    <3>2. \A k \in LiveKeys, i \in Installments : Total(payments[k].alloc[i]) \in Int
      BY <3>1, TotalType
    <3> QED BY <3>2 DEF RowTotals
  <2>1. \A k \in LiveKeys, i \in Installments : f[k][i] = Total(payments[k].alloc[i])
    BY DEF RowTotals
  <2>2. \A i \in Installments : cols[i] = SumFunctionOnSet(Column(f, LiveKeys, i), LiveKeys)
    <3> SUFFICES ASSUME NEW i \in Installments
                 PROVE  cols[i] = SumFunctionOnSet(Column(f, LiveKeys, i), LiveKeys)
      OBVIOUS
    <3>1. Column(f, LiveKeys, i) = [k \in LiveKeys |-> Total(payments[k].alloc[i])]
      BY <2>1 DEF Column
    <3>2. cols[i] = Total(paid[i])
      BY DEF RowTotals
    <3> QED BY <3>1, <3>2, RowCollected
  <2>3. \A k \in LiveKeys : rows[k] = SumFunctionOnSet(f[k], Installments)
    OBVIOUS
  <2>4. \A k \in LiveKeys : rows[k] \in Int
    BY <2>0, FiniteInstallments, SumType
  <2>5. \A k \in LiveKeys : /\ Swept[k] \in Int /\ Retained[k] \in Int /\ kept[k] \in Int
                            /\ kept[k] = Swept[k] + Retained[k]
    <3>1. \A k \in LiveKeys : payments[k].swept \in Nat /\ payments[k].retained \in Nat
      BY LiveTypes DEF Payments
    <3> QED BY <3>1 DEF Swept, Retained
  <2>6. \A k \in LiveKeys : Received[k] = rows[k] + kept[k]
    <3> SUFFICES ASSUME NEW k \in LiveKeys PROVE Received[k] = rows[k] + kept[k]
      OBVIOUS
    <3>1. k \in Keys /\ Used(k)
      BY DEF LiveKeys, Live
    <3>2. SumFunctionOnSet(RowTotals(payments[k].alloc), Installments) + payments[k].swept + payments[k].retained
            = payments[k].amount
      BY <3>1 DEF PaymentAccountedFor
    <3>3. /\ rows[k] = SumFunctionOnSet(RowTotals(payments[k].alloc), Installments)
          /\ Swept[k] = payments[k].swept /\ Retained[k] = payments[k].retained /\ Received[k] = payments[k].amount
      BY DEF Swept, Retained, Received
    <3> HIDE DEF rows
    <3> QED BY <2>4, <2>5, <3>2, <3>3
  <2> HIDE DEF f, rows, kept, cols
  <2>7. SumFunctionOnSet(rows, LiveKeys) = SumFunctionOnSet(cols, Installments)
    <3>1. IsFiniteSet(LiveKeys) /\ IsFiniteSet(Installments)
      BY FiniteInstallments DEF FewPayments
    <3> QED BY ONLY <2>0, <2>2, <2>3, <3>1, SumSwap
  <2>8. SumFunctionOnSet(kept, LiveKeys) = SumFunctionOnSet(Swept, LiveKeys) + SumFunctionOnSet(Retained, LiveKeys)
    BY <2>5, SumPlus DEF FewPayments
  <2>9. SumFunctionOnSet(Received, LiveKeys) = SumFunctionOnSet(rows, LiveKeys) + SumFunctionOnSet(kept, LiveKeys)
    BY <2>4, <2>5, <2>6, SumPlus DEF FewPayments
  <2>10. /\ SumFunctionOnSet(cols, Installments) \in Int
         /\ SumFunctionOnSet(Swept, LiveKeys) \in Int /\ SumFunctionOnSet(Retained, LiveKeys) \in Int
    <3>1. SumFunctionOnSet(rows, LiveKeys) \in Int
      BY <2>4, SumType DEF FewPayments
    <3> QED BY <2>5, <2>7, <3>1, SumType DEF FewPayments
  <2>11. SumFunctionOnSet(Received, LiveKeys)
           = SumFunctionOnSet(cols, Installments)
               + SumFunctionOnSet(Swept, LiveKeys) + SumFunctionOnSet(Retained, LiveKeys)
    BY <2>7, <2>8, <2>9, <2>10
  <2> QED BY <2>11 DEF MoneyAccountedFor, cols
<1>2. Spec => [](TypeOK /\ DatesAscend /\ FewPayments /\ PaidMatchesPayments /\ PaymentAccountedFor)
  <2>1. Init => TypeOK /\ DatesAscend /\ FewPayments /\ PaidMatchesPayments /\ PaymentAccountedFor
    BY InitType, InitPayments DEF Init, PaymentAccountedFor, Used
  <2>2. TypeOK /\ DatesAscend /\ FewPayments /\ PaidMatchesPayments /\ PaymentAccountedFor /\ [Next]_vars
          => (TypeOK /\ DatesAscend /\ FewPayments /\ PaidMatchesPayments /\ PaymentAccountedFor)'
    BY NextType, FewPaymentsStep, PaidMatchesPaymentsStep, PaymentAccountedForStep
  <2> QED BY <2>1, <2>2, PTL DEF Spec
<1> QED BY <1>1, <1>2, PTL
-----------------------------------------------------------------------------
(* The principal receivable.                                               *)

\* As reconcile-ledger derives it from the rows: principal due, less paid, less waived.
PrincipalOutstanding == [i \in Installments |-> due[i]["principal"] - paid[i]["principal"] - waived[i]["principal"]]

\* What the disbursement journal debits to the receivable, negated by the undo that deletes the rows.
ScheduledPrincipal == [i \in Installments |-> Schedule[i]["principal"]]
PrincipalLent == IF due = NoRows THEN 0 ELSE SumFunctionOnSet(ScheduledPrincipal, Installments)

PrincipalReconciles ==
  SumFunctionOnSet(PrincipalOutstanding, Installments)
    = PrincipalLent - SumFunctionOnSet(Collected("principal"), LiveKeys)

\* The rows stand with their principal, or are deleted and no late-fee job is left to write them.
RowsStand ==
  /\ \A i \in Installments : due[i]["principal"] = Schedule[i]["principal"]
  /\ \A i \in Installments, b \in Buckets : Schedule[i][b] <= due[i][b]
RowsDeleted == due = NoRows /\ job.kind # "penalty"
NoPrincipalWaived == \A i \in Installments : waived[i]["principal"] = 0

\* The rows with their principal, and the paid columns as the standing payments explain them.
RowsExplained ==
  /\ TypeOK
  /\ DatesAscend
  /\ FewPayments
  /\ PaidMatchesPayments
  /\ NoPrincipalWaived
  /\ RowsStand \/ RowsDeleted

\* A loan still serviced has its rows.
LEMMA ServicedHasRows ==
  ASSUME TypeOK, ServicedOwes, RowsStand \/ RowsDeleted, status \in Serviced
  PROVE  RowsStand
<1> SUFFICES ASSUME due = NoRows PROVE FALSE
  BY DEF RowsDeleted
<1>1. SumFunctionOnSet(Unpaid, Installments) > 0
  BY DEF ServicedOwes
<1>2. \A i \in Installments : /\ Unpaid[i] = Total(due[i]) - Total(paid[i])
                              /\ Total(paid[i]) \in Nat /\ Total(due[i]) = 0
  <2>1. \A i \in Installments : Total(due[i]) = 0
    BY DEF NoRows, Nothing, Total, Buckets
  <2> QED BY <2>1, UnpaidTypes
<1> DEFINE zero == [i \in Installments |-> 0]
<1>3. \A i \in Installments : Unpaid[i] \in Int /\ zero[i] \in Int /\ Unpaid[i] <= zero[i]
  BY <1>2
<1>4. \A i \in Installments : zero[i] = 0
  OBVIOUS
<1> HIDE DEF zero
<1>5. SumFunctionOnSet(Unpaid, Installments) <= SumFunctionOnSet(zero, Installments)
  BY <1>3, FiniteInstallments, SumAtMost
<1>6. SumFunctionOnSet(zero, Installments) = 0
  BY <1>4, FiniteInstallments, SumOfZeros
<1>7. SumFunctionOnSet(Unpaid, Installments) \in Int
  BY <1>3, FiniteInstallments, SumType
<1> QED BY <1>1, <1>5, <1>6, <1>7

LEMMA RowsStep ==
  ASSUME TypeOK, ServicedOwes, RowsStand \/ RowsDeleted, [Next]_vars
  PROVE  (RowsStand \/ RowsDeleted)'
<1>1. ASSUME due' = due, job' = job \/ job'.kind # "penalty"
      PROVE  (RowsStand \/ RowsDeleted)'
  BY <1>1 DEF RowsStand, RowsDeleted
<1>2. CASE RepaymentStep
  BY <1>1, <1>2, RepaymentKeeps
<1>3. CASE JobStep
  <2>1. CASE ScanPenalties
    <3>1. RowsStand /\ due' = due
      BY <2>1, ServicedHasRows DEF ScanPenalties, ScanRows, loanVars
    <3> QED BY <3>1 DEF RowsStand
  <2>2. ASSUME NEW i \in Installments, PostPenalty(i)
        PROVE  (RowsStand \/ RowsDeleted)'
    <3>1. job.kind = "penalty" /\ job.amounts[i] \in Nat
      BY <2>2, NextRowShrinks DEF PostPenalty
    <3>2. RowsStand
      BY <3>1 DEF RowsDeleted
    <3>3. /\ due \in [Installments -> [Buckets -> Nat]]
          /\ "penalties" \in Buckets /\ "principal" \in Buckets
      BY DEF TypeOK, Amounts, Buckets
    <3>4. \A j \in Installments : due'[j]["principal"] = due[j]["principal"]
      BY <2>2, <3>3 DEF PostPenalty
    <3>5. \A j \in Installments, b \in Buckets :
            /\ due'[j][b] = due[j][b] \/ due'[j][b] = due[j][b] + job.amounts[i]
            /\ due[j][b] \in Nat
      BY <2>2, <3>3 DEF PostPenalty
    <3>6. \A j \in Installments, b \in Buckets : Schedule[j][b] \in Nat
      BY ScheduleNat
    <3>7. \A j \in Installments, b \in Buckets : Schedule[j][b] <= due'[j][b]
      BY <3>1, <3>2, <3>5, <3>6 DEF RowsStand
    <3> QED BY <3>2, <3>4, <3>7 DEF RowsStand
  <2>3. ASSUME NEW i \in Installments, PostAccrual(i) \/ SkipRow(i)
        PROVE  (RowsStand \/ RowsDeleted)'
    <3>1. due' = due /\ job'.kind \in {"none", job.kind}
      BY <2>3, NextRowShrinks DEF PostAccrual, SkipRow, loanVars
    <3> QED BY <3>1 DEF RowsStand, RowsDeleted
  <2>4. CASE ScanInterest
    <3>1. due' = due /\ job' = [NoJob EXCEPT !.kind = "interest",
                                            !.amounts = [i \in Installments |-> AccruableInterest(i)]]
      BY <2>4 DEF ScanInterest, ScanRows, loanVars
    <3>2. job'.kind = "interest"
      BY <3>1 DEF NoJob
    <3> QED BY <1>1, <3>1, <3>2
  <2>5. CASE ScanArrears
    <3>1. due' = due /\ job'.kind = "arrears"
      BY <2>5 DEF ScanArrears, NoJob, loanVars
    <3> QED BY <1>1, <3>1
  <2>6. CASE CommitArrears \/ AbortJob
    <3>1. due' = due /\ job' = NoJob
      BY <2>6 DEF CommitArrears, AbortJob, loanVars
    <3> QED BY <1>1, <3>1 DEF NoJob
  <2> QED BY <1>3, <2>1, <2>2, <2>3, <2>4, <2>5, <2>6 DEF JobStep
<1>4. CASE ServiceStep
  <2>1. CASE UndoDisbursal
    BY <2>1 DEF UndoDisbursal, RowsDeleted, NoJob
  <2> QED BY <1>1, <1>4, <2>1 DEF ServiceStep, Prepay, Foreclose, SettleInFull, ReverseRepayment
<1>5. CASE SavingsStep \/ Tick \/ DateChangeStep \/ UNCHANGED vars
  BY <1>1, <1>5 DEF SavingsStep, Deposit, Withdraw, ApproveSavingsAccount, Tick, DateChangeStep,
                    StartDateChange, CommitDateChange, AbandonDateChange, vars, loanVars
<1> QED BY <1>2, <1>3, <1>4, <1>5 DEF Next

LEMMA NoPrincipalWaivedStep ==
  ASSUME TypeOK, NoPrincipalWaived, [Next]_vars
  PROVE  NoPrincipalWaived'
<1>1. ASSUME waived' = waived
      PROVE  NoPrincipalWaived'
  BY <1>1 DEF NoPrincipalWaived
<1>2. CASE ServiceStep
  <2>1. ASSUME NEW k \in Keys, NEW type, NEW day, NEW waivePenalties, SettleInFull(k, type, day, waivePenalties)
        PROVE  NoPrincipalWaived'
    <3>1. \A i \in Installments :
            waived'[i]["principal"] = waived[i]["principal"] + WaivedRow(i, day, waivePenalties)["principal"]
      BY <2>1 DEF SettleInFull, Buckets
    <3>2. \A i \in Installments : WaivedRow(i, day, waivePenalties)["principal"] = 0
      BY DEF WaivedRow, Buckets
    <3> QED BY <3>1, <3>2 DEF NoPrincipalWaived
  <2>2. CASE UndoDisbursal
    BY <2>2 DEF UndoDisbursal, NoRows, Nothing, NoPrincipalWaived, Buckets
  <2> QED BY <1>1, <1>2, <2>1, <2>2 DEF ServiceStep, Prepay, Foreclose, ReverseRepayment
<1>3. CASE RepaymentStep
  BY <1>1, <1>3, RepaymentKeeps
<1>4. CASE JobStep
  BY <1>1, <1>4 DEF JobStep, ScanInterest, ScanPenalties, ScanRows, ScanArrears, PostAccrual, PostPenalty,
                    SkipRow, CommitArrears, AbortJob, loanVars
<1>5. CASE SavingsStep \/ Tick \/ DateChangeStep \/ UNCHANGED vars
  BY <1>1, <1>5 DEF SavingsStep, Deposit, Withdraw, ApproveSavingsAccount, Tick, DateChangeStep,
                    StartDateChange, CommitDateChange, AbandonDateChange, vars, loanVars
<1> QED BY <1>2, <1>3, <1>4, <1>5 DEF Next

\* The comparison reconcile-ledger makes (3b), for a loan that runs its course in the program: the
\* receivable, debited by the disbursement and credited by every standing collection, is the principal
\* the rows still show as outstanding, also while an undo and late payments overtake each other.
THEOREM PrincipalAlwaysReconciles ==
  ASSUME SomethingLent
  PROVE  Spec => []PrincipalReconciles
<1>1. Spec => []ServicedOwes
  BY ServicedLoansOwe
<1>2. Init => RowsExplained
  <2> SUFFICES ASSUME Init PROVE NoPrincipalWaived /\ RowsStand
    BY InitType, InitPayments DEF RowsExplained
  <2>1. NoPrincipalWaived
    BY DEF Init, NoRows, Nothing, NoPrincipalWaived, Buckets
  <2>2. \A i \in Installments, b \in Buckets : due[i][b] = Schedule[i][b] /\ Schedule[i][b] \in Nat
    BY ScheduleNat DEF Init
  <2>3. RowsStand
    BY <2>2 DEF RowsStand, Buckets
  <2> QED BY <2>1, <2>3
<1>3. RowsExplained /\ ServicedOwes /\ [Next]_vars => RowsExplained'
  BY NextType, FewPaymentsStep, PaidMatchesPaymentsStep, NoPrincipalWaivedStep, RowsStep DEF RowsExplained
<1>4. RowsExplained => PrincipalReconciles
  <2> SUFFICES ASSUME RowsExplained PROVE PrincipalReconciles
    OBVIOUS
  <2> USE DEF RowsExplained
  <2> DEFINE owed == [i \in Installments |-> due[i]["principal"]]
             given == [i \in Installments |-> paid[i]["principal"]]
             open == PrincipalOutstanding
  <2>1. \A i \in Installments : owed[i] \in Int /\ given[i] \in Int /\ open[i] \in Int /\ owed[i] = open[i] + given[i]
    <3>1. \A i \in Installments : /\ due[i]["principal"] \in Int /\ paid[i]["principal"] \in Int
                                  /\ waived[i]["principal"] = 0
      BY DEF TypeOK, Amounts, Buckets, NoPrincipalWaived
    <3> QED BY <3>1 DEF PrincipalOutstanding
  <2>2. SumFunctionOnSet(Collected("principal"), LiveKeys) = SumFunctionOnSet(given, Installments)
    BY CollectedIsPaid DEF Buckets
  <2>3. SumFunctionOnSet(owed, Installments) = PrincipalLent
    <3>1. CASE RowsDeleted
      <4>1. \A i \in Installments : owed[i] = 0
        BY <3>1 DEF RowsDeleted, NoRows, Nothing, Buckets
      <4> HIDE DEF owed
      <4>2. SumFunctionOnSet(owed, Installments) = 0
        BY <4>1, FiniteInstallments, SumOfZeros
      <4> QED BY <3>1, <4>2 DEF RowsDeleted, PrincipalLent
    <3>2. CASE RowsStand
      <4>1. \A i \in Installments : owed[i] = ScheduledPrincipal[i]
        BY <3>2 DEF RowsStand, ScheduledPrincipal
      <4> HIDE DEF owed
      <4>2. SumFunctionOnSet(owed, Installments) = SumFunctionOnSet(ScheduledPrincipal, Installments)
        BY <4>1, FiniteInstallments, SumSame
      <4>3. due # NoRows
        <5> SUFFICES ASSUME due = NoRows PROVE FALSE
          OBVIOUS
        <5>1. \A i \in Installments, b \in Buckets : Schedule[i][b] = 0
          BY <3>2, ScheduleNat DEF RowsStand, NoRows, Nothing
        <5>2. \A i \in Installments : RowTotals(Schedule)[i] = 0
          BY <5>1 DEF RowTotals, Total, Buckets
        <5>3. SumFunctionOnSet(RowTotals(Schedule), Installments) = 0
          BY <5>2, FiniteInstallments, SumOfZeros
        <5> QED BY <5>3 DEF SomethingLent
      <4> QED BY <4>2, <4>3 DEF PrincipalLent
    <3> QED BY <3>1, <3>2
  <2> HIDE DEF owed, given, open
  <2>4. SumFunctionOnSet(owed, Installments) = SumFunctionOnSet(open, Installments) + SumFunctionOnSet(given, Installments)
    BY <2>1, FiniteInstallments, SumPlus
  <2>5. SumFunctionOnSet(open, Installments) \in Int /\ SumFunctionOnSet(given, Installments) \in Int
    BY <2>1, FiniteInstallments, SumType
  <2>6. SumFunctionOnSet(open, Installments) = PrincipalLent - SumFunctionOnSet(Collected("principal"), LiveKeys)
    BY <2>2, <2>3, <2>4, <2>5
  <2> QED BY <2>6 DEF PrincipalReconciles, open
<1> QED BY <1>1, <1>2, <1>3, <1>4, PTL DEF Spec
=============================================================================
