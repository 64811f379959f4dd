------------------------ MODULE RepaymentAllocation ------------------------
(***************************************************************************)
(* The repayment waterfall of lending/domain/repayment-allocation.ts: a    *)
(* payment walks the installments in due order and, inside an installment, *)
(* penalties, fees, monitoring fee, interest and principal in that order.  *)
(* What is left after the last installment is the overpayment.             *)
(*                                                                         *)
(* Amounts are minor units (bigint in the code, Int here).  Installments   *)
(* are numbered in the order the code sorts them in (due date, then        *)
(* installment number).                                                    *)
(***************************************************************************)
EXTENDS Integers

CONSTANT N  \* number of installments of the loan

ASSUME NAssumption == N \in Nat

Installments == 1 .. N

Buckets == {"penalties", "fees", "monitoringFee", "interest", "principal"}

Amounts == [Buckets -> Nat]

\* installmentDueMinor / installmentPaidMinor / installmentWaivedMinor: the five buckets of a row.
Total(row) == row["penalties"] + row["fees"] + row["monitoringFee"] + row["interest"] + row["principal"]

Max0(amount) == IF amount < 0 THEN 0 ELSE amount

Take(outstanding, available) ==
  IF outstanding <= 0 \/ available <= 0 THEN 0
  ELSE IF outstanding < available THEN outstanding ELSE available

\* One turn of the loop: what a payment with `available' left pays on one installment.
PayInstallment(owed, available) ==
  LET penalties     == Take(owed["penalties"], available)
      fees          == Take(owed["fees"], available - penalties)
      monitoringFee == Take(owed["monitoringFee"], available - penalties - fees)
      interest      == Take(owed["interest"], available - penalties - fees - monitoringFee)
      principal     == Take(owed["principal"], available - penalties - fees - monitoringFee - interest)
  IN  [b \in Buckets |->
         CASE b = "penalties"     -> penalties
           [] b = "fees"          -> fees
           [] b = "monitoringFee" -> monitoringFee
           [] b = "interest"      -> interest
           [] b = "principal"     -> principal]

\* `remaining' as the loop leaves it: rem[0] is the payment, rem[i] what is left after installment
\* i.  Exactly one function satisfies this; rem[N] is the overpayment.
Remainders(owed, payment) ==
  { rem \in [0 .. N -> 0 .. payment] :
      /\ rem[0] = payment
      /\ \A i \in Installments : rem[i] = rem[i - 1] - Total(PayInstallment(owed[i], rem[i - 1])) }

\* The mistake of not carrying the remainder from one installment to the next.
Allocation_WithoutCarry(owed, rem) == [i \in Installments |-> PayInstallment(owed[i], rem[0])]
Allocation(owed, rem) == [i \in Installments |-> PayInstallment(owed[i], rem[i - 1])]
=============================================================================
