--------------------------- MODULE ScheduleBuilder ---------------------------
(***************************************************************************)
(* RepaymentScheduleBuilder.build: the loop that splits a loan into        *)
(* monthly installments of an annuity.  The code computes in floating      *)
(* point; the model is exact: the monthly rate is the fraction             *)
(* rate / per, and amounts are counted in the parts of a cent that make    *)
(* every step of the loop a whole number.  toFixed(2) rounds to the        *)
(* nearest cent; half a cent, which a floating point number misses on      *)
(* either side, may go either way.  A date is a month, counted from the    *)
(* January of the first year, and a day of it; every fourth year is a leap *)
(* year, the first of them the second.                                     *)
(***************************************************************************)
EXTENDS Integers, Sequences, Functions

CONSTANT Terms   \* what clients ask for: amount in cents, rate, per, tenor;
                 \* and the month and day of the disbursement

\* The days of a month.
DaysIn(month) ==
  CASE month % 48 = 14             -> 29
    [] month % 48 \in {2, 26, 38}  -> 28
    [] month % 12 \in {4, 6, 9, 11} -> 30
    [] OTHER                       -> 31

ASSUME TermsAssumption ==
  \A t \in Terms : /\ {t.amount, t.rate, t.per, t.tenor} \subseteq Nat \ {0}
                     /\ t.month \in 1..12 /\ t.day \in 1..DaysIn(t.month)

VARIABLES terms,      \* the terms of the loan
          remaining,  \* the principal not yet scheduled
          schedules   \* the installments pushed so far, in cents

builder == <<terms, remaining, schedules>>

Power(x, n) == LET power[k \in 0..n] == IF k = 0 THEN 1 ELSE x * power[k - 1]
               IN  power[n]

\* (1 + monthlyRate)^tenor is Growth / Unit.
Growth(t) == Power(t.per + t.rate, t.tenor)
Unit(t)   == Power(t.per, t.tenor)
Parts(t)  == (Growth(t) - Unit(t)) * Unit(t)   \* of a cent

\* AmortizationCalculator.monthlyPayment.
PaymentWithoutInterest(t) == (t.amount * Parts(t)) \div t.tenor   \* mutant
MonthlyPayment(t) ==
  (t.amount * t.rate * Growth(t) * Unit(t)) \div t.per

InterestOnAmount(t, rest) ==   \* mutant: interest is not reducing
  (t.amount * Parts(t) * t.rate) \div t.per
Interest(t, rest) == (rest * t.rate) \div t.per

\* The cents toFixed(2) may give for x.
RoundedUp(t, x) == {(x + Parts(t) - 1) \div Parts(t)}   \* mutant
ToFixed(t, x) ==
  {(2 * x + Parts(t)) \div (2 * Parts(t)), (2 * x + Parts(t) - 1) \div (2 * Parts(t))}

NotNegative(x) == IF x < 0 THEN 0 ELSE x

\* dueDate.setMonth keeps the day of the month; a day that month does not have
\* runs over into the next one.  DueDate(t, 0) is the day of the disbursement.
DueDateFromZero(t, i) ==   \* mutant: counts from 0
  LET month == t.month + i - 1 IN
  IF t.day <= DaysIn(month) THEN [month |-> month, day |-> t.day]
  ELSE [month |-> month + 1, day |-> t.day - DaysIn(month)]
DueDate(t, i) ==
  LET month == t.month + i IN
  IF t.day <= DaysIn(month) THEN [month |-> month, day |-> t.day]
  ELSE [month |-> month + 1, day |-> t.day - DaysIn(month)]

BuilderInit ==
  /\ terms \in Terms
  /\ remaining = terms.amount * Parts(terms)
  /\ schedules = <<>>

\* One turn of the loop.
Push ==
  LET interest         == Interest(terms, remaining)
      principalPortion == MonthlyPayment(terms) - interest
  IN
  /\ Len(schedules) < terms.tenor
  /\ remaining' = NotNegative(remaining - principalPortion)
  /\ \E i \in ToFixed(terms, interest), p \in ToFixed(terms, principalPortion) :
       schedules' = Append(schedules,
         [due |-> DueDate(terms, Len(schedules) + 1), interest |-> i, principal |-> p])
  /\ UNCHANGED terms

BuilderSpec == BuilderInit /\ [][Push]_builder

-----------------------------------------------------------------------------
Done == Len(schedules) = terms.tenor

Distance(x, y) == IF x < y THEN y - x ELSE x - y

\* The installments of a loan miss its amount by at most half a cent each:
\* what processPayment can never collect, or collects too much, is bounded.
PrincipalNearAmount ==
  LET sum == SumFunction([i \in DOMAIN schedules |-> schedules[i].principal])
  IN  Done => 2 * Distance(sum, terms.amount) <= terms.tenor

\* The last installment repays what is left, exactly.
RepaidAtTheEnd == Done => remaining = 0

\* What a borrower pays is the monthly payment, to the cent, every month.
LevelInstallments ==
  \A i \in DOMAIN schedules :
    Distance((schedules[i].principal + schedules[i].interest) * Parts(terms),
             MonthlyPayment(terms)) <= Parts(terms)

\* Interest never rises and principal never falls from month to month, also
\* after rounding: no installment eats into the principal already scheduled.
InterestFalls ==
  \A i \in 2..Len(schedules) :
    /\ schedules[i].interest <= schedules[i - 1].interest
    /\ schedules[i].principal >= schedules[i - 1].principal

Earlier(d, e) == \/ d.month < e.month
                 \/ d.month = e.month /\ d.day < e.day

\* Installments fall due one after the other, the first after the disbursement,
\* whatever day a loan starts on: processPayment serves them by their number as
\* the oldest first.  A date that runs over may share the month with the next
\* one, and leave its own empty, as March and February do for a loan of the
\* 31st; but no month has three, and never are two without any.
DueInOrder ==
  LET due(i) == IF i = 0 THEN [month |-> terms.month, day |-> terms.day]
                         ELSE schedules[i].due
  IN  \A i \in DOMAIN schedules :
        /\ Earlier(due(i - 1), due(i))
        /\ due(i).month - due(i - 1).month \in 0..2
        /\ i > 1 => due(i - 2).month < due(i).month
=============================================================================
