-------------------------- MODULE MCScheduleBuilder --------------------------
(***************************************************************************)
(* Loans of up to 40 cents over up to four months, at monthly rates from   *)
(* 10 to 50 per cent: amounts so small that most installments are rounded; *)
(* one of them from the first and last days of every month of a year.      *)
(***************************************************************************)
EXTENDS ScheduleBuilder

Small  == [amount : 1..40, rate : {1}, per : {2, 4, 5}, tenor : 1..4]
          \cup [amount : 1..40, rate : {1}, per : {10}, tenor : 1..3]
Starts == {<<m, d>> \in (1..12) \X {1, 28, 29, 30, 31} : d <= DaysIn(m)}
On(t, m, d) == [amount |-> t.amount, rate |-> t.rate, per |-> t.per,
                tenor |-> t.tenor, month |-> m, day |-> d]

TermsDef == {On(t, 1, 31) : t \in Small}
            \cup {On([amount |-> 7, rate |-> 1, per |-> 2, tenor |-> 4], s[1], s[2])
                    : s \in Starts}
=============================================================================
