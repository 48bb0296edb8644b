---------------------------- MODULE BillingCycle ----------------------------
(***************************************************************************)
(* The billing calendar and the installment plan: pure functions, checked  *)
(* against what they are for.  A date is <<month, day>> with months        *)
(* numbered through the years (year * 12 + month index), and it is         *)
(* compared as the code compares its YYYY-MM-DD strings.  Money is in      *)
(* cents, the rate in hundredths of a percent per month.                   *)
(***************************************************************************)
EXTENDS Integers, FiniteSetsExt

CONSTANTS
  CalendarFrom, CalendarTo,   \* dates are of the months between
  DueDays,       \* payment days of a credit card
  Principals,    \* financed amounts, in tenths of a cent
  Rates,
  TermCounts

VARIABLE cycle   \* the case being computed

NoCase == [kind |-> "none"]
None == <<0, 0>>   \* null where a date may be

ASSUME CalendarAssumption ==
  CalendarFrom \in Nat \ {0} /\ CalendarTo \in Nat /\ CalendarFrom <= CalendarTo
ASSUME DueDaysAssumption == \A due \in DueDays : due \in 1..31
ASSUME LoanAssumption ==
  /\ \A p \in Principals : p \in Nat /\ p > 0
  /\ \A r \in Rates : r \in Nat /\ r <= 10000
  /\ \A n \in TermCounts : n \in Nat /\ n > 0

---------------------------------------------------------------------------
(* CalendarDates *)

LeapYear(y) == y % 4 = 0 /\ (y % 100 # 0 \/ y % 400 = 0)
DaysIn(m) == CASE m % 12 = 1 -> IF LeapYear(m \div 12) THEN 29 ELSE 28
               [] m % 12 \in {3, 5, 8, 10} -> 30
               [] OTHER -> 31

CalendarDates == UNION {{m} \X (1..DaysIn(m)) : m \in CalendarFrom..CalendarTo}
Later(d, e) == d[1] > e[1] \/ (d[1] = e[1] /\ d[2] > e[2])

(* Mutant: the day overflows into the next month, as Date.setMonth does.   *)
ClampDayRollsOver(m, day) ==
  IF day > DaysIn(m) THEN <<m + 1, day - DaysIn(m)>> ELSE <<m, day>>

ClampDay(m, day) == <<m, IF day > DaysIn(m) THEN DaysIn(m) ELSE day>>

AddBillingMonth(date, months) == ClampDay(date[1] + months, date[2])

NextMonthlyOccurrence(start, end, today) ==
  LET months == today[1] - start[1]
      candidate == IF Later(start, today) THEN start
                   ELSE IF Later(today, AddBillingMonth(start, months))
                        THEN AddBillingMonth(start, months + 1)
                        ELSE AddBillingMonth(start, months)
  IN IF end # None /\ Later(candidate, end) THEN None ELSE candidate

CalculateFirstDueDate(date, cutoffDay, paymentDueDay) ==
  LET cutoff == ClampDay(date[1], cutoffDay)
  IN ClampDay(date[1] + (IF Later(date, cutoff) THEN 2 ELSE 1), paymentDueDay)

---------------------------------------------------------------------------
(* Money *)

(* n / d rounded half up.                                                  *)
ToMoney(n, d) == (2 * n + d) \div (2 * d)

ComputeFinalMonthlyAmount(grandTotal, monthly, months) == grandTotal - monthly * (months - 1)

(* Every amount is rounded to the cent, once; the interest is computed     *)
(* from the amount before rounding.                                        *)
ComputeInstallmentPlan(principal, rate, months) ==
  LET total == ToMoney(principal, 10)
      grand == total + ToMoney(principal * rate * months, 100000)
      monthly == ToMoney(grand, months)
  IN [total |-> total, grand |-> grand, monthly |-> monthly,
      final |-> ComputeFinalMonthlyAmount(grand, monthly, months)]

---------------------------------------------------------------------------
CycleInit == cycle = NoCase

Recur == \E d \in CalendarDates : cycle' = [kind |-> "recur", start |-> d]
Charge == \E c \in 1..31, due \in DueDays :
            cycle' = [kind |-> "charge", cutoff |-> c, due |-> due]
Finance == \E p \in Principals, r \in Rates, n \in TermCounts :
             cycle' = [kind |-> "finance", principal |-> p, rate |-> r, months |-> n]
CycleNext == cycle = NoCase /\ (Recur \/ Charge \/ Finance)

CycleSpec == CycleInit /\ [][CycleNext]_cycle

---------------------------------------------------------------------------
(* What the calendar and the plan are for *)

Span == 0..(CalendarTo - CalendarFrom + 1)   \* months ahead

(* The occurrence shown for a day is the first of the template's own       *)
(* monthly dates that is not past, and none once the end has passed it: no *)
(* month is skipped where a day is clamped, and none is shown twice.       *)
NextIsFirst(start, end, today) ==
  LET next == NextMonthlyOccurrence(start, end, today)
      left == {d \in {AddBillingMonth(start, k) : k \in Span} :
                 ~Later(today, d) /\ (end = None \/ ~Later(d, end))}
  IN IF next = None THEN left = {} ELSE next \in left /\ \A d \in left : ~Later(next, d)

(* Advancing one month at a time from a stored due date never runs ahead   *)
(* of that schedule nor leaves its month, and falls behind only after a    *)
(* month too short for its day.                                            *)
StepsStayBehind(start) ==
  LET step[k \in Span] == IF k = 0 THEN start ELSE AddBillingMonth(step[k - 1], 1)
  IN \A k \in Span :
       /\ step[k][1] = start[1] + k /\ ~Later(step[k], AddBillingMonth(start, k))
       /\ step[k] # AddBillingMonth(start, k)
            => \E j \in 1..(k - 1) : DaysIn(start[1] + j) < start[2]

OccurrencesFollow(start) ==
  /\ \A today \in CalendarDates : \A end \in {None, start, today, <<today[1] + 1, 1>>} :
       NextIsFirst(start, end, today)
  /\ StepsStayBehind(start)

(* A purchase is due in the month after the statement it falls on closes:  *)
(* the first clamped cutoff that is not before it.  It is due after it was *)
(* made, and no purchase is due before an earlier one.                     *)
Closing(d, cutoff) ==
  CHOOSE m \in {d[1], d[1] + 1} :
    /\ ~Later(d, ClampDay(m, cutoff))
    /\ m = d[1] \/ Later(d, ClampDay(m - 1, cutoff))

ChargesFallDue(cutoff, payday) ==
  LET due(d) == CalculateFirstDueDate(d, cutoff, payday)
  IN \A d \in CalendarDates :
       /\ due(d) = ClampDay(Closing(d, cutoff) + 1, payday) /\ Later(due(d), d)
       /\ \A e \in CalendarDates : Later(e, d) => ~Later(due(d), due(e))

(* The last term takes what rounding left over.  It differs from the       *)
(* others by at most half a cent for every term, and unless the total is   *)
(* only a few cents a term it is an amount a payment may have: positive.   *)
PlanAddsUp(principal, rate, months) ==
  LET p == ComputeInstallmentPlan(principal, rate, months)
      gap == p.final - p.monthly
  IN /\ 2 * gap <= months /\ -2 * gap <= months
     /\ 2 * p.grand > months * (months - 1) => p.final > 0

(* SchedulesAddUp: the calendar and the plan of an installment agree with  *)
(* the schedule the user was promised, for every date of the months given. *)
SchedulesAddUp ==
  CASE cycle.kind = "recur" -> OccurrencesFollow(cycle.start)
    [] cycle.kind = "charge" -> ChargesFallDue(cycle.cutoff, cycle.due)
    [] cycle.kind = "finance" -> PlanAddsUp(cycle.principal, cycle.rate, cycle.months)
    [] OTHER -> TRUE
=============================================================================
