------------------------------ MODULE Reporting ------------------------------
(***************************************************************************)
(* The reads: summaries, analytics, budgets' usage, the drill-down's pages,*)
(* the wallet sparkline and the Assistant's monthly summary, over the same *)
(* transactions.                                                           *)
(*                                                                         *)
(* An instant is two ticks of a day of the reporting timezone: its         *)
(* midnight, where a date without a time falls, and its noon.  The         *)
(* calendar is a small one: a year of short months of unequal length.      *)
(***************************************************************************)
EXTENDS Integers, Sequences, FiniteSets, Functions, SequencesExt, Ordering

CONSTANTS
  MonthDays,       \* days of each month of a year, in order
  LastMonth,       \* months are 0..LastMonth
  Spans,           \* months of the last-N-months periods (the code's 3 and 6)
  DailyMax,        \* DAILY_BUCKET_MAX_DAYS
  CustomMax,       \* MAX_CUSTOM_RANGE_DAYS
  CustomDays,      \* the days a custom period may start or end on
  SparklineDays,   \* SPARKLINE_DAYS
  CreatedAt,       \* when a wallet may have been created
  PageMax,         \* MAX_TRANSACTIONS_LIMIT
  Entries,         \* the transactions that may be booked, with the others below
  Others,          \* sets of transactions booked beside it
  Nows             \* when the reports are asked for

VARIABLES books, now
reportVars == <<books, now>>

Uncategorized == "none"
Wallets == {"bank", "card"}
Categories == {"food", "fun"}
Opening == [bank |-> 5, card |-> -5]   \* a debt is a negative balance
Types == {"INCOME", "EXPENSE", "TRANSFER"}

(* A transaction.  An installment's purchase stores the monthly amount,    *)
(* while lock, its grand total, is what the wallet was charged; elsewhere  *)
(* the two are equal.  id orders the rows of one date.                     *)
Row(id, type, amount, lock, wallet, to, category, date) ==
  [id |-> id, type |-> type, amount |-> amount, lock |-> lock, wallet |-> wallet,
   to |-> to, category |-> category, date |-> date]

ASSUME ReportingAssumption ==
  /\ MonthDays \in Seq(Nat \ {0}) /\ Len(MonthDays) > 0
  /\ LastMonth \in Nat /\ DailyMax \in Nat /\ CustomMax \in Nat
  /\ SparklineDays \in Nat \ {0} /\ PageMax \in Nat \ {0} /\ CreatedAt \subseteq Int
  /\ \A n \in Spans : n \in Nat /\ n > 0

(* What is booked together: a few rows of the two wallets, whose amounts   *)
(* are not negative, each with an id of its own.                           *)
Bookable(rows) ==
  /\ IsFiniteSet(rows)
  /\ \A x \in rows : /\ x.type \in Types /\ x.wallet \in Wallets
                     /\ x.amount \in Nat /\ x.lock \in Nat /\ x.amount <= x.lock
                     /\ x.date \in Int /\ x.id \in Int
  /\ \A x, y \in rows : x.id = y.id => x = y
ASSUME RowsAssumption == \A e \in Entries, others \in Others : Bookable({e} \cup others)

SumOf(S) == SumFunction([x \in S |-> x.amount])
OfType(S, type) == {x \in S : x.type = type}
Flows(S) == OfType(S, "INCOME") \cup OfType(S, "EXPENSE")

---------------------------------------------------------------------------
(* The reporting calendar *)

YearMonths == Len(MonthDays)
StartDay[m \in 0..LastMonth] ==
  IF m = 0 THEN 0 ELSE StartDay[m - 1] + MonthDays[((m - 1) % YearMonths) + 1]
DayOf(t) == t \div 2
Midnight(d) == 2 * d
MonthOfDay(d) == CHOOSE m \in 0..LastMonth :
                   StartDay[m] <= d /\ (m = LastMonth \/ d < StartDay[m + 1])
MonthOf(t) == MonthOfDay(DayOf(t))

(* The code's calendar has no ends; this one goes as far back and ahead as *)
(* a report asked for at t looks.                                          *)
Reaches(t) ==
  LET month == MonthOf(t)
      year == month \div YearMonths
  IN /\ t \in Nat /\ DayOf(t) < StartDay[LastMonth]
     /\ month >= 2 /\ year >= 1 /\ year * YearMonths + YearMonths <= LastMonth
     /\ \A n \in Spans : month - 2 * n + 1 >= 0
ASSUME CalendarReaches ==
  /\ \A t \in Nows : Reaches(t)
  /\ \A d \in CustomDays : d \in Nat /\ d < StartDay[LastMonth]

Between(from, to) == [from |-> from, to |-> to]
In(S, r) == {x \in S : r.from <= x.date /\ x.date < r.to}
DaysOf(r) == (r.to - r.from) \div 2

DayRange(d) == Between(Midnight(d), Midnight(d + 1))
MonthRange(m) == Between(Midnight(StartDay[m]), Midnight(StartDay[m + 1]))
MonthsRange(m, n) == Between(MonthRange(m - (n - 1)).from, MonthRange(m).to)
YearRange(y) == Between(MonthRange(y * YearMonths).from,
                      MonthRange(y * YearMonths + YearMonths - 1).to)
RollingDays(t, n) == [i \in 1..n |-> DayRange(DayOf(t) + i - n)]

---------------------------------------------------------------------------
(* Analytics periods *)

Refused == [ok |-> FALSE]
Resolved(r, previous) == [ok |-> TRUE, range |-> r, previous |-> previous]

(* Mutant: the day before the range is taken for the previous range's end. *)
EqualLengthPreviousOffByOne(r) == Between(r.from - (r.to - r.from), r.from - 2)

EqualLengthPrevious(r) == Between(r.from - (r.to - r.from), r.from)

(* The previous period of the same kind; both bounds of a custom period    *)
(* are days inside it.                                                     *)
ResolvePeriod(p, t) ==
  LET current == MonthOf(t)
      year == current \div YearMonths
      custom == Between(DayRange(p.first).from, DayRange(p.last).to)
  IN CASE p.name = "current-month" -> Resolved(MonthRange(current), MonthRange(current - 1))
       [] p.name = "previous-month" ->
            Resolved(MonthRange(current - 1), MonthRange(current - 2))
       [] p.name = "last-months" ->
            Resolved(MonthsRange(current, p.n), MonthsRange(current - p.n, p.n))
       [] p.name = "current-year" -> Resolved(YearRange(year), YearRange(year - 1))
       [] p.name = "custom" ->
            IF p.first > p.last \/ DaysOf(custom) > CustomMax THEN Refused
            ELSE Resolved(custom, EqualLengthPrevious(custom))

Granularity(r) == IF DaysOf(r) <= DailyMax THEN "day" ELSE "month"

Clip(b, r) == Between(IF b.from < r.from THEN r.from ELSE b.from,
                    IF b.to > r.to THEN r.to ELSE b.to)

(* The units that start before the range's end, from the one that holds    *)
(* its start, each clipped to the range.                                   *)
TrendBuckets(r) ==
  LET unit(t) == IF Granularity(r) = "day" THEN DayOf(t) ELSE MonthOf(t)
      span(u) == IF Granularity(r) = "day" THEN DayRange(u) ELSE MonthRange(u)
      first == unit(r.from)
  IN [i \in 1..(unit(r.to - 1) - first + 1) |-> Clip(span(first + i - 1), r)]

---------------------------------------------------------------------------
(* Reports over a range *)

Overview(S, r) == [income |-> SumOf(OfType(In(S, r), "INCOME")),
                   expense |-> SumOf(OfType(In(S, r), "EXPENSE")),
                   count |-> Cardinality(Flows(In(S, r)))]

(* One pass over the rows by date: each goes to the first bucket that ends *)
(* after it, and is skipped when that one starts after it.                 *)
BucketOf(b, x) == CHOOSE i \in DOMAIN b : /\ x.date < b[i].to \/ i = Len(b)
                                          /\ \A j \in 1..(i - 1) : x.date >= b[j].to
Counted(S, b, i) == {x \in S : BucketOf(b, x) = i /\ x.date >= b[i].from /\ x.date < b[i].to}
Trends(S, r) ==
  LET b == TrendBuckets(r)
      counted(i) == Counted(Flows(In(S, r)), b, i)
  IN [i \in DOMAIN b |-> [income |-> SumOf(OfType(counted(i), "INCOME")),
                          expense |-> SumOf(OfType(counted(i), "EXPENSE"))]]

WalletBreakdown(S, r) == [w \in Wallets |-> Overview({x \in S : x.wallet = w}, r)]

CategoryBreakdown(S, r, type) ==
  [c \in {x.category : x \in OfType(In(S, r), type)} |->
     SumOf({x \in OfType(In(S, r), type) : x.category = c})]
CategoryTotal(S, r, type) == SumFunction(CategoryBreakdown(S, r, type))

(* The listing, newest first.                                              *)
Newer(S) ==
  {p \in S \X S : p[1].date > p[2].date \/ (p[1].date = p[2].date /\ p[1].id > p[2].id)}
Listing(S, r) == InOrder(In(S, r), Newer(S))
Page(list, page, limit) ==
  SubSeq(list, (page - 1) * limit + 1,
         IF page * limit > Len(list) THEN Len(list) ELSE page * limit)
TotalPages(list, limit) ==
  LET n == (Len(list) + limit - 1) \div limit IN IF n < 1 THEN 1 ELSE n

MonthSummary(S, m) == Overview(S, MonthRange(m))

---------------------------------------------------------------------------
(* Budgets *)

Spent(S, category, m) ==
  SumOf({x \in OfType(In(S, MonthRange(m)), "EXPENSE") : x.category = category})
SpentByCategory(S, cs, m) ==
  LET rows == {x \in OfType(In(S, MonthRange(m)), "EXPENSE") : x.category \in cs}
      sums == [c \in {x.category : x \in rows} |-> SumOf({x \in rows : x.category = c})]
  IN [c \in cs |-> IF c \in DOMAIN sums THEN sums[c] ELSE 0]

---------------------------------------------------------------------------
(* Balances and the sparkline *)

(* getWalletReportingEffect: what a transaction did to a wallet.           *)
WalletEffect(x, w) ==
  CASE x.type = "INCOME" -> IF x.wallet = w THEN x.lock ELSE 0
    [] x.type = "EXPENSE" -> IF x.wallet = w THEN -x.lock ELSE 0
    [] x.type = "TRANSFER" -> IF x.wallet = w THEN -x.lock
                              ELSE IF x.to = w THEN x.lock ELSE 0
EffectOn(w, S) == SumFunction([x \in S |-> WalletEffect(x, w)])

(* The stored balance.  Every transaction is applied when it is booked,    *)
(* whatever its date.                                                      *)
Balance(w) == Opening[w] + EffectOn(w, books)

(* From the stored balance back through the rows of the last days: a day   *)
(* closes at its end, today at the time of asking.                         *)
Closes(w, t) ==
  LET days == RollingDays(t, SparklineDays)
      rows == {x \in books : days[1].from <= x.date /\ x.date < days[SparklineDays].to}
      undone(i) == IF i = SparklineDays THEN {x \in rows : x.date > t}
                   ELSE {x \in rows : x.date >= days[i].to}
  IN [i \in DOMAIN days |-> Balance(w) - EffectOn(w, undone(i))]

(* A day that ended before the wallet was created has no point. *)
NoPoint == [null |-> TRUE]
Sparkline(w, created, t) ==
  LET days == RollingDays(t, SparklineDays)
  IN [i \in DOMAIN days |-> IF days[i].to <= created THEN NoPoint
                            ELSE [balance |-> Closes(w, t)[i]]]

(* A debt is counted by its absolute value.                                *)
NetWorth == Balance("bank") - (IF Balance("card") < 0 THEN -Balance("card") ELSE Balance("card"))

---------------------------------------------------------------------------
(* The Assistant's monthly summary *)

(* handleMonthlySpendingSummary: totals of the month, and its categories   *)
(* asked for as a custom period that ends on the range's exclusive end.    *)
MonthlySummary(S, m) ==
  LET r == MonthRange(m)
      p == ResolvePeriod([name |-> "custom", first |-> DayOf(r.from), last |-> DayOf(r.to)], r.from)
  IN [totals |-> MonthSummary(S, m),
      topCategories |-> CategoryBreakdown(S, p.range, "EXPENSE")]

---------------------------------------------------------------------------
(* What the reports owe to one another *)

Periods == {[name |-> n] : n \in {"current-month", "previous-month", "current-year"}}
             \cup [name : {"last-months"}, n : Spans]
             \cup [name : {"custom"}, first : CustomDays, last : CustomDays]

(* The period before touches the period, the buckets cut it without gap or *)
(* overlap, and a custom period is compared with as many days, which the   *)
(* others are not (PreviousIsAsLong below).                                *)
RangesFit(p, r, previous) ==
  LET b == TrendBuckets(r)
  IN /\ previous.to = r.from /\ previous.from < previous.to
     /\ p.name = "custom" => DaysOf(previous) = DaysOf(r)
     /\ b[1].from = r.from /\ b[Len(b)].to = r.to
     /\ \A i \in DOMAIN b : /\ b[i].from < b[i].to
                            /\ i < Len(b) => b[i].to = b[i + 1].from

(* The same flows, cut by time, by wallet, by category and by page, add up *)
(* to the overview.                                                        *)
CutsAddUp(r) ==
  LET all == Overview(books, r)
      trend == Trends(books, r)
      wallets == WalletBreakdown(books, r)
      list == Listing(books, r)
  IN /\ \A f \in {"income", "expense"} : SumFunction([i \in DOMAIN trend |-> trend[i][f]]) = all[f]
     /\ \A f \in {"income", "expense", "count"} :
          SumFunction([w \in Wallets |-> wallets[w][f]]) = all[f]
     /\ CategoryTotal(books, r, "INCOME") = all.income
     /\ CategoryTotal(books, r, "EXPENSE") = all.expense
     /\ Cardinality({i \in DOMAIN list : list[i].type # "TRANSFER"}) = all.count
     /\ \A limit \in 1..PageMax :
          FlattenSeq([k \in 1..TotalPages(list, limit) |-> Page(list, k, limit)]) = list

(* A category's usage of its budget is what the analytics of the current   *)
(* month say was spent on it, read alone or with the other budgets.        *)
BudgetsAgree(t) ==
  LET month == MonthOf(t)
      current == ResolvePeriod([name |-> "current-month"], t).range
      expenses == CategoryBreakdown(books, current, "EXPENSE")
  IN \A c \in Categories :
       /\ Spent(books, c, month) = SpentByCategory(books, Categories, month)[c]
       /\ Spent(books, c, month) = IF c \in DOMAIN expenses THEN expenses[c] ELSE 0

(* From one close to the next, a balance changes by what is dated in       *)
(* between; and where nothing is dated after today, a close is the opening *)
(* balance and everything dated before it (where something is, it need not *)
(* be: FutureIsReversedOut below).  The net worth is what the              *)
(* wallets hold unless a card is overpaid, whose surplus is then counted   *)
(* as a debt.                                                              *)
Closed(days, t, i) == {x \in books : IF i = Len(days) THEN x.date <= t ELSE x.date < days[i].to}
BalancesAgree(t) ==
  LET days == RollingDays(t, SparklineDays)
      beyond == {x \in books : x.date >= days[SparklineDays].to}
  IN /\ \A w \in Wallets, created \in CreatedAt :
          LET points == Sparkline(w, created, t)
          IN \A i \in DOMAIN days :
               /\ beyond = {} => points[i] \in
                    {NoPoint, [balance |-> Opening[w] + EffectOn(w, Closed(days, t, i))]}
               /\ points[i] # NoPoint => \A j \in (i + 1)..SparklineDays :
                    points[j].balance = points[i].balance
                      + EffectOn(w, Closed(days, t, j) \ Closed(days, t, i))
               /\ points[i] = NoPoint <=> days[i].to <= created
     /\ NetWorth = Balance("bank") + Balance("card") <=> Balance("card") <= 0

(* ReportsAgree: every report of the same period tells the same story.     *)
ReportsAgree ==
  books # {} =>
    /\ \A p \in Periods :
         LET found == ResolvePeriod(p, now)
         IN found.ok => RangesFit(p, found.range, found.previous) /\ CutsAddUp(found.range)
    /\ BudgetsAgree(now) /\ BalancesAgree(now)

(* MonthlySummaryCoversItsMonth: the Assistant's top categories are those  *)
(* of the month they are shown under, as the handler's comment says.       *)
MonthlySummaryCoversItsMonth ==
  \A m \in 1..(LastMonth - 1) :
    LET summary == MonthlySummary(books, m)
    IN SumFunction(summary.topCategories) = summary.totals.expense

(* PreviousIsAsLong, which it is for custom periods only: "'Previous       *)
(* period' is always an immediately preceding, equal-duration range"       *)
(* (domain/analyticsPeriod.ts:9).  A month is compared with the month      *)
(* before, whatever their lengths.                                         *)
PreviousIsAsLong ==
  \A p \in Periods :
    LET found == ResolvePeriod(p, now)
    IN books # {} /\ found.ok => DaysOf(found.previous) = DaysOf(found.range)

(* FutureIsReversedOut, which is so for the rest of today only: "effects   *)
(* dated in the future (after `now`) are reversed out of the current       *)
(* balance" (wallet-query.service.ts:82).  The rows are read up to the end *)
(* of today, and later ones stay in every point.                           *)
FutureIsReversedOut ==
  LET days == RollingDays(now, SparklineDays)
  IN books # {} =>
       \A w \in Wallets, created \in CreatedAt : \A i \in DOMAIN days :
         Sparkline(w, created, now)[i] \in
           {NoPoint, [balance |-> Opening[w] + EffectOn(w, Closed(days, now, i))]}

---------------------------------------------------------------------------
ReportingInit == books = {} /\ now = 0

BookEntry == \E x \in Entries, others \in Others, t \in Nows :
               books' = {x} \cup others /\ now' = t
ReportingNext == books = {} /\ BookEntry

ReportingSpec == ReportingInit /\ [][ReportingNext]_reportVars
=============================================================================
