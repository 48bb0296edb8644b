SPECIFICATION ReportingSpec
CONSTANTS
  MonthDays <- MCMonthDays
  LastMonth = 9
  Spans = {2, 3}
  DailyMax = 4
  CustomMax = 5
  CustomDays = {7, 8, 10, 13}
  SparklineDays = 3
  CreatedAt = {0, 26, 27}
  PageMax = 2
  Entries <- MCEntries
  Others <- MCOthers
  Nows <- MCNows
INVARIANT MonthlySummaryCoversItsMonth
CHECK_DEADLOCK FALSE
