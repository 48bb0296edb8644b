SPECIFICATION Spec
CONSTANTS
  Calls = {q1, q2}
  Terms = 2
  Monthly = 3
  Final = 4
  TemplateAmount = 2
  Funds = 9
  MonthLength = 2
  Lead = 1
  Horizon = 3
  Creations <- MCCreations
  Updates <- MCUpdates
  Editors = {e1, e2}
  Amounts = {0, 1, 2}
  Merchants = {m1, m2}
  Mappings = {i1, i2, i3}
  MaxArchivals = 3
  Users = {u1, u2}
  Identities = {t1}
  Buttons = {b1, b2}
  Cancels = {b2}
  Presses = {p1, p2}
  MaxCallFaults = 1
  CalendarFrom = 24335
  CalendarTo = 24339
  DueDays = {1, 15, 29, 30, 31}
  Principals = {1, 5, 994, 995, 1005, 8000, 3333, 1234}
  Rates = {0, 1, 50, 295, 10000}
  TermCounts = {1, 2, 3, 6, 12}
  MonthDays <- MCMonthDays
  LastMonth = 9
  Spans = {2, 3}
  DailyMax = 4
  CustomMax = 5
  CustomDays = {7, 8, 10, 13}
  SparklineDays = 3
  CreatedAt = {0, 26, 27}
  PageMax = 2
  Entries <- MCEntries
  Others <- MCOthers
  Nows <- MCNows
  AuditedWallets = {"w1", "w2"}
  Nowhere = "none"
  History <- MCHistory
  Openings = {0, 5}
  Overrides <- MCOverrides
SYMMETRY Symmetry
INVARIANTS
  ButtonsTellTheTruth
  ServicesTypeOK
  MoneyFollowsRecords
  TermsFollowPayments
  TemplateStaysUsable
  RecordsAgree
  SchedulesAddUp
  ReportsAgree
  RepairsNeedProof
CHECK_DEADLOCK FALSE
