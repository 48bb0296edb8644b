-------------------------- MODULE ScheduledPayments --------------------------
(***************************************************************************)
(* What falls due every month: one installment and its payments, one       *)
(* recurring template, and the reminders the engine derives from both,     *)
(* with the confirmation that turns a reminder into a transaction.         *)
(*                                                                         *)
(* Every operation is an HTTP request that reads first and writes later:   *)
(* its checks and the values it writes come from the first read, so two    *)
(* requests can overlap.  Days are numbers and every month has             *)
(* MonthLength days; the calendar itself is modelled in BillingCycle.      *)
(***************************************************************************)
EXTENDS Integers, FiniteSets, FiniteSetsExt

CONSTANTS
  Calls,            \* requests served at a time; each serves one after another
  Terms,            \* number of terms of the installment
  Monthly, Final,   \* amount of every term but the last, and of the last
  TemplateAmount,   \* amount of the recurring transaction
  Funds,            \* opening balance of the paying wallet
  MonthLength,      \* days of a month
  Lead,             \* days between an installment's reminder and its due date
  Horizon,          \* last day
  Creations, Updates   \* what requests about the template bring

VARIABLES
  today,
  bill,      \* the installment
  template,  \* the recurring transaction template
  events,    \* recurring_reminder_events, by their unique keys
  done,      \* those completed; whether one was read has no consequence
  funds,     \* balance of the paying wallet
  booked,    \* transactions booked
  call,      \* what each request does and has read
  races      \* history: "bill" or "template" once two requests on it overlapped

scheduleVars == <<today, bill, template, events, done, funds, booked, call, races>>
eventVars == <<events, done>>

NoDate == Horizon * MonthLength   \* the end of a template that has none
NoOffset == 7                     \* a reminder offset of null
Offsets == {0, 1}
Dates == 1..Horizon

(* A request for an update brings some of the fields; one for a creation   *)
(* brings all of them.                                                     *)
Given(x) == [given |-> TRUE, value |-> x]
Absent == [given |-> FALSE]
Optional(S) == {Absent} \cup {Given(x) : x \in S}
Or(x, old) == IF x.given THEN x.value ELSE old

CreateRequests == [start : Dates, end : Dates \cup {NoDate}, mode : {"FIXED", "FLEXIBLE"},
                   enabled : BOOLEAN, offset : Offsets \cup {NoOffset}, category : BOOLEAN]
UpdateRequests == [start : Optional(Dates), end : Optional(Dates),
                   mode : Optional({"FIXED", "FLEXIBLE"}), active : Optional(BOOLEAN),
                   enabled : Optional(BOOLEAN), offset : Optional(Offsets \cup {NoOffset})]

ASSUME ScheduleAssumption ==
  /\ {Terms, Monthly, Final, TemplateAmount, Funds, MonthLength, Lead, Horizon} \subseteq Nat \ {0}
  /\ Creations \subseteq CreateRequests /\ Updates \subseteq UpdateRequests

BillKey(due) == [of |-> "bill", due |-> due, offset |-> Lead]
TemplateKey(due, offset) == [of |-> "template", due |-> due, offset |-> offset]
Installment == [of |-> "installment", due |-> 0, offset |-> 0]

Idle == [op |-> "none", step |-> "none"]
FirstDue == Lead + 1
NoTemplate == [row |-> "none"]
Live == template.row = "live"

ScheduleInit ==
  /\ today = 1
  /\ bill = [paid |-> 0, term |-> 1, due |-> FirstDue, status |-> "ACTIVE"]
  /\ template = NoTemplate
  /\ events = {} /\ done = {}
  /\ funds = Funds
  /\ booked = {}
  /\ call = [c \in Calls |-> Idle]
  /\ races = {}

-----------------------------------------------------------------------------
(* Control.  An answer, whatever it is, ends the request. *)

At(c, op, step) == call[c].op = op /\ call[c].step = step
Answered(c) == call' = [call EXCEPT ![c] = Idle]
Remember(c, r) == call' = [call EXCEPT ![c] = r]

(* Another request has read the same row and has not written it yet. *)
Overlaps(c, op) == \E d \in Calls \ {c} : call[d].op = op
Race(c, op, row) == races' = IF Overlaps(c, op) THEN races \cup {row} ELSE races

BookedFor(k) == {t \in booked : t.for = k}
Book(k, amount) ==
  booked' = booked \cup {[for |-> k, n |-> Cardinality(BookedFor(k)), amount |-> amount]}

-----------------------------------------------------------------------------
(* Paying a term *)

(* The row is read, and its status and its number of paid terms checked. *)
ReadBill(c) ==
  /\ call[c] = Idle
  /\ bill.status = "ACTIVE" /\ bill.paid < Terms
  /\ Remember(c, [op |-> "pay", step |-> "funds", seen |-> bill])
  /\ UNCHANGED <<today, bill, template, eventVars, funds, booked, races>>

IsFinalTerm(b) == b.paid + 1 >= Terms
ExpectedAmountFlat(b) == Monthly   \* mutant: the last term is like the others
ExpectedAmount(b) == IF IsFinalTerm(b) THEN Final ELSE Monthly

(* The wallet is read afterwards, still outside the transaction.  The      *)
(* amount a client sends must equal the expected one, so it is no input.   *)
CheckSourceWallet(c) ==
  /\ At(c, "pay", "funds")
  /\ IF funds >= ExpectedAmount(call[c].seen)
     THEN call' = [call EXCEPT ![c].step = "write"]
     ELSE Answered(c)
  /\ UNCHANGED <<today, bill, template, eventVars, funds, booked, races>>

(* Mutant: the current term runs past the last one. *)
AfterPaymentRunsOn(b) ==
  [paid |-> b.paid + 1, term |-> b.paid + 2,
   due |-> IF IsFinalTerm(b) THEN b.due ELSE b.due + MonthLength,
   status |-> IF IsFinalTerm(b) THEN "SETTLED" ELSE "ACTIVE"]

AfterPayment(b) ==
  [paid |-> b.paid + 1,
   term |-> Min({b.paid + 2, Terms}),
   due |-> IF IsFinalTerm(b) THEN b.due ELSE b.due + MonthLength,
   status |-> IF IsFinalTerm(b) THEN "SETTLED" ELSE "ACTIVE"]

PayInstallment(c) ==
  LET seen == call[c].seen IN
  /\ At(c, "pay", "write")
  /\ bill' = AfterPayment(seen)
  /\ funds' = funds - ExpectedAmount(seen)
  /\ Book(Installment, ExpectedAmount(seen))
  /\ Race(c, "pay", "bill")
  /\ Answered(c)
  /\ UNCHANGED <<today, template, eventVars>>
-----------------------------------------------------------------------------
(* The reminder engine, for one user and today's date *)

(* The least monthly occurrence on or after the day, unless the end has    *)
(* passed by then.                                                         *)
NextOccurrence(t, day) ==
  LET months == {k \in 0..Horizon : t.start + k * MonthLength >= day}
      d == t.start + Min(months) * MonthLength
  IN  IF d <= t.end THEN {d} ELSE {}

TemplateReminders(day) ==
  IF Live /\ template.active /\ template.enabled
  THEN {TemplateKey(d, template.offset) :
          d \in {e \in NextOccurrence(template, day) : e = day + template.offset}}
  ELSE {}

BillReminders(day) ==
  IF bill.status = "ACTIVE" /\ bill.due = day + Lead THEN {BillKey(bill.due)} ELSE {}

(* refreshNotifications: templates are read and their events upserted (an  *)
(* event that exists stays as it is), then the installments are read and   *)
(* their events upserted.  The insert fails when the template is gone.     *)
EvaluateReminders(c) ==
  /\ \/ /\ call[c] = Idle
        /\ Remember(c, [op |-> "refresh", step |-> "templates", day |-> today,
                        keys |-> TemplateReminders(today)])
        /\ UNCHANGED events
     \/ /\ At(c, "refresh", "templates")
        /\ IF call[c].keys = {} \/ Live
           THEN /\ events' = events \cup call[c].keys
                /\ Remember(c, [op |-> "refresh", step |-> "bills", day |-> call[c].day])
           ELSE Answered(c) /\ UNCHANGED events
     \/ /\ At(c, "refresh", "bills")
        /\ Remember(c, [op |-> "refresh", step |-> "events",
                        keys |-> BillReminders(call[c].day)])
        /\ UNCHANGED events
     \/ /\ At(c, "refresh", "events")
        /\ events' = events \cup call[c].keys
        /\ Answered(c)
  /\ UNCHANGED <<today, bill, template, done, funds, booked, races>>

-----------------------------------------------------------------------------
(* Notifications *)

(* The event is read with its template and checked: an installment's event *)
(* is refused, and so is a template without a category.  A FLEXIBLE        *)
(* template takes its amount from the client, here the same amount.        *)
ReadReminder(c) ==
  /\ call[c] = Idle
  /\ \E k \in events \ done :
       /\ k.of = "template" /\ template.category
       /\ Remember(c, [op |-> "confirm", step |-> "write", key |-> k])
  /\ UNCHANGED <<today, bill, template, eventVars, funds, booked, races>>

(* Mutant: the completion is not conditional. *)
ConfirmReminderTwice(c) ==
  LET k == call[c].key IN
  /\ At(c, "confirm", "write")
  /\ done' = done \cup (events \cap {k})
  /\ funds' = funds - TemplateAmount
  /\ Book(k, TemplateAmount)
  /\ Answered(c)
  /\ UNCHANGED <<today, bill, template, events, races>>

(* The transaction, its effect on the wallet and the completion of the     *)
(* event commit together, or not at all when the event was completed or    *)
(* deleted meanwhile.                                                      *)
ConfirmReminder(c) ==
  LET k == call[c].key IN
  /\ At(c, "confirm", "write")
  /\ IF k \in events \ done
     THEN /\ done' = done \cup {k}
          /\ funds' = funds - TemplateAmount
          /\ Book(k, TemplateAmount)
     ELSE UNCHANGED <<done, funds, booked>>
  /\ Answered(c)
  /\ UNCHANGED <<today, bill, template, events, races>>

(* What a client is shown as completed: an installment's event once the    *)
(* due date has moved past it.                                             *)
Completed(k) ==
  IF k.of = "bill" THEN bill.status = "SETTLED" \/ bill.due > k.due ELSE k \in done

-----------------------------------------------------------------------------
(* The template *)

(* An enabled reminder has one of the offsets, a disabled one has none. *)
ResolveReminder(enabled, offset) == enabled <=> offset # NoOffset
ResolveAmount(mode) == IF mode = "FIXED" THEN TemplateAmount ELSE 0

CreateTemplate ==
  /\ template = NoTemplate
  /\ \E q \in Creations :
       /\ q.start <= q.end /\ ResolveReminder(q.enabled, q.offset)
       /\ template' = [row |-> "live", start |-> q.start, end |-> q.end, active |-> TRUE,
                       mode |-> q.mode, amount |-> ResolveAmount(q.mode),
                       enabled |-> q.enabled, offset |-> q.offset, category |-> q.category]
  /\ UNCHANGED <<today, bill, eventVars, funds, booked, call, races>>

(* Mutant: the amount is resolved from the stored mode. *)
MergeTemplateOldMode(t, q) ==
  [t EXCEPT !.start = Or(q.start, @), !.end = Or(q.end, @), !.active = Or(q.active, @),
            !.mode = Or(q.mode, @), !.amount = ResolveAmount(t.mode),
            !.enabled = Or(q.enabled, @), !.offset = Or(q.offset, @)]

(* An update is validated against the row merged with what it brings. *)
MergeTemplate(t, q) ==
  [t EXCEPT !.start = Or(q.start, @), !.end = Or(q.end, @), !.active = Or(q.active, @),
            !.mode = Or(q.mode, @), !.amount = ResolveAmount(Or(q.mode, t.mode)),
            !.enabled = Or(q.enabled, @), !.offset = Or(q.offset, @)]

ReadTemplate(c) ==
  /\ call[c] = Idle /\ Live
  /\ \E q \in Updates :
       LET m == MergeTemplate(template, q) IN
       /\ m.start <= m.end /\ ResolveReminder(m.enabled, m.offset)
       /\ Remember(c, [op |-> "update", step |-> "write", asked |-> q, merged |-> m])
  /\ UNCHANGED <<today, bill, template, eventVars, funds, booked, races>>

(* Dates and activity are written only when the request brings them; the   *)
(* amount with its mode and the reminder with its offset are always        *)
(* written together, from the merged row.                                  *)
UpdateTemplate(c) ==
  /\ At(c, "update", "write")
  /\ LET q == call[c].asked IN
     template' = IF Live THEN [call[c].merged EXCEPT !.start = Or(q.start, template.start),
                                                     !.end = Or(q.end, template.end),
                                                     !.active = Or(q.active, template.active)]
                         ELSE template
  /\ Race(c, "update", "template")
  /\ Answered(c)
  /\ UNCHANGED <<today, bill, eventVars, funds, booked>>

(* Deleting the template deletes its events; their transactions stay. *)
DeleteTemplate ==
  /\ Live
  /\ template' = [row |-> "gone"]
  /\ events' = {k \in events : k.of # "template"}
  /\ done' = done \cap events'
  /\ UNCHANGED <<today, bill, funds, booked, call, races>>

NextDay ==
  /\ today < Horizon
  /\ today' = today + 1
  /\ UNCHANGED <<bill, template, eventVars, funds, booked, call, races>>

(* The process dies, or the write throws, between the read and the write. *)
Abandon(c) ==
  /\ call[c] # Idle
  /\ Answered(c)
  /\ UNCHANGED <<today, bill, template, eventVars, funds, booked, races>>

ScheduleNext ==
  \/ \E c \in Calls : \/ ReadBill(c) \/ CheckSourceWallet(c) \/ PayInstallment(c)
                      \/ EvaluateReminders(c)
                      \/ ReadReminder(c) \/ ConfirmReminder(c)
                      \/ ReadTemplate(c) \/ UpdateTemplate(c)
                      \/ Abandon(c)
  \/ CreateTemplate \/ DeleteTemplate \/ NextDay

ScheduleSpec == ScheduleInit /\ [][ScheduleNext]_scheduleVars

-----------------------------------------------------------------------------
(* Properties *)

ScheduleTypeOK ==
  /\ today \in 1..Horizon
  /\ bill \in [paid : 0..Terms, term : 1..Terms, due : Nat, status : {"ACTIVE", "SETTLED"}]
  /\ template.row \in {"none", "live", "gone"}
  /\ done \subseteq events
  /\ funds \in Int
  /\ races \subseteq {"bill", "template"}

(* Money moves exactly as the records say: the wallet has lost what the    *)
(* booked transactions sum to, and a reminder that was confirmed, however  *)
(* often its button was pressed and whatever died in between, has booked   *)
(* one transaction and no other has.                                       *)
MoneyFollowsRecords ==
  /\ funds = Funds - MapThenSumSet(LAMBDA t : t.amount, booked)
  /\ \A k \in events : Cardinality(BookedFor(k)) = IF k \in done THEN 1 ELSE 0

(* The schedule follows the payments.  Without overlapping payments every  *)
(* term is paid once and a settled installment has been paid its grand     *)
(* total; with them the schedule may fall behind, but never ahead, so that *)
(* a reminder shown as completed is about a term that was paid.            *)
TermsFollowPayments ==
  LET paid == Cardinality(BookedFor(Installment)) IN
  /\ bill.paid <= paid
  /\ "bill" \notin races =>
       /\ bill.paid = paid
       /\ bill.status = "SETTLED" =>
            MapThenSumSet(LAMBDA t : t.amount, BookedFor(Installment))
              = (Terms - 1) * Monthly + Final
  /\ \A k \in events : k.of = "bill" /\ Completed(k)
       => paid > (k.due - FirstDue) \div MonthLength

(* Overlapping updates of a template can leave it with an end before its   *)
(* start, and nothing else can; its amount always fits its mode, and its   *)
(* reminder its offset, because these are written in pairs.                *)
TemplateStaysUsable ==
  Live => /\ template.end < template.start => "template" \in races
          /\ template.amount = ResolveAmount(template.mode)
          /\ ResolveReminder(template.enabled, template.offset)
=============================================================================
