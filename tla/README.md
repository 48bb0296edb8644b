# Pocket Mint backend: specification and proofs

This directory holds a formal model of the Pocket Mint backend (Express,
TypeScript, Prisma on PostgreSQL). The heart of it are the parts where several
processes, retries or crashes meet the same rows: the Telegram inbox and outbox,
callback buttons, the Assistant's requests, questions and drafts, the wallet
ledger, monthly payments and the user's planning records. Around them are the
pure parts whose arithmetic or matching is easy to get wrong: billing months,
reports, reconciliation, entity resolution, categorization, the model's context
and plan. The models are TLA+; TLC checks them on small instances and TLAPS
proves the main results for every value of the constants. Paths below are relative to the repository root.

## 1. The system

| Component | State it keeps | Operations | Hard behaviour | What makes it correct |
| --- | --- | --- | --- | --- |
| Channel inbox (`src/telegram`, `src/channels/workers/inbound.worker.ts`, `assistantOperationGuard.ts`, `inboundJob.service.ts`) | `channel_inbound_jobs`, `channel_assistant_operations` | accept an update, claim a batch under a lease, run the Assistant or a button's action behind the guard, queue the answer, mark the job | redelivered updates; crashes between any two statements; leases outlived by slow workers; writes by id without an ownership check | an update runs at most once, gets one answer, and always settles |
| Channel outbox (`outbound.worker.ts`, `telegram/client.ts`) | `channel_outbound_deliveries` | claim, send, record, requeue | the API call and the row are two systems; lost answers; crashes; operator actions in between | SENT was shown; no second copy without a cause; nothing queued is forgotten |
| Retention (`channels/retention.ts`) | none | delete old deliveries, jobs, callback tokens | cascades; runs in every worker | deletes nothing that is still needed |
| Callback interaction (`interaction.service.ts`, `callbackToken.service.ts`) | `channel_callback_tokens` | find, expire, claim a token, act | two presses; expiry; relinking; a question or draft settled elsewhere | one press acts once, on the right user's data, and its sender learns what became of it |
| Channel linking (`linkToken.service.ts`, `connection.service.ts`, `commandHandler.ts`) | link tokens, connections | mint, consume, revoke, relink | concurrent consumption, identity conflicts | a code binds one identity, an identity one user |
| Financial drafts (`assistant/financial-draft.service.ts`) | `assistant_financial_drafts`, `assistant_idempotency_records` | prepare, confirm, cancel, expire; the conversation's deletion | overlapping confirmations and cancellations with any keys; a rejection recorded without the lock; a cascade in between | one transaction per draft and per key; true answers |
| Request idempotency and turns (`assistant/conversation.service.ts`, `provider-runtime.ts`) | key records, turns, executions, messages | claim, resolve, release a key; begin and finalise a turn | a crash leaves RUNNING rows; operator reconciliation | a key answers once; a turn is finalised once |
| Clarifications (`assistant/clarification.service.ts`) | requests and options | open, select, cancel, expire | two selections, stale conversation | a clarification is consumed once |
| Ledger (`services/transaction.service.ts`, `domain/transactionBalance.ts`, `services/wallet.service.ts`) | wallets with a running balance, transactions, installments | create, update, delete a transaction; delete a wallet | reads and checks precede the database transaction | balance = opening balance + transactions |
| Installment payments (`services/installment-payment.service.ts`, `domain/installment.ts`, `domain/billingCycle.ts`) | installments | pay a term | two payments of one term; rounding; short months | terms paid = money moved |
| Reminders and notifications (`recurringReminderEngine.service.ts`, `notification.service.ts`) | templates, reminder events | evaluate, confirm, mark read | confirm twice; template changes meanwhile | one transaction per reminder |
| Recurring templates (`recurringTransaction.service.ts`) | templates | create, update, delete | a merge into a row read earlier | dates, amounts and reminders of a template fit together |
| Saving goals, budgets, merchant mappings, wallet settings | their rows | CRUD | read, decide, write | statuses agree with amounts, one row per name |
| Entity resolution, categorization (`assistant/entity-resolution`, `domain/categorization`) | none | resolve a name, suggest a category | near ties, unusable names | nothing is guessed that has a rival |
| Model context and plan (`context.*.ts`, `provider-plan.ts`, `policy.ts`, `registry.ts`) | none | select and fit messages; recover, validate and decide a plan | four limits at once; a model that answers anything | bounded context; no invented fields; risk is confirmed |
| Queries, analytics, exports (`analytics-*.service.ts`, `*-query.service.ts`, `domain/analyticsPeriod.ts`, `reportingTime.ts`) | none | read-only | inclusive dates, half-open ranges, unequal months | reports of one period agree |
| Reconciliation (`domain/reconciliation.ts`, `repairPlan.ts`) | none | audit, plan | rows that no longer say where money went | a repair applied is a right one |
| HTTP surface | process-local rate limits | parse, authenticate, dispatch | none that is shared | — |

How they interact: the webhook writes jobs; inbound workers call the Assistant
(which may prepare drafts) or the interaction service (which confirms or cancels
drafts and answers clarifications) and write deliveries; outbound workers send
them. Draft confirmation calls the transaction service inside its own database
transaction. Installment payments and reminders use the same balance effects as
the transaction service. All shared state is in PostgreSQL; processes share
nothing else, and every server process runs one inbound and one outbound worker.

## 2. Modules

| Module | Contents |
| --- | --- |
| `ChannelInbound` | the inbox, its workers, the operation guard and retention |
| `InboxPromise` | what the inbox promises for each update; `ChannelInbound` implements it |
| `ChannelOutbound` | the outbox, its workers, Telegram, operators, retention |
| `ChannelCallbacks` | linking codes, connections, buttons, their presses, and the question or draft behind them |
| `FinancialDraft` | draft lifecycle under concurrent requests |
| `AssistantStore` | the rows of a conversation and the transactions that write them |
| `TransactionCreate` | the decisions of `executeTransactionCreate` and of a selection, as functions |
| `AssistantTurn` | requests to the Assistant from the claim of their key to the answer; extends both above |
| `Clarification` | questions and the selections and cancellations that answer them; extends the same two |
| `EntityResolution`, `Categorization` | which of the user's names, and which category, a text means |
| `Ordering` | what sorting by a strict order returns; matches, suggestions and listings are sorted with it |
| `AssistantContext`, `AssistantPlan` | what the language model is shown, and what becomes of its answer |
| `Assistant` | `AssistantTurn`, `Clarification` and the four pure modules above side by side |
| `Ledger` | balances and transactions under concurrent requests |
| `ScheduledPayments` | an installment, a recurring template, reminders and their confirmation |
| `UserRecords` | saving goals, budgets, merchant mappings, wallet settings |
| `BillingCycle`, `Reporting`, `Reconciliation` | the calendar and installment plans; reports; audit and repair plan |
| `Services` | these, `ScheduledPayments`, `UserRecords` and `ChannelCallbacks` side by side |
| `ChannelInboundProofs`, `ChannelOutboundProofs`, `FinancialDraftProofs`, `LedgerProofs`, `AssistantTurnProofs` | the theorems of the component each is named after |
| `AssistantProofs` | the theorems of `Clarification`, `AssistantPlan`, `AssistantContext`, `EntityResolution` and `Categorization`, and of `Assistant`; extends `AssistantTurnProofs` |
| `ServicesProofs` | the theorems of `ChannelCallbacks`, `UserRecords`, `ScheduledPayments`, `Reconciliation`, `BillingCycle` and `Reporting`, and of `Services` |
| `SumTheorems` | sums over a finite set, its partitions and its orders: what the proofs need of `MapThenSumSet`, `SumFunction` and `InOrder` |
| `MCChannelInbound`, `MCFinancialDraft`, `MCLedger`, `MCGuesses`, `MCReporting`, `MCRepairs`, `MCAssistant`, `MCServices` | small instances for TLC |

`Assistant` and `Services` hold several scenes: a behaviour chooses one
component at the start and only that one moves, since these components share no
row but those of a conversation, which requests and selections both write.
`PROJECT.json` maps every definition to the lines it stands for.

### 2.1 ChannelInbound

One action per committed statement or external call of `processJob`,
`processCallbackJob` and `pollOnce`, so anything may happen between two of them.
`pc[w]` is the statement worker `w` executes next, `claimed[w]` the batch it has
in memory with the attempt number of its snapshot (`decideRetry` uses that one,
not the column), `cur[w]` the job in hand. `LeaveJob` writes by id alone, as
`markSucceeded`, `markFailed` and the two ambiguous exits do: the action has no
ownership guard because the code has none.

* The command, unlinked, no-provider and Assistant paths are chosen by
  `StartJob`; whether the sender is linked is arbitrary at every attempt, since
  commands and the web change it at any time. Command handlers change link state
  only, which is not part of this module.
* `OperationReturns` and `OperationThrows` are the whole Assistant call or button
  action. A throw may come before or after its effects, so both count as a run.
* `DatabaseError` is a failing statement of the `try` block. `Crash` is a dying
  process and also `markFailed` throwing out of `pollOnce`.
* `live` abstracts the lease's timestamp. A lease under a live but slow worker
  may run out (a fault); an orphaned one always does (fairness).
* Retention windows are days and leases seconds, so retention deletes only rows
  that no worker holds and whose update Telegram no longer delivers. The guard's
  row is not deleted with the job, as in the code.
* Back-off timestamps (`available_at`) only matter for FAILED_RETRYABLE, which no
  claim selects, and are left out.

`InboxPromise` is the abstract specification: per update a stage (new, taken,
done, failed, forgotten), whether an execution was begun, how often it ran,
whether its result is recorded, and the answer on its way. `RowsOf`, `StageOf`,
`AnswerOf` and `LifeOf` in `ChannelInbound` are the refinement mapping; they read
all rows of the update, because two deliveries of it race for the unique update
id with a row each (one of them is inserted, `RowsApart`). `PromiseKept` states that every behaviour of the inbox is one of the
promise: workers, leases, attempts and crashes disappear, "at most one run" and
"done only when answered" remain.

### 2.2 ChannelOutbound

`shown[d]` counts what the user sees; `status[d]` is what the row says. The
client's own retry on a 429 is inside the call. `mishaps[d]` counts the crashes,
outlived leases and lost answers that hit the delivery; it bounds the model and
appears in `EveryCopyHasACause`. `JobPurged` is the cascade from the job's
deletion, which asks nothing of the delivery.

### 2.3 FinancialDraft

`confirm` and `cancel` hold `pg_advisory_xact_lock` from their first statement to
the end of the database transaction, and nothing they write is visible before it
commits. Each is therefore a locked read (`BeginConfirm`, `BeginCancel`) followed
by one commit (`CommitConfirm`, `ExpireDraft`, `CommitCancel`) or by nothing
(`RejectConfirm`, `Abort`); what the commit depends on beyond the locked reads
(the unique key, the conditional claim of the draft) is evaluated at the commit.
The second transaction, which records a rejection, takes no lock and is two
steps: `ReadRejected` and `RecordRejection`. A draft's transactions are named by
the confirming request, so "the same transaction" is equality. Turn, message and
execution rows are written with the rest of the commit and are left out, but
for what their foreign keys refuse.

`DeleteConversation` is the deletion of any conversation at any time: the cascade
takes its drafts (`GONE`) and the key records bound to them and leaves the
transactions. What is under way then fails as a whole: the locked read finds
nothing (`NOT_FOUND`), a later write meets a missing row (`CommitRefusal`,
`Abort`). The key of a deleted record is a fresh key and may make a second
transaction from another draft. `docs/api/assistant-conversations.md:91` lists
idempotency records among what a deletion removes, so this is by design, and
`OneTransactionPerKey` says exactly so much. `RefuseOverride` is a confirmation
whose overriding wallet or category is not the user's.

### 2.4 Ledger

A request is two steps: `Begin...` reads and checks (outside any database
transaction in the code), `Commit...` is the database transaction. Balances move
by increments computed from what was read (`snap`, `want`), the row is
overwritten column by column (`Merge`), as `transaction.update` does. The
several reads of one request are taken together: the wallet reads after the
first one only decide whether the request is refused. An installment's `amount`
is its grand total, the debt its balance effect uses. Foreign keys and P2025
abort a commit as a whole (`Refused`). `raced` remembers the wallets touched by a
commit whose reads were stale; no action reads it.

### 2.5 AssistantStore, TransactionCreate, AssistantTurn

`AssistantStore` has one operator per database transaction of
`conversation.service.ts`; a turn is named by the process that begins it (a
process begins at most one), and so is a conversation it creates.

A request of `AssistantTurn` is a chain of awaits: claiming its key
(`ClaimIdempotencyKey`, then `ReadClaimedKey` if the key exists), the audit row
and the call of the language model for `/assistant/messages`, the conversation
check, `beginTurn`, `markTurnRunning`, `beginToolExecution`, the tool, the
question or the draft, `finalize`, the audit, and `resolveIdempotencyKey`. `pc`
is the next await, `outcome` what the tool came to, `names[r]` the turn the
answer of `r` names. `/assistant/messages` calls the same `execute` without a key
for a planned intent.

* What throws is released (`Throw`, `ReleaseIdempotencyKey`); `finalizeAuditSafely`
  and `resolveIdempotencyKey` swallow their errors; the two `catch` blocks that
  finalize a turn as failed (`FinalizeFails`, `Swallowed`) are distinguished, since
  a failing database fails them too.
* `TransactionCreate` is the order of decisions: wallet, merchant, category, draft,
  with every way a reference can resolve (an entity, several, none, invalid, or a
  throw). The same operators give the continuation after a selection.
* A conversation can be archived, restored and deleted at any time, an operator
  can declare a turn stale at any time (the threshold is wall-clock time that a
  slow provider reaches), and a process can die at any step.

### 2.6 Clarification

The question row, its options as valid or invalid tokens, and selections and
cancellations as processes. `ReadQuestion` is the read before the transaction;
`CommitContinuation` is the transaction: the claim (`SelectAndContinue`), the next
question or the draft, and the end of the selection's own turn, all or nothing.
`TerminalizeOrReportActual` writes an expiry or a staleness found by the plain
read, or reports what happened meanwhile. `byId` remembers that the request gave
its wallet by id, which the canonical context of a question does not keep.

The guided amount question (`submitGuidedClarification`) is left out: no request
of the API creates the question it answers.

### 2.7 EntityResolution, Categorization, AssistantContext, AssistantPlan

Each is a state machine of one input step: TLC enumerates inputs and the
properties compare the operators with what they are for. A text is a sequence of
words with a mark whether punctuation joins them; the order of scores, the
threshold and the margin are the code's. The words of a name are its aliases, but
for those of one letter or too many bytes (`Unfit`), and only the first
`MaxAliases` in the order of the characters (`Place`); a wallet's whole name is
not among them, a category's or merchant's is. A sort is the one sequence in which
the n-th element has n - 1 before it (`InOrder`). `Categorization` takes from constants
which keywords a word contains and what a word is without its symbols.
`AssistantContext` is a history of user messages, replies and executions, whose
position is its time: no two share a millisecond, and the context is built before
the turn of the current message begins. A message and an execution have a size,
the limits are small numbers. In `AssistantPlan` the model may answer with
any combination of kind, intent, present, blank, null or ill-typed arguments; the
user's message is its numbers and the words that betray a type.

### 2.8 ScheduledPayments, UserRecords

As in `Ledger`, a request is a step that reads and checks and a later one that
writes what follows from the read. Days are numbers and a month has
`MonthLength` of them (`BillingCycle` has the calendar). `races` and `stale`
are observers: they remember which record two requests overlapped on, no action
reads them, and the properties use them to say that only an overlap can make a
record disagree. A reminder is named by its unique key, so evaluating twice adds
nothing. `Abandon` is a failing write or a dying process between read and write.

### 2.9 ChannelCallbacks

Linking codes, one connection per user and identity, a keyboard of alternative
buttons under one question or draft (`matter`), and presses as processes with the
steps of `processCallback`: find the token, expire it, check its connection, claim
it, act, render the result. `vouched` remembers the presses whose connection was
checked.

Behind its buttons the question or draft lives on: it may be settled from the web
(`SettleOnTheWeb`), deleted with its conversation (`DeleteTalk`), and its quarter of
an hour (`overdue`) ends a moment before that of the tokens made after it (`lapsed`).
The action is one step with every result the Assistant has: `Select`, `Confirm` and
`Cancel` carry out what was pressed or find it invalid or rejected, `Refuse` is any
other error, `FindOverdue` and `FindSettled` are presses that come too late. All of
them leave the token CONSUMED, also where the Assistant's own transaction rolled
back: the comment at `application.service.ts:554-559` that the caller can safely
retry holds of the web, not of a Telegram button. The interleavings inside a call
are those of `Clarification` and `FinancialDraft`. The next keyboard of a chain of
questions is a keyboard like the first and is not followed, and archived
conversations are left out.

### 2.10 BillingCycle, Reporting, Reconciliation

`BillingCycle` works on real dates (November 2027 to March 2028 in the run, a
leap year) and on cents. `Reporting` has a small calendar, a year of three months
of one, three and two days: the code's functions are modelled over it as they are
over the real one, so that all boundaries come close together. An instant is a
midnight or a noon of the reporting zone. The code's calendar has no ends;
`CalendarReaches` says that the model's reaches as far back and ahead as a report
looks. A bucket's rows are those the single pass of `getTrends` puts into it
(`BucketOf`, `Counted`), the listing is the rows of the range by date and id
(`InOrder`), and a page is cut out of it as the controller's `skip` and `take` do.
The sparkline walks back from the stored balance (`Closes`) and has no point for a
day that ended before the wallet was created (`NoPoint`).
`Reconciliation` keeps what
really happened (`past`) beside the tables that the audit sees (`Snapshot`): rows
without a recorded destination, opening balances that were not recorded,
balances changed by hand. `ToldBy` says of which wallets the rows still tell what
became of them; `RepairsNeedProof` holds of those, `LedgerIsAuthoritative` claims
the same of all and fails.

## 3. Runs

| Run | Instance | Shows |
| --- | --- | --- |
| `inbound` | 2 workers, rows j1, j2 for one text and j3 for one button press, batch 2, 2 attempts, 1 fault; 230,294 states | `PromiseKept` (the refinement of `InboxPromise`), `OncePerUpdate`, `ReplyFollowsExecution`, `SucceededIsAnswered`, `AnswerIsFinal`, `AbandonedStaysAbandoned`, `AcceptedJobSettles`, `TypeOK` |
| `outbound` | 2 workers, 2 deliveries, batch 2, 2 attempts, 1 mishap each, 1 requeue; 97,961 states | `SentMeansShown`, `EveryCopyHasACause`, `SentStaysSent`, `QueuedDeliverySettles`, `TypeOK` |
| `draft` | 2 drafts, 2 keys, 3 requests, deletions; 131,930 states | `OneTransactionPerDraft`, `OneTransactionPerKey`, `AnswersAreTrue`, `TerminalDraftsMoveNoMoney`, `TypeOK` |
| `ledger` | asset and credit wallet, amounts 1 and 2, 3 requests; 23,338 states | `DriftNeedsARace`, `DeletedStaysDeleted`, `TypeOK` |
| `assistant` | 2 requests with 1 key or none, 1 fault, 2 actions of others; 2 selections on 1 question, 1 fault; names of two words, descriptions of three, 6 events of a conversation, 2 numbers and 2 types in a message; 2,266,937 states | `OneExecutionPerKey`, `AnswersAreRecorded`, `LeftoversNeedACause`, `FinishedTurnsStay`, `ChainMovesForward`, `SelectionAnswersAreTrue`, `WalletIsNotForgotten`, `GuessesAreUnrivalled`, `PlansStayInBounds`, `AssistantTypeOK` |
| `services` | 2 payments or confirmations, 2 terms, 2 editors, a keyboard of 2 buttons (one cancels), 2 presses, 2 users, 1 fault, 8 principals, 5 rates, 5 term counts, every date of five months, 3 years of reports, 6 kinds of rows in a history of two; 1,142,057 states | `MoneyFollowsRecords`, `TermsFollowPayments`, `TemplateStaysUsable`, `RecordsAgree`, `ButtonsTellTheTruth`, `SchedulesAddUp`, `ReportsAgree`, `RepairsNeedProof`, `ServicesTypeOK` |
| `outbound_retry` | 1 delivery | violates `RetryIsAttempted` |
| `outbound_retention` | 1 delivery | violates `RetentionSparesUnsent` |
| `draft_replay` | as `draft` | violates `CommittedDraftReplays` |
| `ledger_drift` | asset wallet | violates `BalancesReconcile` |
| `monthly_summary` | the calendar of `services` | violates `MonthlySummaryCoversItsMonth` |
| `repairs` | the history of `services` | violates `LedgerIsAuthoritative` |

What the properties of the two large runs say:

* `OneExecutionPerKey`: requests under one key make one draft, and those that were
  answered were answered about one turn.
* `AnswersAreRecorded`: an answer that names a turn says what the turn's row says,
  and a success that prepared a draft has one.
* `LeftoversNeedACause`: a RUNNING key, an open turn, an unannounced draft or an
  open audit row is left behind only by a crash, a failing write, a deleted
  conversation or a reference that cannot be parsed.
* `FinishedTurnsStay`: a finished turn changes only if an operator had declared it
  stale.
* `ChainMovesForward`, `SelectionAnswersAreTrue`, `WalletIsNotForgotten`: a chain of
  questions has one end, every answer to a selection says how its question ended,
  and the wallet settled by one question reaches the next.
* `GuessesAreUnrivalled`: a name is resolved without asking only when the reference
  can mean no other, or is spelled exactly as that name and differs from the others
  by punctuation; a question leaves out what was meant only when it is full or the
  name was spelled out; suggestions are the user's own, best tier first, none left
  out for a worse one, and an inferred category is mapped, has a keyword that stands
  in the description, or is the catch-all. How little a single word may say is
  `SingleWordsAreLow`, which is refuted.
* `PlansStayInBounds`: the context respects every limit and keeps the last reply;
  a plan carries only what the model or the user said, asks only for what is
  missing, and executes at once only what is of low risk.
* `MoneyFollowsRecords`: the wallet lost what was booked, one booking per confirmed
  reminder.
* `TermsFollowPayments`: without overlaps the payments of an installment sum to its
  grand total; with them the schedule may lag, never lead.
* `TemplateStaysUsable`, `RecordsAgree`: templates, goals, budgets, mappings and
  wallets agree with themselves unless two requests overlapped on them.
* `ButtonsTellTheTruth`: one press claims a button and one button of a keyboard acts,
  for the account it was shown to. What a sender is told is how the question or draft
  ended (with the exception that `DraftCancelledIsSo` is about); "failed" means that
  the button did nothing, unless a call failed; "already handled" of a question that is
  still open means that another press is at work, was told that it failed, or died.
* `SchedulesAddUp`: clamped dates, next occurrences, first due dates and rounded
  plans meet their definitions.
* `ReportsAgree`: overview, trends, breakdowns and pages of one period add up to one
  another; a budget's usage is what the analytics count; the points of a sparkline
  differ by what is dated between them, begin with the wallet, and are right where
  nothing is dated after today. Elsewhere they are not (`FutureIsReversedOut`), and
  only custom periods have a baseline of equal length (`PreviousIsAsLong`).
* `RepairsNeedProof`: of a wallet whose rows tell what became of it, what is eligible
  to be applied restores the true balance when the operator's verification is right,
  and the command proposes to take back exactly what was changed by hand; applying a
  plan settles the audit, and the command applies nothing.

Why the bounds are enough for what they check. The inbox hazards need two
workers on one job, a lease outlived or a crash, and a reclaim; one fault starts
each of them, and the second row of update u1 is its second delivery, which races
the first for the unique update id. Two attempts reach both outcomes of the retry decision. In the
outbox one mishap per delivery yields a second copy, and the requeue a second
life. Three requests let a draft be rejected, retried and confirmed or cancelled
in any order, and let two drafts meet under one key, before and after the
conversation of one is deleted. Three ledger requests are a
create and two conflicting writes; two amounts tell a stale value from a fresh
one. Two presses race for one button, for two buttons of a keyboard and for the
question behind them, and a second user is what takes over the account of the first.
(A second account multiplies the states by thirteen; with `ButtonsTellTheTruth` alone that
instance passed as well, 6,886,101 states, and the proof has any number of them.)
Symmetry is used where no liveness is checked and the elements are interchangeable:
requests, drafts, keys, presses and users.

Two requests suffice for the key's hazards: a retry while the first runs, after it
failed, after it answered. One fault starts each partial failure, and two of the
others' actions let a conversation be archived and restored, or a turn be
reconciled and then finalised. Two selections race each other, a cancellation or
the expiry; a chain is at most three questions long, one per entity. Two
editors or two payments are what a lost update needs. The inputs of the pure
parts are chosen at their boundaries: names that tie, differ by a dash or by an
order of words, aliases beyond the limit and unfit ones; context limits that bind one at a time and together; principals
whose rounding leaves no remainder, a positive and a negative one; ranges that end on the
last day, on the first of the next month and beyond the maximum.

The named bounds: `MaxFaults`, `MaxSelectFaults`, `MaxCallFaults` (crashes, database errors and outlived leases of a
behaviour), `MaxMishaps` (of one delivery), `MaxRequeues`, `MaxMoves` (others' actions on a
conversation), `MaxArchivals`,
`Horizon` (the last day) and `MaxEvents` (of a conversation). They bound the
environment, never the code. Attempts need no bound of their own: every reclaim
is paid for by a fault.

Deadlock checking is off in every run: each model may legitimately come to rest
(every update answered, every request done).

### Fairness

`runWorkerLoop` polls until the process stops and every step of a job ends, so
each worker is weakly fair as a whole; leases expire because time passes. Nothing
is assumed of the webhook, Telegram's redelivery, users or operators. Crashes are
not fair and, being bounded, eventually stop, which is what `AcceptedJobSettles`
and `QueuedDeliverySettles` need: no queue settles under crashes for ever. The
settled states include FAILED_RETRYABLE, because the code treats it as one.

The runs `assistant` and `services` assume no fairness and state no liveness: a
request makes progress only while its process lives, no component restarts it, and
nothing in the code promises that a key or a turn left behind is ever finished.

### Disagreements with the documentation

* A retryable failure is never retried (`RetryIsAttempted`): `FAILED_RETRYABLE`
  is written with a back-off time, but the claims select `PENDING` and expired
  leases only.
* Deleting an old settled job takes its unsent delivery along
  (`RetentionSparesUnsent`).
* A rejection recorded late overwrites COMMITTED with FAILED, and a replay of the
  confirmation is then refused (`CommittedDraftReplays`). Money still moves once.
* Two updates of one transaction that read before either commits leave the wallet
  off by the effect reversed twice (`BalancesReconcile`). `DriftNeedsARace`
  states what remains true: only such races cause drift.
* The top categories of the Assistant's monthly summary include the first day of
  the next month, the total does not (`MonthlySummaryCoversItsMonth`): the
  exclusive end of the month is passed as the inclusive end of a custom period.
* A repair is called authoritative for a wallet that received a transfer without a
  recorded destination, and for one whose installment lost its row; applied, it would
  spoil a right balance (`LedgerIsAuthoritative`, `repairPlan.ts:54-57`).

Six more claims of the documentation are stated beside the properties that take their
place. TLC refutes each one as soon as it is made the invariant of the run of its
component (`draft` for the first, `assistant` for the third and fourth, `services` for
the others); they have no run of their own.

* A key that replayed a committed draft is not bound and can confirm another draft,
  where `docs/api/assistant-conversations.md:122` announces a conflict
  (`KeyNamesOneDraft`). It makes one transaction all the same.
* Whoever cancels a draft that has just expired is told "Draft cancelled.", and the
  draft says EXPIRED (`DraftCancelledIsSo`, `interaction.service.ts:260`).
* A single word of a description that is a keyword makes a MEDIUM match, which goes
  on the draft without a question, where `confidenceCalculator.ts:22-27` calls it LOW
  (`SingleWordsAreLow`).
* Categories have aliases, the words of their names, although
  `docs/api/assistant-conversations.md:113` says that there are none
  (`CategoriesHaveNoAliases`).
* The previous period of a month or year is the month or year before, whatever their
  lengths, although `analyticsPeriod.ts:9-11` calls it always of equal duration
  (`PreviousIsAsLong`).
* A transaction dated after today stays in every point of the sparkline, although
  `wallet-query.service.ts:82-83` says it is reversed out (`FutureIsReversedOut`).

### What else modelling showed

Behaviour that no document contradicts, but that the properties had to name as an
exception or that a maintainer may want to know.

* A reference without a letter or digit, or longer than 128 bytes, is an
  `invalid_reference` and ends in REJECTED. But one of the user's names that cannot be a
  candidate (punctuation only, `<` or `>`, too long), or more names than the maximum,
  makes every resolution throw out of `executeTransactionCreate`: the client gets a
  500, the key is released, the turn and its execution stay RUNNING. An unusable
  merchant is finalised as REJECTED while its client is told `error`
  (`application.service.ts:384`).
* A request that gives a wallet id and an ambiguous merchant or category opens a
  question whose context has no wallet; answering it can only fail
  (`WalletIsNotForgotten`, exception `byId`).
* A draft row is committed before its turn is finalised, so a failing finalize
  leaves a pending draft under a FAILED turn. `finalize` also overwrites a turn an
  operator has already reconciled, and only RUNNING turns can be reconciled: a
  crash between `beginTurn` and `markTurnRunning` leaves a PENDING one for ever.
* A conversation deleted during a request leaves the request's key RUNNING.
* When the next keyboard's tokens cannot be created after a committed selection,
  the user is told that it failed, and the token stays consumed.
* Two overlapping payments of a term are both booked and counted once. A stale
  update of a goal can un-archive it or give it a wrong status. Two updates
  of a template can leave its end before its start. Disabling a reminder is refused
  unless its offset is set to null with it.
* A wallet's type can be changed without the checks of its creation.
* `nextDueDate` advances from the clamped day, so a bill of the 31st moves to the
  28th in February and stays there (`installment-payment.service.ts:91`).
* The final term of a tiny total over many terms can be zero or negative.
* A Telegram button is used up by an attempt that comes to nothing: a failing call, an
  error of the Assistant, a rejection. The question or draft may still be open, and
  can then only be answered from the web.

## 4. Proofs

| Theorem | Property | Argument |
| --- | --- | --- |
| `ChannelInboundProofs!TypeCorrect` | `TypeOK` | inductive with `InHand` (`TypeInv`) |
| `ChannelInboundProofs!RunsOncePerUpdate` | `OncePerUpdate` | `RowInv` and `RunInv` |
| `ChannelInboundProofs!SuccessIsAnswered` | `SucceededIsAnswered` | `AnswerInv`: a worker about to mark success has queued an answer |
| `ChannelInboundProofs!AnswerNeverChanges` | `AnswerIsFinal` | step property of `Queued` and retention |
| `ChannelInboundProofs!AbandonedForEver` | `AbandonedStaysAbandoned` | step property of the guard's verdict under `RunInv` |
| `ChannelInboundProofs!ReplyIsGrounded` | `ReplyFollowsExecution` | `PathInv`: what each step of a worker may rely on |
| `ChannelInboundProofs!InboxKeepsPromise` | `PromiseKept` | step simulation of `InboxPromise` under `InboxInv` |
| `ChannelOutboundProofs!TypeCorrect` | `TypeOK` | inductive with `InHand` |
| `ChannelOutboundProofs!SentWasShown` | `SentMeansShown` | `OkIsShown`: a worker that saw "ok" showed the message |
| `ChannelOutboundProofs!SentIsSettled` | `SentStaysSent` | step property: nobody claims or requeues a SENT row |
| `ChannelOutboundProofs!CopiesHaveCauses` | `EveryCopyHasACause` | `Budget`: copies shown and copies still possible, against mishaps |
| `FinancialDraftProofs!TypeCorrect` | `TypeOK` | inductive with `SentHasContent` (`TypeInv`) |
| `FinancialDraftProofs!AtMostOneTransaction` | `OneTransactionPerDraft` | `IInv`: the claim requires an unlinked pending draft |
| `FinancialDraftProofs!KeyMakesOneTransaction` | `OneTransactionPerKey` | `IInv`: a made transaction binds its key to its draft |
| `FinancialDraftProofs!AnswersStayTrue` | `AnswersAreTrue` | `IInv`, its part `TruthTold` |
| `FinancialDraftProofs!TerminalIsTerminal` | `TerminalDraftsMoveNoMoney` | step property under the lock |
| `LedgerProofs!TypeCorrect` | `TypeOK` | inductive with `RequestInv` |
| `LedgerProofs!DriftIsRaced` | `DriftNeedsARace` | `Inv`, and how a sum follows one changed term |
| `LedgerProofs!DeletedForEver` | `DeletedStaysDeleted` | step property under `Inv` |
| `AssistantProofs!AssistantTypeCorrect` | `AssistantTypeOK` | `AssistantInv`: `TurnInv` or `ClarInv`, whichever the scene keeps, and the types of the other |
| `AssistantProofs!ClarTypeCorrect` | `ClarTypeOK`, half of `AssistantTypeOK` | part of `ClarInv` |
| `AssistantProofs!AnswersAreTrue` | `SelectionAnswersAreTrue` | `SelectionInv` |
| `AssistantProofs!ChainIsSingle` | `ChainMovesForward` | `ClarInv`: a commit takes the one open question |
| `AssistantProofs!WalletStays` | `WalletIsNotForgotten` | `ClarInv`: a continuation copies the context |
| `AssistantTurnProofs!TurnTypeCorrect` | `TurnTypeOK`, the other half | part of `TurnInv` |
| `AssistantTurnProofs!OneExecution` | `OneExecutionPerKey` | `KeysInv`: a draft's key belongs to its maker |
| `AssistantTurnProofs!AnswersRecorded` | `AnswersAreRecorded` | `AnswerStands` for an own turn, `NameInv` for a replay |
| `AssistantTurnProofs!LeftoversHaveCauses` | `LeftoversNeedACause` | `EndStands`, `AuditStands` and `KeyInv` |
| `AssistantTurnProofs!FinishedStay` | `FinishedTurnsStay` | step property under `TurnStands` |
| `AssistantProofs!PlansStayBounded` | `PlansStayInBounds` | `LoopEnds`: what the fitting loop returns; `RecoveredFields`, `ValidIntentCases`: what survives to a plan |
| `AssistantProofs!GuessesHold` | `GuessesAreUnrivalled` | `OrderIsListed`: what sorting returns; `WorstMatch`, `StripsToTheEnd` |
| `ServicesProofs!ServicesTypeCorrect` | `ServicesTypeOK` | `ServicesAreTheirParts` and the three below |
| `ServicesProofs!ServicesKeepTheirWord` | the eight other invariants of the run `services` together | `ServicesAreTheirParts` |
| `ServicesProofs!RecordsTypeCorrect`, `ScheduleTypeCorrect` | `RecordsTypeOK`, `ScheduleTypeOK`, two parts of `ServicesTypeOK` | parts of the invariants below |
| `ServicesProofs!CallbackTypeCorrect` | `CallbackTypeOK`, the third | part of `CallbackInv` |
| `ServicesProofs!ButtonsAreTrue` | `ButtonsTellTheTruth` | `CallbackInv`: one press owns a consumed token |
| `ServicesProofs!RecordsStayTrue` | `RecordsAgree` | `RecordsInv`: an edit in flight finds a row to write |
| `ServicesProofs!TemplateIsUsable` | `TemplateStaysUsable` | `TemplateInv` |
| `ServicesProofs!MoneyIsRecorded` | `MoneyFollowsRecords` | `BookInv`, and how a sum grows with its set |
| `ServicesProofs!TermsArePaid` | `TermsFollowPayments` | `PayInv` over `BillAt`, the closed form of the schedule |
| `ServicesProofs!RepairsAreProven` | `RepairsNeedProof` | `RowsTellTheirEffect`: what a row that tells counts for is what it did; `PlanSettlesWallet` |
| `ServicesProofs!CycleHolds` | `SchedulesAddUp` | `CandidateIsFirst`, `ClosingIs`, `StepsAre`: what stepping by months reaches; `TermsAddUp` |
| `ServicesProofs!ReportsTellOneStory` | `ReportsAgree` | `BooksInv`; `PeriodIs`, `BucketsCut`: what a period and its buckets are; `TotalOfParts`: a sum over a partition; `ClosesFollow`: from one close to the next |

Inbound. `TypeOK` needs `InHand`: a worker past the start of a job has the job
and its row in hand, or the fields it copies have no type. `OncePerUpdate` is
not inductive: nothing in it says why a second worker on the same row does not
run it. The strengthening comes in two layers.

* `RowInv`, one row per update: two rows of one update are never both inserted
  (`RowsApart`), the update of a purged row is no longer open
  (`PurgedIsClosed`), and a worker holds only inserted rows (`HeldIsRow`).
* `RunInv`, one run per row: an executed job is a row (`ExecutedIsRow`); a job
  without an operation row was never executed (`FreshIsUnexecuted`); a worker at
  the call found the operation started by itself and nothing executed
  (`CallerIsFirst`); at most one worker per job is at the call (`OneCaller`); a
  worker about to complete has run (`CompleterRan`); a job ran at most once
  (`AtMostOnce`).

The guard's insert is the one step that makes `OneCaller` and `CallerIsFirst`
hold together, which is why the proof survives any number of lease expiries and
of writes by a worker that no longer owns its row.

`ReplyFollowsExecution` speaks of rows, but what makes it true is where the
workers are: `PathInv` says what each step may rely on (a worker about to reply
holds a completed operation, and the turn of a text is bound; one about to remove
a keyboard has queued a result), and that results and bindings never go away.
The refinement `PromiseKept` looks at one update at a time. Its state in
`InboxPromise` is `RowLife` of the row that carries it, so the simulation is a
case analysis over one row: a step changes nothing the abstract state shows, or
it is one of `InboxPromise`'s moves. `LifeInv` is the strengthening it needs
beyond the others: a row not yet inserted has no history, and no worker holds a
row that is gone.

Outbound. That no message has more copies than causes cannot be read off the
state: a copy is shown later than the mishap that allowed it. `Budget` counts,
for each delivery, the copies shown, the workers that may still show one
(`Chances`) and one more if its row can still be claimed (`RowChance`); the sum
never exceeds one plus the mishaps. A claim moves the row's chance to a worker,
a send turns a chance into a copy, and every step that adds a chance is one of
the mishaps the property names.

Drafts. `OneTransactionPerDraft` alone does not say why the next confirmation of
a draft makes nothing; `IInv` adds that a draft that was neither committed nor
failed has no link (`OpenUnlinked`), that the key which made a transaction stays bound to its
draft and a bound draft to a transaction (`CreatedIsBound`, `BoundIsLinked`), and
that whoever is about to expire or cancel a draft holds its row
lock and saw no link (`ClosersHoldLock`). `AnswersAreTrue` speaks of every answer ever given; it
follows from `OnlyDoneAnswer` (only a finished request has one) and `TruthTold`
(what was told still holds of the draft). The deletion of a conversation takes its
draft's link and keys together, so that `CreatedIsBound` speaks of the drafts that
are left, and whoever saw the draft before can only be refused.

Ledger. `DriftNeedsARace` compares a stored balance with a sum over all
transactions. `RequestInv` says what a request holds (an unused row to create, a
merged row that is exactly what the update writes); under it each step changes
one row and adds the same difference to the balance, or marks the wallet as
raced. `SumTheorems` gives the rest: the recursive function by which
`MapThenSumSet` is defined exists and is unique over a finite set, and the sum
follows the change of one term (`TotalFollows`). Deleting a wallet cascades over
several rows at once, and needs only that other wallets' terms stay. The set of
requests is finite by assumption, amounts and openings are any integers.

Clarifications. `ClarInv` follows each selection: until it commits it has
neither a next question nor a draft; once it has answered, the answer is how the
question ended. `ChainMovesForward` is then proved from two kinds of steps, those
at which nothing is won (`ChainStays`) and the one commit (`CommitOn`), which
takes the only open question away as it adds a question or a draft. `SelectAssumption`
asks for a conversation to exist, without which no selection could be made.

Turns. `TurnInv` has a part for each request (`RequestInv`: where its turn, its
draft, its answer and its audit row stand at each step) and a part about keys
(`KeysInv`): from the claim to the end a request owns its key's record
(`HoldInv`); a completed record repeats what its owner was told (`KeyInv`); and
a replay names a turn whose owner is done (`NameInv`). Every action moves one
request, so the proof shows that request's part, that the others' parts stay
(`RowsOfOthers`), and the few steps that touch somebody else's rows, the operator,
the deletion of a conversation and the expiry of a draft, on their own. Two facts make the proof
work: that no step that can throw comes after the draft, and that the key's record
is never handed on while its owner's turn exists.

Plans. A proposal is any answer of the model, and the plan is a function of it,
of the message and of the registered tools, so the work is in the operators.
`RecoveredFields` says what the recovery leaves of an answer and what it adds;
`NormalizedFields` the same of the normalisation; `ValidIntentCases` which of the
exits a plan came from. From these a plan's amount and type are traced back to the
answer or the message (`NothingAdded`), a question to a field that was missing in
both (`QuestionsAreFair`), and an action to the risk of the registered tool
(`RisksAreConfirmed`).

Context. The fitting loop is a recursive function on the sets of items that may
be kept. `UnwindingsExist` shows that such a function exists on the subsets of any
finite set, since every round removes a member; `LoopEnds` goes over those subsets
by induction: the loop gives up only when the protected turn alone is too large,
or it keeps the protected turn and the newest of the rest, and the newest thing it
dropped would not have fitted. That the limits hold (`SelectionIsSmall`,
`TurnsAreFew`) is counting: among the n newest of a set the oldest has fewer
than n after it, and turns are told apart by their newest message. The history
is any sequence of events, and every limit any number the code accepts.

Guesses. A resolution compares the best match with every other, so the proof needs
to know what comes first. `OrderIsListed` says it of any finite set and any strict
total order: an element's place is the number of those before it, smaller for the
earlier of two, hence different for different elements, hence every place is
taken. Scores take four values, and only 1000 is more than the margin above 900:
a settled name with a rival was spelled out, and the rival, at 900 without being
one of the aliases, differs in its punctuation (`WorstMatch`). The filters of the
aliases take words away and add none (`AliasesAre`). `FewAreBest` says
the same of suggestions: whoever is left out comes after the last one shown.
Normalization is a fold over the payment words. `StripsExist` shows that its
recursive function exists, and induction over the places of the list shows that
something is always left (`StripLeavesWords`) and that one payment word is
stripped wherever the list has it (`StripRemovesPayment`). `ResolutionAssumption`
asks for room for two options in a question (the code has five);
`CategorizationAssumption` for different names of one type's categories and one
mapping for a normalized merchant, the unique keys of their tables.

Buttons. A press is several steps, before and after the claim of its token, and its
connection, the question or draft and the clock may change in between. `PressStands`
says what a press may rely on at each step: one past the check was vouched for, one
past the claim owns a consumed token, and what it will say or has said is true
(`SaidTruly`). `CallbackInv` adds what relates presses to one another and to the
matter: a token is claimed by one press (`OneClaim`); while the question or draft is
open, the press that used a button up is at work, failed or died (`UsedUp`); at most
one button acted, and only when the question or draft ended (`OneActs`), and the press
of that one was vouched for (`SettledIsVouched`); an identity is linked to one user
(`OneUser`); there is a question or draft when there is a keyboard (`Asked`). Since presses
move one at a time and an ending is final but for its deletion, the proof is that
nothing a press relies on is taken back (`CallbacksGrow`): one lemma for each step of
a press (`FindKept` to `FaultKept`), one for all the ways an action can end
(`GoesKept`), and one for what happens outside of presses (`LinksKept`).

Records. Every edit reads, decides and writes later. `RecordsAgree` becomes
inductive once it is known that an edit in flight finds a row to write, and that
one about credit settings still finds a credit wallet unless a wallet was retyped
(`EditStands`). When a write finds its row changed since it was read, the observer
`stale` remembers it, and the property excuses exactly what is stale. `RecordsSpec`
lets edits of all four families interleave, which is more than a behaviour of the
run does.

Payments. `BillAt(n)` is the schedule after n counted payments, and the row is one
of them. `PayInv` says that the schedule never counts more payments than were
booked, and, until two payments overlap, counts them all, owes what they sum to and
was read as it is by whoever is about to pay. `BookInv` ties the wallet to the sum over the
transactions booked so far, a set that grows (`TotalGrows`), each booking to a
payment or a completed reminder, and each completed reminder to one booking.
`TemplateInv` follows an update from its read to its write: until two updates overlap,
what it will write is the template as it is, merged with what was asked.

Reconciliation. What the audit computes of a row and what the row did to a wallet
agree if the row tells it (`ToldBy`: no transfer without a destination credited the
wallet, no installment of its own is lost; `RowsTellTheirEffect`). Of such a wallet the
audited difference is what the tables do not know, an opening that was not recorded and
a change by hand (`AuditReads`, `AuditOfWallet`). What the plan calls eligible
has a verified opening, hence its expected balance is the true one
(`RepairsAreRight`), and with a recorded opening the difference is the change by hand
(`OverrideIsTakenBack`). The plan has at most one proposal for a wallet, its difference
(`PlanEntries`, `PlanSettlesWallet`), so that applying it makes every audit
clean, also of wallets whose rows tell nothing (`PlanSettles`).

Calendar. A clamped date keeps its month, so whether one date is after another is
decided by months unless they are in the same one. All of a template's dates in
months before today's are past and all in later months are not; only today's
month needs a look at the day (`CandidateIsFirst`), and the same distinction gives
the month a statement closes in (`ClosingIs`). Stepping by months loses days: after
k steps the day is the stored one or the length of the shortest month on the way.
`OneMore` shows that this follows the steps, `StepsAre` that the recursive function
is therefore this one, by induction over its domain (`Climbing`, from
`SubsetInduction`). A rounded term differs from the exact one by at most half a cent
(`Rounding`); `TermsAddUp` multiplies that by the number of terms. Nothing is
assumed of the months (`CalendarAssumption`) but that the first is positive and not after
the last, of payment days but that they are days of a month, and of a loan but that
its principal and terms are positive and its rate at most 100 % a month.

Reports. The invariant (`BooksInv`) is short: what is booked is a finite set of
rows of the two wallets with different ids, and the time is one the calendar
reaches around. All the work is in the operators.

* Ranges. The first days of the months increase strictly (`MonthsGrow`), so a day is
  in one month (`MonthOfDayIs`), and every period and the one before it are whole
  days that touch (`PeriodIs`).
* Buckets. By day they are the days of the range, by month the months from the one
  that holds its start to the one that holds its last instant, the first and the last
  clipped (`DayBuckets`, `MonthBuckets`). Either way each starts where the one before it
  ends (`BucketsCut`), so every row of the range is in the bucket the single pass
  puts it into, and in no other (`BucketOfIs`).
* Sums. `TotalOfParts` says that a sum over a finite set is the sum over the classes
  of any function on it of their sums. Buckets, wallets and categories are such
  functions, hence `TrendsAddUp`, `WalletsAddUp` and `CategoriesAddUp`.
* Pages. The listing is an order of the rows (`ListingLists`): each row is in one place,
  which gives the count. A page continues where the pages before it end and the last one
  ends with the listing (`PagesNeeded`), so that joined they are a prefix that grows
  to the whole (`JoinedIs`, `PagesAddUp`).
* Budgets. What was spent on a category is the same sum, however the rows are grouped
  first (`BudgetsAlwaysAgree`).
* Balances. The days of a sparkline touch (`SparklineDaysAre`, `DaysGrow`). What a day
  closes with is the opening balance, what was dated before its end and what is dated
  beyond today, three disjoint sets whose effects add up (`EffectsAdd`, `ClosesAre`); from one day
  to a later one only the second grows, by what is dated between them (`ClosesFollow`).
  A point is a close unless the wallet was not created yet (`PointsAre`).

The calendar may have any months of any lengths, and a year any number of them.

Compositions. A scene leaves the variables of the other services alone, so a behaviour
of `Services` is a behaviour of each part's specification (`ServicesAreTheirParts`)
and what is proved of its parts holds of the specification that the run checks. In
`Assistant` that is not so: requests and selections write the same rows of a conversation,
and while one kind does the other's own invariant says nothing of them. `AssistantInv`
keeps the invariant of the scene, and the types of what the other remembers.

The other theorems of `AssistantProofs`, `AssistantTurnProofs` and `ServicesProofs` are
about the components' own specifications (`ClarSpec`, `TurnSpec`, `PlanSpec`,
`ContextSpec`, `ResolveSpec`, `SuggestSpec`, `CallbackSpec`, `RecordsSpec`, `ScheduleSpec`,
`ReconciliationSpec`, `CycleSpec`, `ReportingSpec`), for any sets of requests, selections,
presses, editors, keys, conversations and amounts. A behaviour of the run `assistant` that
chose one of these scenes is a behaviour of that specification, with the other
scenes' variables at rest.

The assumptions are those stated with the constants (`ConstantsAssumption`,
`TurnAssumption`, `StoreAssumption`, `SelectAssumption` and so on), which TLC
evaluates on every run. Some of them say more than that a constant is a number:
`RecordsAssumption` keeps merchants apart from the marks for a free and a removed
row; `PlanAssumption` lists the fields of an answer and the texts a type may be
(one of the two, or any other as "bad"); `ReconciliationAssumption` says what a
stored row charged (its amount, or an installment's lock, which is positive), that only
transfers credit a wallet and that a recorded destination is the wallet credited; `RowsAssumption` says
what a row of the books is (amounts not negative, an installment's total at least its
monthly amount, ids that are unique), and `CalendarReaches` that months exist for every
period a report may ask for.

Every invariant and every action property that a passing run checks is stated by a
theorem. Model-checked only: all liveness (fairness and ENABLED are outside the prover's
reach), and what the runs that expect a violation find.

## 5. Not modelled

* The HTTP boundary: parsing, authentication, rate limiting, configuration,
  logging. It keeps no state but the process-local rate limiter, and what it
  admits is the set of inputs the modules enumerate.
* Language model providers, prompts and the rendering of answers: one outgoing call
  per request, which `AssistantTurn` lets return anything, fail or never return,
  and text layout.
* The guided amount question of the Assistant: no request reaches it.
* Lists and projections that only read: conversations and their recovery state,
  bills, notifications, categories, the dashboard, the operator's visibility
  report. A budget's health label is one comparison of what `Reporting` computes.
* What becomes of a booked transaction later: the transaction service may edit or delete
  the transfer of an installment's payment (`paidTerms` stays) or the transaction of a
  confirmed reminder. `Ledger` has such edits, `ScheduledPayments` has not, so
  `MoneyFollowsRecords` and `TermsFollowPayments` speak of wallets otherwise left alone.
* Archived conversations as far as buttons go, and the keyboards after the first of a
  chain of questions.
* CSV export: which rows of a period it prints, and under which day.
* Marking a notification as read and a job as reviewed: flags nothing else reads.
* The category and date checks of the ledger, and deletion of terminal callback
  tokens: they decide only whether a request is refused or a dead row is kept.
* Generated Prisma code, migrations and scripts that seed data.

## 6. Plan

What is left: the inbox and the buttons composed, so that a command or a press that is
repeated after a crash meets the code or token its first attempt used up; edits and
deletions of booked transactions beside `ScheduledPayments`; keyboards along a chain of
questions; and the smaller parts §5 lists, the dashboard's composition, the projections
of the bills' queries, the checks a transaction's category and date go through. The
theorems cover what the modules hold today; a new action needs its case in the step
lemma of its module.
