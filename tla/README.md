# FounderFirst in TLA+

FounderFirst ("Penny") is bookkeeping software for small businesses and their
accountants. Its books live in a Postgres database: every change of them is a
`SECURITY DEFINER` function in `supabase/migrations/`, called by a Deno edge
function in `supabase/functions/`, each call one READ COMMITTED transaction. Around
the books stand edge functions and Workers that ask services outside (Plaid, QuickBooks,
PayPal, TaxBandits, Resend, Discord, language models) and then write down what they
were told. The applications in `apps/` call those functions, read views and compute
reports and schedules from what they read. This project models the parts of that in
which an order of steps, a lost answer or a boundary case decides whether the books are
right, model-checks them with TLC and proves the most important ones with TLAPS. Paths
below are relative to the repository.

## 1. The system

| Part | State | Operations | Modules |
|---|---|---|---|
| General ledger | `journal_entries`, `journal_lines`, `accounting_periods`, `org_accounting_settings` | `post_`, `approve_`, `reverse_journal_entry`, `recategorize_entry`, `close_`/`reopen_accounting_period`, `ensure_open_period`, `set_org_accounting_settings` | `Journal` `Ledger` `LedgerSessions` `Books` |
| Bank-transaction ingest | `bank_transactions`, `external_connections.sync_cursor` and `status`, `ingest_content_index`, `import_rows` | `plaid-webhook`, `plaid-sync`, `plaid-exchange`, `runPlaidSync`, `plaid_ingest_transactions`, `commit_import_batch`, index-pruning trigger | `Ingest` |
| Bank reconciliation | `reconciliation_sessions`, `reconciliation_matches` | `reconcile_open_session`, `_match`, `_unmatch`, `_lock`, `_reopen`, the reversal trigger, the cascade of deleted lines | `Reconcile` |
| Invoices and bills | `invoices`, `bills`, their payments | upsert, send/enter, pay, void, the e-mail | `Documents` |
| Penny's autonomy | `penny_activity`, asks in `ai_decisions` | triage (auto-post, queue or ask), approve, `undo_penny_activity` | `Autonomy` |
| Memberships | `memberships`, `invites`, `engagements`, `client_assignments` | invite, accept, remove, transfer, revoke, assign | `Membership` |
| PayPal payouts | posted payouts in the ledger | API window, uploaded report, post | `Payouts` |
| Fixed assets | `fixed_assets`, `asset_depreciation_lines`, class parameters | compute, post, dispose, browser preview | `FixedAssets` |
| Reports | what the browser read of the entries | the paged read, trial balance, income statement, balance sheet, cash flow, general ledger, aging | `Pages` `Statements` |
| Month end | `accounting_periods`, open flags, previewed imports, `fx_rates` | `cpa_batch_close_periods`, `close_` and `reopen_accounting_period` with `run_period_fx_revaluation`, foreign posts and their correction | `MonthEnd` |
| QuickBooks connection | `external_connections`, the grant at Intuit | callback, import with refresh and retries, disconnect | `Connection` |
| 1099 e-filing | `tax_1099_submissions` | TIN match, transmit, dry run | `Efile` |
| Welcome e-mail | `welcome_sends` | claim, send, give back | `Welcome` |
| Scheduled e-mail | `email_schedules` | the hourly run | `Dispatch` |
| Website chat | the isolate's cache and canned replies, `ai_decisions` | a turn, the inline gates, the panel, the CTA gate | `Chat` |
| Discord bot | `discord_links`, memory and its summary | a message, fold, disconnect, erase | `Discord` |
| Signals | `sig_items`, `sig_scores`, `sig_leads`, `sig_sources` | poll, claim, score, draft, staff's stages, the optimizer | `Signals` |

How they meet: everything that moves money ends in `post_journal_entry` or
`reverse_journal_entry`; a reversal fires two triggers, one that prunes the content
index of `Ingest` and one that reopens matches in `Reconcile`; a closed period refuses
all of them; `can_write_org_as` guards every call. The other components touch the ledger
only through those RPCs and share no table with one another.

What is hard here:

* **Interleaving.** READ COMMITTED means each statement sees what has been committed by
  the time it starts. A status read without a lock may be stale when it is used;
  a trigger does not see uncommitted rows; `INSERT ... ON CONFLICT` waits and then
  acts on a row nobody checked. Locks can form cycles. Workers and browsers have no
  locks at all: an `await` separates every read from its write.
* **Retries, lost answers, crashes.** Pages of the bank feed are delivered again, late, in
  competition, after a crash between ingest and cursor. A request to a service may
  have been carried out although its answer is lost; a run may die between two writes.
* **Corrections without edits.** The journal is append-only: every correction is a
  reversal with or without a repost. What points at an entry (an index, a match,
  a bank transaction, an invoice, a depreciation line) may point at one that has
  been replaced.
* **Limits and rounding.** Weekly budgets, retries, windows of dates, pages of 1000 rows,
  percentages that do not divide.

`PROJECT.json` lists the hazards at their lines and the properties that watch them.

## 2. Modules

**The ledger.** `Journal` holds what the ledger modules share: rows identified by
idempotency key, lines, mirroring, account swaps, and what reports add up. `Ledger` has
one action per RPC, the whole RPC in one step: what the code does when calls do
not overlap. `LedgerSessions` takes the same RPCs apart into the statements at which a
session can wait or read what another may change, up to the commit that makes them
visible; locks are the session's own fields (`entry`, `share`, `excl`, `made`, `ins`),
and a statement that would wait is an action that is not enabled. `Books` is the abstract
promise: rows are added, at most one cancellation each, a closed month takes nothing.
Both implement it under the mapping `BookRows`.

**Beside the ledger.** `Ingest` models what begins a sync (a webhook, which is announced at
least once, answered 200 whatever happens and ignored while the connection is in error; a
user who asks for it; a new link), the loop of `runPlaidSync` (one process per running
invocation: fetch, ingest, store the cursor, or die), in which a page says when it is fetched
whether there are more, the branches of the ingest RPC, the commit of statement rows, the
content index they share, and the closes and corrections of users. Both RPCs run under an
advisory lock of the account, so each is one action. An entry may be the other source's: a
transaction of the content of a posted row is bound to that row's entry, and two equal
transactions to the same one (`20260704040000_w2_crosssource_ingest_dedup.sql`). The
comments of that migration promise that this does not happen; `OwnEntries` says so and
`feed_merged` refutes it. A withdrawal of either then takes the entry back for both, which
is what `TakenByAnother` names. External: Plaid reports what has changed since a cursor in its present
state; the bank adds, changes and withdraws transactions. `Reconcile` models one
statement and the database sessions that match, unmatch, lock, reopen and restate it,
reverse a matched entry (with the trigger's two updates) or delete staged lines (with the
cascade to their matches), cut wherever a row lock is waited for. An unmatch takes two of
them in one statement (`for update of m, s`), first the match and then the statement. A
database that finds a cycle of waits aborts one of its calls (`DeadlockVictim`).

**The office** (`MCOffice`). `Documents`: calls of the two edge functions with their
read, their transaction and the mail after it; what is posted is kept per document as
accrual and payments. `Autonomy`: triage is two RPCs, each a transaction that
may commit and lose its answer. `Membership`: requests read and write in two
steps except where the code locks. `Payouts`: a history of provider transactions,
windows over it, and the ids under which the two paths post. `FixedAssets`: the
schedule functions of SQL and of the browser, year by year, each year's row computed from
the rows before it, and what is posted from them. The database computes in decimals and
refuses a table that ends too early; the browser multiplies doubles, and where the exact
product is a whole number of cents the double may fall short of it and be rounded down to
the cent before (`Short` holds those products: 14.29 % of 700.00 is 100.02 there and
100.03 in the database). `Pages`: a book of two-line entries and the paged read of it while
it moves. `Statements`, which extends it: the report functions
over that book; a sorted list is a set of lines and an order (`Ordered`), a running total a
function of the position. `MonthEnd`: the transactions of an accounting firm and its clients,
cut at the statements that wait for a period row or a unique key, as in `LedgerSessions`
but with base amounts, rates that change, batches over several clients, and a database that aborts one of the sessions that wait for each other.

**The services** (`MCServices`). `Connection`, `Efile`, `Welcome`, `Dispatch`, `Chat`,
`Discord`, `Signals`: each request to a service and each statement of the database is a
step; the service's answers are any it may give, lost ones included.

The composing modules `MCOffice` and `MCServices` explore one component at a time (the
variable `component`): the components share no state, so a product of their states would
show nothing more. They reduce further where behaviours repeat: documents share no row,
so one is followed (`OneDocument`); the paged read does not look at accounts
(`OnlyLoans`); the pipeline and the optimizer of `Signals` are looked at in turn
(`OnlyScoring`, `OnePuller`) with the five stages the worker tells apart (`FewStages`).

Definitions whose comment begins with "Wrong" are the code with a plausible bug in it;
`PROJECT.json` uses them to show that each property can fail.

## 3. Runs

| Run | Question | Result |
|---|---|---|
| `ledger` | Does any order of RPCs break the types, the pairing of reversals, the two legs of a recategorisation, the trial balance, frozen closed months, append-only rows, the approval gate, or what a recategorisation moves? | holds |
| `ledger_sessions` | Do three interleaved sessions implement `Books`, undo an entry once, keep a checked month open until they commit, and is every call answered? | holds, for a month that has its period row |
| `first_post` | And when the period row is still missing? | **violated**: the loser of the insert posts into a month closed meanwhile |
| `feed` | One sync at a time, which may die or be refused, zero amounts, a closing month, a user's correction: are the books what the bank says once the feed is caught up, is the cursor never ahead of them, is no change forgotten? Two competing syncs: does a transaction ever count twice, do an added transaction and an imported row of the same content both post? | holds; what `FeedFaithful` excepts is named below |
| `feed_merged` | Two transactions of the feed with the content of one statement row? | **violated**: both are bound to its entry, and one of them is not in the books |
| `feed_race` | A page fetched before a removal that arrives after it? | **violated**: the transaction comes back |
| `feed_stuck` | A user's correction, then a change by the bank, and webhooks that keep coming? | **violated**: the page is refused at every sync |
| `recategorised_twice` | Can the other source post what was recategorised? | **violated**: the repost is not in the content index |
| `reconcile` | Are matches one to one, does a locked statement tie, does nothing in flight land on it, and where can calls wait for one another in a cycle? | holds, without reversals and deletions for the tie; every cycle passes an unmatch |
| `reconcile_drift` | And when a reversal races the lock? | **violated**: the trigger passes over a lock that is not committed |
| `office` | Documents agree with the ledger; the weekly budget and Penny's feed hold; an owner remains and an invitation grants once; deposits are transfers; schedules agree; reports agree and miss nothing; no entry slips in behind the count of a batch close; a revaluation counts once and in its month only | holds, under the conditions named in the properties |
| `services` | A confirmed revocation leaves nothing alive; only matched vendors are filed and the log is honest; one welcome; the gates hold in a warm isolate and what is held back never passes for approved; a recurring mail goes once per period; while messages come one at a time the bot forgets at a fresh start and folds away only what its summary covers; workers keep apart and the optimizer spares proven sources; every call of a connection ends | holds, likewise |

The violated runs are findings: each quotes the sentence of the repository it contradicts.
Some properties of the office and the services are conjunctions of two or three stated
separately in the modules (`DocumentsTie`, `AutonomyHolds`, `MembershipHolds`, `SchedulesAgree`,
`ReportsAgree`, `MemoryHolds`, `LogIsHonest`, `WorkersStayApart`, `LocksHold`,
`FeedFaithful`, `NoneForgotten`).

### What the code does not keep

The modules also state promises of comments and docs that the code breaks. They have no
run of their own; each is found violated when it is added to the run of its component.

| Definition | What happens |
|---|---|
| `SentIsImmutable` (`Documents`) | an edit reads "draft" without a lock and lands after the send |
| `UndoNetsBack` (`Autonomy`) | the undo reverses Penny's repost; the entry it replaced stays reversed, so the transaction is on no account |
| `KeepsAnOwner` (`Membership`) | two owners who remove each other at once both pass the count |
| `ReportsReconcile`, `CollapsesToOne` (`Payouts`) | an uploaded report splits by other rules than the API and posts a transfer under an id of its own |
| `NoCycle` (`Reconcile`) | an unmatch holds the match and waits for the statement, a reversal's trigger holds the statement and waits for the match: one of them is aborted |
| `RecoversExactly`, `PreviewMirrors`, `DisposalClearsContra` (`FixedAssets`) | lines of a superseded class stay; the preview differs from the stored schedule by the cents that products of doubles are short; of the year of a disposal a part is cleared, and the whole or nothing was posted |
| `RunningBalances`, `AgingTies`, `ReportsInBase` (`Statements`), `StableAcrossPages` (`Pages`) | accounts are told apart by label in the order of the lines; an overpayment is in no bucket; base amounts are not selected; an entry posted meanwhile shifts the pages |
| `ClosedAtTheRate`, `NoDoubleClose`, `NoWaitCycle`, `RecategorizingKeepsBase` (`MonthEnd`) | see below |
| `DisconnectedHoldsNothing`, `GivesUpAfterRetries` (`Connection`) | an import in flight stores tokens after the row was cleared; a refresh counts as a wait |
| `FiledTinsMatched`, `AcceptedIsAccepted` (`Efile`) | a later match of another payload lets a TIN through; "transmitted" is logged as accepted |
| `FailureNotSticky` (`Welcome`) | a request that dies keeps the claim |
| `OnceFiresOnce` (`Dispatch`) | a run that dies before its update sends again |
| `FloorHolds`, `BlockedTurnHasNoCta` (`Chat`) | a cold isolate without definitions passes everything; the canned reply is one object all requests write to |
| `ForgottenStaysForgotten`, `ArchivedIsSummarised` (`Discord`) | a message in flight outlives a fresh start; two folds archive what neither summarised |
| `StaffDraftStands`, `EverProvenKept` (`Signals`) | the worker writes over a staff draft; a source with an old reply is retired when its lead moved on |

More of the same kind, from the modules with other values:

* `Ingest`, which is what `FeedFaithful` excepts. An addition that is told again after a crash,
  with a newer amount, is skipped, so the books lag behind (`missed`). An amount that returns
  to an earlier one asks for a spent key and leaves the books (`NoReturn`). A transaction
  bound to a statement row's entry loses it to another one bound to it (`TakenByAnother`).
  What a user corrects stays corrected (`Corrected`) until the bank changes it, and then
  blocks the feed (`feed_stuck`). Also: a transaction added at zero is skipped and a later
  change of it posts without the duplicate check, and a change to zero refuses the page for
  good; a manual sync that fails sets the connection to "error", and webhooks are ignored
  until the item is linked anew; of two overlapping syncs the one that lags may store its cursor last.
* `Reconcile`: a match reads an entry before its reversal commits and is inserted after
  it; an entry that waits for approval may clear a line; `discard` deletes matches of a
  locked statement.
* The end of a month. `ClosedAtTheRate`: an entry lands between the sum of the
  revaluation and the update that closes; a month closed again after a reopening asks for
  the keys of its first revaluation and gets those entries back, so the difference that
  has come up since is not posted; the batch close does not revalue at all.
  `NoDoubleClose`: the second of two batches for one month finds the row it waited for
  closed, and takes the month before it instead. `NoWaitCycle`: two batches that name their
  clients in another order wait for each other, as do two closes of a month with a
  difference to post, each with a share of the row the other wants to update; the database
  aborts one, and with it every client of that batch. `RecategorizingKeepsBase`: a
  correction after the close reverses at the old rate and posts at the new one. And an
  accountant whose entries wait for approval cannot close a month with a difference: the
  revaluation is held, and an entry that waits cannot be reversed.
* The Discord bridge (`bridge.ts:232`) waits for kind "ok" where the worker answers
  "reply" (`discord.ts:205`): private channels are never created, and not modelled.

### Bounds

* `ledger`: two request keys (six row ids), two months, four accounts (one archived), an
  owner and an accountant, at most five rows: a post, its recategorisation, and a
  reversal and a further correction of either leg. `Horizon` (1) stands for the 120
  months the code looks ahead.
* `ledger_sessions`, `first_post`: three sessions, so that a pair can race while a third
  closes the month under them.
* `feed`: two transactions, four contents (two of one month, one of another, one of amount
  zero), a row of the content of both, three changes by the bank, a month that may close.
  In the first scene there is one sync at a time, no change goes back to a version whose
  key is spent (`NoReturn`), and a user's correction takes the place of the last change, so
  that a transaction can be added, changed and corrected, or two of them share an entry
  and one be withdrawn under the other. The second has two syncs of one transaction without
  zero or closes; a page that would be refused is one whose sync dies.
* `feed_merged`, `feed_race`, `feed_stuck`, `recategorised_twice`: the smallest constants that
  show what they show.
* `reconcile`: three sessions over two deposits and three lines, one of them staged for
  deletion and one of the opposite sign, which no entry clears (either deposit may clear the
  first line, one of them the staged one); balances 0 and 1. Three
  sessions are what a cycle and a bystander need. Requests are repeated without a bound.
  `reconcile_drift`: two sessions, a line and an entry.
* `office`: one invoice, one bill, two calls, totals to 2, so that there are partial
  payments; two entries, two triages, a budget of 1 over two weeks; two users, one firm,
  three invitations, two requests; four provider transactions in every order and two
  deposits; costs and percentages that do not divide, half-year lives, a salvage above
  the cost, four percentages with their two decimals (`Whole` is 10000) of which three have a
  product that is short as a double, a class whose table is missing;
  three entries on pages of two; two clients, two sessions and two months to close,
  two rates, and three of: requests (eleven of them), flags, new rates.
* `services`: two callbacks, an import and a disconnect with two token pairs; two vendors,
  two matchings and a filing; three signups; two turns with a rule and a judged gate;
  fourteen ticks, which are seven days of two hours; five messages with two in flight and a
  fold at two; two workers, two posts, one source.

`MaxRows`, `MaxChanges`, `MaxEdits`, `NMonths`, `Horizon`, `MaxTotal`, `Budget`, `Weeks`,
`MaxTxns`, `MaxEntries`, `MaxBook`, `MaxCalls`, `MaxGets`, `MaxPairs`, `MaxRetries`, `MaxTime`,
`MaxMessages`, `MaxEpochs`, `MaxWeeks` and `MaxRuns` are the bounds in guards (`Budget`
and `MaxRetries` are the code's own). Where bounded inputs run out the system rests: the
`Ingest` runs, `office` and `services` do not check for deadlock; the ledger and
reconciliation runs do.

### Fairness

`LedgerSessions!FairSpec` asks that a session that has begun keeps executing: the database
does not stop a transaction that can proceed; a lock wait is a disabled action, so weak
fairness only promises progress when the lock is free, and calls are not repeated, so
nobody is overtaken for ever. `Ingest!FairSpec` asks only that a sync that has begun runs to
its end. Nothing makes one begin: the webhook runs once per event and always answers 200,
and the other two wait for a user. So `KeepsCatchingUp`, which `feed_stuck` refutes, has it
as its condition that webhooks keep coming. That a change is not forgotten is a matter of
safety instead (`NewsIsDue`, a part of `NoneForgotten`). `Reconcile` assumes no fairness.
`MCServices` asks that a function of the connection that has begun goes on: its loop has no
other bound than its own counters, which is what `ServiceCallsEnd` is about.

## 4. Proofs

Each theorem holds for every value of the constants; TLC evaluates the assumptions.

| Module | Theorems | Inductive invariant |
|---|---|---|
| `LedgerProofs` | `TypeCorrect`, `ReversalsStayPaired`, `LegsStayTogether`, `ClosedMonthsAreFrozen`, `JournalIsAppendOnly`, `ApprovalIsRequired`, `LedgerImplementsBooks` | types, pairing, and both legs of a correction together |
| `LedgerProofs` | `TrialBalanceAlwaysTies`, `CorrectionsOnlyMove` | finitely many rows in the books, each balanced |
| `SessionsProofs` | `LocksHoldAlways`, `SessionsTypes` | what each lock is worth |
| `SessionsProofs` | `SessionsImplementBooks`, `SessionsFreezeClosedBooks`, where `RowsReady` | also what a session has made sure of about its month |
| `ReconcileProofs` | `TypesHold`, `MatchesAreOneToOne`, `LocksTieUndisturbed`, `LockedStatementsStay` | what a session has read and still holds |
| `ReconcileProofs` | `CyclesNeedAnUnmatch` | where each call may stand |
| `IngestProofs` | `IngestTypes`, `CountedOnce`, `FirstPostsAreDeduplicated` | whose entries are in the books; what the content index has of them |
| `IngestProofs` | `NothingIsPassedOver` | whatever has been told has its row |
| `IngestProofs` | `OneSyncBringsTheBooks`, `NewsIsNotForgotten`, for the scene of one sync at a time | the books say of each transaction what they have been told, the page in hand included |
| `OfficeProofs` | `DocumentsAlwaysTie` | document and entries agree, but for what a call in flight holds locked |
| `OfficeProofs` | `AutonomyAlwaysHolds` | an original on the holding account has no copy; what the holder of the lock counted is true |
| `OfficeProofs` | `MembershipAlwaysHolds` | a request holds the invitation it read; a removal leaves another owner |
| `OfficeProofs` | `NothingSlipsBehind` | a month that is shared is open, one that is about to change is locked, and what a batch has counted there is still so |
| `OfficeProofs` | `RevaluationsAlwaysNet` | a revaluation in the books has its opposite there, and of one key there is one |
| `OfficeProofs` | `DepositsAlwaysMatch` | each entry is posted under the id of a transfer of its own, for what that transfer moved |
| `OfficeProofs` | `PagedReadMissesNothing` | an entry not yet read has, before it, a page of entries for each page fetched |
| `OfficeProofs` | `StatementsAlwaysTie` | none: each entry debits what it credits, whatever the book |
| `OfficeProofs` | `ReversalsAlwaysNetOut`, `ReportsAlwaysAgree` | a reversal mirrors one earlier entry that is in the books and has no other |
| `OfficeProofs` | `SchedulesAlwaysAgree` | the lines stored under the first law are the schedule of that law; what is posted for a year is its line |
| `OfficeProofs` | `OfficeKeepsItsPromises`: the types and every property of the run `office`, of the composition | all of the above together, and of payouts, pages and the month end what their types need |
| `ServicesProofs` | `WelcomedAtMostOnce`, `TheLogIsHonest`, `ConfirmedStaysDead` | one claim in flight; what each call has been answered; whoever may still store a pair, and what it is worth at Intuit |
| `ServicesProofs` | `FloorHoldsOnceWarm`, `HeldBackIsSeen` | what a turn is judged by holds the floor; a held-back row knows its inline verdict |
| `ServicesProofs` | `NobodyGetsItTwice` | what went out in a period is out of reach of every run still to come in it |
| `ServicesProofs` | `MemoryAlwaysHolds` | a fold in flight is of the memory there still is |
| `ServicesProofs` | `SignalsTypes`, `TheyStayApart`, `TheProvenAreSpared` | a claimed post is "scoring"; what a run has found proven |
| `ServicesProofs` | `ServicesKeepTheirPromises`: the types and every invariant of the run `services`, of the composition | all of the above together, and of e-filings and connections what their types need |

`JournalProofs` holds the lemmas about `WithReversal`, `Mirror`, `Swap` and the pairing of
reversals that both ledger proofs cite: a reversal (with or without a repost) and
the growth of a journal by one row keep reversals paired. `SumProofs` holds those about sums.

*Sums.* The books add up with `SumFunction` of the community modules, a fold over a finite
set. `SumProofs` shows, for integers, that a sum of nothing is 0, that adding or leaving
out one index adds or leaves out its summand, that equal summands have equal sums,
that sums of sums and of differences are what they should be, and that a sum
does not depend on the names of its indices (`SumRenamed`), and that a sum over classes is
the sum of their sums (`SumByClass`). What stands in for an
induction over the set is its smallest part for which the claim fails, which exists because
the parts of a finite set are well-founded. In the same way a function that counts up from 0
exists and satisfies what each of its steps passes on (`IterationExists`, `CountingUp`), a
finite set of numbers has a least and a largest, and a finite set in an order is listed, each
element once and after those before it (`ListedIs`), so that a sum along the list is
the sum over the set (`SumListed`). That there are finitely many rows in
the books is not assumed: it is a conjunct of the invariant, `BooksAddUp`. That the chart
of accounts is finite is assumed (`JournalAssumption`).

*Ledger.* Pairing is not inductive by itself: a recategorisation checks that its `:new` row
is free and writes `:rev` and `:new`; that it overwrites no reversal follows from
`LegsTogether`, and that the row written for a free id had no history from the types. The trial balance
ties because every row in the books does, and a sum over rows of sums over accounts
is a sum over accounts of sums over rows; a correction adds a mirrored row and a moved
one, whose nets the lemma `MovedLines` compares account by account.

*Sessions.* `LocksHold` is about committed rows and checked months, its proof about
locks. The invariant says, session by session (`Serving`, `Holding`, `Inserting`,
`Locking`): a session past its lock statement holds the entry of its request in the state
it was read in; what it has inserted is in nobody's journal; a period it shares is
open. And, between sessions (`Exclusive`): no entry is held twice, no uncommitted key
is inserted twice, no shared period is held for update. `SessionStep` shows once that a
statement which writes nothing keeps all that for the others; each statement
is then about its own session. Only `Commit` writes: `CommitRows` and `CommitPeriods` say
what it changes, and that is always something the others cannot be relying on. That a
replayed repost finds its row uses `LegsTogether` again.

*Sessions as Books.* `SessionsImplementBooks` supposes `RowsReady`: a month that some
call may close has its row of a period to begin with. `ledger_sessions` has such constants,
and `first_post`, which has others, shows that it is false of them, so the condition
is what the finding is about. Everything else may be as it likes: months without a row are
posted to and get one. The invariant is `Inv` and, for each session, `Working`: the
lines of a post were found postable, the month of an approval is the month of its entry, and
the month that is about to be written to is not closed and is either held FOR SHARE or one
that nobody closes. `CommitMonths` says what a commit does to the months, and one lemma for
each operation which step of `Books` its commit is. `CommitLands` says what it does to a row,
from which `SessionsFreezeClosedBooks` follows.

*Reconciliation.* What a lock has summed stays true until it commits, because every
match waits for the statement row it holds; a reversal is the exception, which is why
`UndisturbedTies` names it. A call that waits and is no unmatch waits for a call that stands
further on, in the order in which locks are taken (`WaitsGoDown`: its `Rank` is higher), and
a finite set of ranks has no cycle of descents; so a cycle passes an unmatch that holds its
match and waits for the statement (`CyclesNeedAnUnmatch`).

*Ingest.* `CountsOnce` is about what counts now; that it survives the next page needs the
history: of one key at most one entry is live (`RepostsFollow`: an entry with a repost was
undone by a user, and so were those before it), the live entries of a transaction are of
the key it is bound to (`BoundToOwn`), and a transaction marked as reversed had its entry
reversed (`MarkedReversed`), whichever page was ingested late or twice. For
`FirstPostsDeduplicated` the index has to hold what was posted (`LiveIndexed`,
`RowsNamed`) and, for the feed, whatever has been told has to be in `bank_transactions`
(`FeedSeen`, from which `CursorNeverAhead` follows as well): an amount of zero is told and
skipped, so the theorem supposes that there is none (`Blank = {}`).

*Autonomy.* A repost is made from an original that is still posted, whoever makes it, so an
original on the holding account has no copy and of the copies one counts. The weekly
budget holds because the count is read and the row written under the advisory lock:
`Counts` says that whoever is counting holds the lock and that the number it read is
still the number of rows.

*Membership.* `Carries` says what `FOR UPDATE` on the invitation is worth: the request that
holds it finds it unanswered. `LeavesAnOwner` says what the count of the owners in
`remove_member` is worth, which is nothing once another removal has begun (`OneRemoves`);
transfers, acceptances and revocations never take an owner away.

*Month end.* That a batch leaves no blocker behind is a fact about two locks: a post shares
the row of the month it found open (`SharesOpen`), a close or a batch takes it for update from
the reading on (`LocksFirst`), and the two exclude each other (`Exclusive`). `MakesFew` says
that only a post can commit a blocker, and only to a month it shares, so nothing that is
committed between the count and the close can make the count untrue (`CountsTrue`).

The types of the month end need that a call in flight has a client to serve until it commits
and, where it takes a lock, a month to take it for (`MonthSession`): both are heads or parts of what is
left of its request.

The revaluation of a month and its opposite on the first of the next are two posts of one
transaction, so what is in the books of the one is in the books of the other
(`RevaluationsAlwaysNet`); and a second close of the month waits for the first one's key,
then finds it spent, so a month is revalued once. Both are about the uncommitted rows as
much as about the committed ones: a transaction that is aborted takes both away.

*Payouts.* `DepositsAreTransfers` compares two sums. Every posted entry of the API has
the id of a transfer it holds, and no id is posted twice (`Recorded`); of the entries that
hold one transfer, the net is what that transfer moved, because `Reconciles` has compared
the two. So entries and transfers correspond one to one with equal summands, which is what
`SumRenamed` asks; how a window is split into gross, fees, refunds and adjustments does not
matter to it. Only the type of an entry asks about the split: the gross is a sum of
magnitudes, so a natural number (`GrossIsNatural`).

*The paged read.* Entries are only ever added, so an entry's place in the order of the read
never falls (`Place` counts the entries before it). An entry that was there at first and
has not been read when `n` pages have been fetched has at least `n` times the page's size
before it; so it is on no page fetched so far because it is still to come, and a page that
is not full leaves no room for it. That an entry may be read twice, which
`StableAcrossPages` denies, does not matter to this.

*Statements.* A balance is a sum over entries of a sum over accounts. It is additive over
disjoint sets of accounts and over disjoint sets of dates, and over all accounts it is 0,
because each entry moves its amount from one account of the chart to another
(`StatementsAssumption`). `StatementsAlwaysTie` follows once the accounts of the chart have
been split into those the reports add up: by type for the sheet, by section for the cash
flow. The latter uses that an account in the cash section is an asset, as `classifyCashFlow`
has it.

*General ledger.* Lines are ordered by label, date, creation and side: `LineOrder` is total
and transitive because that is an order of numbers (`LineOrderIs`). So the lines of an
account whose label is its own stand together (`LinesStandTogether`), the running balance
adds them up from the first on (`RunningBalanceIs`), and at the last it has added all of
them, which is the account's balance (`LinesComeToNet`). Of accounts that share a label
their lines may alternate; that is where `RunningBalances` fails.

*Aging.* Payments applied in order to the open amounts leave of the first `n` what they fall short
of their sum, or nothing (`PaidOffIs`), for any amounts in any order; at the last that is the
balance, or nothing when customers have paid more than they owed (`AgingIsWhatIsOwed`).
`SumByClass` spreads it over the dates.

*Reversals of reversals.* `Standing` says which originals count by a recursion along the
chain of reversals, from its end: `fate`. That there is such a function is shown first: if
not, there would be a last entry of which it is not determined. The reversals of an original
form one chain, since an entry that has been reversed is not reversed again, and from
any entry of it on, what the rest of the chain moves is either what that entry moves or nothing,
as the entry stands or is undone.

*Fixed assets.* A run over the years (`RunIs`) keeps what it has taken below the base,
because a year's amount is clamped to what is left (`ClampedIsLeft`), and its rows add up to
what it has taken; the last line takes the rest, so that the rows of a schedule come to
the cost (`TrueUpIsExact`). All this holds of the browser's run as of the database's,
whichever products are short, since a product that is short is still no less than nothing.
Of a whole life the year after the span takes nothing (`NothingAfterLast`), so both runs take the same
for the books; for tax they drift apart by a cent a year at most, because a clamp brings two
amounts no further apart than they were (`PreviewIsClose`). An upsert under the first law
finds either no lines or those of the same schedule (`UpsertKeepsPosted`), so that it never
changes a line that was posted.

*One sync.* `Known` is what the books have been told of a transaction: the stored cursor, or
the page that has been ingested and whose cursor is not yet stored. `BooksAsKnown` says
that the row of a transaction and the entry it is bound to agree with that, whether it was
posted, changed, withdrawn, held back at zero or bound to the entry of a statement row; a
sync that dies after the ingest leaves the row a page ahead of the cursor, which the next sync
tells again (`missed` holds those whose second telling was skipped). `NoneComesBack` says that
a spent key is that of the version the books hold, which is what `NoReturn` is for: without
it the ingest of a returning version asks for a spent key. `NewsInv` follows a change from the
bank to the webhook, the sync and its last page. The theorems suppose that the one sync is
one of the workers (`w1 \in Workers`); invocations may die, users may edit as often as they
like, and months close under the feed.

*Chat.* `WarmFloorHolds` needs that the definitions of the isolate never lose the floor
once they have been loaded (`GatesSound`): a failed refresh keeps the stale ones and a query
that omits a mandatory rule gets it back. `HeldBackIsReviewed` is the maximum of the inline
verdict and the panel's (`WorstIsWorst`).

*Dispatch.* A recurring e-mail goes out at one hour of its day, or of its day of the week;
`OutOfReach` says that once a chunk has gone, either that hour is gone by or this very run is
past the chunk. It rests on arithmetic about hours, days and weeks (`HourAfterHour`,
`GoesBy`), for any length of a day. It does not use `last_run_at`: with one
tick an hour, each over within its hour, which the module assumes of pg_cron and the
function, the hour alone keeps a second run from sending a daily or weekly e-mail.

*Discord.* Only while messages come one at a time: `OneAtATime` says that the one handler
in flight holds a message of the present epoch and that its fold is of the memory there is.

*Documents, Welcome, Efile, Connection, Signals.* Each follows the same plan: say of every
position of a call what it has read or been told, and what of that nobody else can
change; one lemma per action; the property from the conjunction. The type of a connection
has its counters within their bounds: a pull waits no more often than it has attempted, and
attempts once more than `MaxRetries` only after its one refresh (`ConnectionBounded`).

*The compositions.* A step of `MCOffice` or `MCServices` is a step of one component and
leaves the variables of the others as they are, so it is a step or a stutter of each
(`OfficeStep`, `ServicesStep`). Whatever is inductive for a component by itself is so in the
company of the others, and the conjunction of their invariants implies the types and all
that the runs check.

Only model-checked: all liveness (`EveryCallAnswered` of the ledger's sessions and
`ServiceCallsEnd`), which the prover cannot reason about. Every
invariant and every action property of a passing run is stated by a theorem, three of them
under conditions: `RowsReady`, `Blank = {}` and `w1 \in Workers`.

## 5. What is left out

* **Not in the models of modelled parts.** The ledger modules have one currency: the
  revaluation that `close_accounting_period` runs first returns at once for such
  books. `MonthEnd` has the revaluation, of one account in one currency, and no
  realized differences of invoices and bills. Audit rows, learned rules, wording, MFA factors and the parsing of files are left
  out. Trial-balance and opening-balance batches, which post one entry, are not in
  `Ingest`, nor are entries of the feed that wait for approval. Deadlock detection by
  the database is modelled in `MonthEnd` and `Reconcile`; `ledger_sessions` shows that the
  waits of the ledger's own calls form no cycle. In the other modules a call
  holds one of the modelled locks at a time. Square and
  Stripe payouts, foreign-currency invoices, subscriptions, bonus elections by year,
  Xero's own endpoints: see the notes in `PROJECT.json`.
* **Not modelled.** CPA flags (but for their count at a batch close), notes and suggestions, catch-up plans, receipts, estimated tax and 1099 tracking: the next
  modules. The practice queue, audit log, rule matching, telemetry and retention read
  or append only. The staff console, content and e-mail editors, the front ends, the design
  system and the demo hold no state that an order of steps could break; most of the
  repository's lines are of that kind.
* **Hazards seen there and not yet covered**: a recategorisation's reversal that is
  itself reversed counts the transaction twice (`20260707080000_w5_4_writepath.sql:191`);
  a suggestion accepted after its entry was replaced; a batch approval that locks entries in
  another order than a single one; a receipt on an entry that is reversed, or
  offered to an entry that has one (`list_attached_receipts` answers a signed-in user, and the
  matcher in `functions/receipts/index.ts:296` asks as the service role); staging rows into a batch that is being committed; a closed month that blocks the whole page of a feed.

## 6. Plan

1. `Collaboration` and `CatchUp`: suggestions, flags and batch approvals over entries that
   are being corrected.
2. `Receipts` and `Staging`: what points at an entry or a batch that goes away.
3. Proofs: what several overlapping syncs leave in the books once they have come to rest.
