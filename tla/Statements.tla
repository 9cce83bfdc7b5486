----------------------------- MODULE Statements -----------------------------
(***************************************************************************)
(* The reports of the browser, computed from the entries that were read.   *)
(***************************************************************************)
EXTENDS Pages, Functions

CONSTANT Chart   \* the accounts: type, section of the cash flow, place of the label

Types    == {"asset", "liability", "equity", "income", "expense"}
Sections == {"cash", "operating", "investing", "financing"}

\* What the constants have to be: the modules that use this one assume it.
StatementsAssumption ==
  /\ PagesAssumption
  /\ \A a \in DOMAIN Chart :
       /\ Chart[a].type \in Types /\ Chart[a].section \in Sections /\ Chart[a].label \in Nat
       /\ Chart[a].section = "cash" => Chart[a].type = "asset"
  /\ \A p \in Postings : {p.debit, p.credit} \subseteq DOMAIN Chart

ChartAccounts == DOMAIN Chart

-----------------------------------------------------------------------------
(* Balances *)

\* Wrong: an entry that was reversed leaves the books, its reversal does not.
inBooksUnlessReversed(e) == e.status = "posted"

inBooks(e) == e.status # "pending_review"

\* The select of the entries does not name the base amount of a line, and the
\* reports fall back on the amount in the line's own currency.
Shown(e) == e.amount

\* What an entry moves on some accounts, debits less credits.
Moved(e, as) == (IF e.debit \in as THEN Shown(e) ELSE 0) - (IF e.credit \in as THEN Shown(e) ELSE 0)

\* The entries of a filter: those in the books of some dates.
Filtered(es, dates) == {i \in DOMAIN es : inBooks(es[i]) /\ es[i].date \in dates}

accountBalances(es, as, dates) == SumFunction([i \in Filtered(es, dates) |-> Moved(es[i], as)])

Net(es, a, dates) == accountBalances(es, {a}, dates)

OfType(t)  == {a \in ChartAccounts : Chart[a].type = t}
Cash       == {a \in ChartAccounts : Chart[a].section = "cash"}
Until(asOf) == 0..asOf

-----------------------------------------------------------------------------
(* The statements *)

netIncome(es, dates) == -accountBalances(es, OfType("income") \cup OfType("expense"), dates)

balanceSheet(es, asOf) ==
  [assets      |-> accountBalances(es, OfType("asset"), Until(asOf)),
   liabilities |-> -accountBalances(es, OfType("liability"), Until(asOf)),
   equity      |-> -accountBalances(es, OfType("equity"), Until(asOf)),
   earnings    |-> netIncome(es, Until(asOf))]

OpeningCash(es, from) == accountBalances(es, Cash, Until(from - 1))

OtherThanIncome(s) ==
  {a \in ChartAccounts : Chart[a].section = s /\ Chart[a].type \notin {"income", "expense"}}

\* Income and expense make the net income; every other account that is not cash
\* moves the cash the other way, in the section it belongs to.
cashFlow(es, from, to) ==
  LET moved(s)  == -accountBalances(es, OtherThanIncome(s), from..to)
      operating == netIncome(es, from..to) + moved("operating")
      change    == operating + moved("investing") + moved("financing")
  IN  [operating |-> operating, investing |-> moved("investing"),
       financing |-> moved("financing"), ending |-> OpeningCash(es, from) + change]

-----------------------------------------------------------------------------
(* The reports of lines *)

\* A set as a sequence, each element after those that come before it.
Ordered(S, before(_, _)) ==
  [n \in 1..Cardinality(S) |-> CHOOSE x \in S : Cardinality({y \in S : before(y, x)}) = n - 1]

\* A line is an entry and a side of it.
LedgerLines(es)   == Filtered(es, Dates) \X {"debit", "credit"}
AccountOf(es, l)  == es[l[1]][l[2]]
LabelOf(es, l)    == Chart[AccountOf(es, l)].label
LineAmount(es, l) == IF l[2] = "debit" THEN Shown(es[l[1]]) ELSE -Shown(es[l[1]])

\* By label, date and creation; the lines of one entry stay in their order.
LineBefore(es, k, l) ==
  \/ LabelOf(es, k) < LabelOf(es, l)
  \/ /\ LabelOf(es, k) = LabelOf(es, l)
     /\ \/ Newest(es[l[1]], es[k[1]])
        \/ k[1] = l[1] /\ k[2] = "debit" /\ l[2] = "credit"

\* The balance starts anew when the account changes.
RunningBalance(es, ls) ==
  LET balance[n \in 0..Len(ls)] ==
        IF n = 0 THEN 0
        ELSE LineAmount(es, ls[n])
             + (IF n > 1 /\ AccountOf(es, ls[n - 1]) = AccountOf(es, ls[n]) THEN balance[n - 1] ELSE 0)
  IN  balance

generalLedger(es) ==
  LET ls      == Ordered(LedgerLines(es), LAMBDA k, l : LineBefore(es, k, l))
      balance == RunningBalance(es, ls)
  IN  [n \in DOMAIN ls |-> [account |-> AccountOf(es, ls[n]), balance |-> balance[n]]]

\* Payments go to the oldest open amounts: what they leave of each.
PaidOff(open, payments) ==
  LET unapplied[n \in 0..Len(open)] ==
        IF n = 0 THEN payments ELSE unapplied[n - 1] - Min({unapplied[n - 1], open[n]})
  IN  [n \in DOMAIN open |-> open[n] - (unapplied[n - 1] - unapplied[n])]

\* What is open on a receivable account, by the date it was posted.
arAging(es, a, asOf) ==
  LET posts  == Filtered(es, Until(asOf))
      opens  == Ordered({i \in posts : es[i].debit = a}, LAMBDA i, j : Newest(es[j], es[i]))
      paid   == SumFunction([i \in {i \in posts : es[i].credit = a} |-> Shown(es[i])])
      left   == PaidOff([n \in DOMAIN opens |-> Shown(es[opens[n]])], paid)
      date   == [n \in DOMAIN opens |-> es[opens[n]].date]
  IN  [d \in {date[n] : n \in DOMAIN opens} |-> SumFunctionOnSet(left, {n \in DOMAIN opens : date[n] = d})]

-----------------------------------------------------------------------------
(* Properties *)

\* For every period the cash flow ends with the cash of the balance sheet, the
\* income statement explains how its earnings grew, and the sheet balances.
StatementsTie ==
  \A to \in Dates : \A from \in {d \in Dates : d <= to} :
    LET sheet == balanceSheet(book, to)
    IN  /\ cashFlow(book, from, to).ending = accountBalances(book, Cash, Until(to))
        /\ netIncome(book, from..to) = sheet.earnings - balanceSheet(book, from - 1).earnings
        /\ sheet.assets = sheet.liabilities + sheet.equity + sheet.earnings

\* Originals that no standing reversal undoes.
Standing ==
  LET fate[i \in DOMAIN book] ==
        IF ~inBooks(book[i]) THEN "waits"
        ELSE IF \E j \in DOMAIN book : j > i /\ book[j].reverses = i /\ fate[j] = "stands"
             THEN "undone" ELSE "stands"
  IN  {i \in DOMAIN book : book[i].reverses = 0 /\ fate[i] = "stands"}

\* A reversed entry and its reversal, both in the books, come to nothing, and a
\* reversal of the reversal brings the entry back.
ReversalsNetOut ==
  \A a \in ChartAccounts :
    Net(book, a, Dates) = SumFunction([i \in Standing |-> Moved(book[i], {a})])

RunsTo(as) ==
  LET rows == generalLedger(book)
  IN  \A a \in as : \A i \in DOMAIN rows :
        (rows[i].account = a /\ ~\E j \in DOMAIN rows : j > i /\ rows[j].account = a) =>
           rows[i].balance = Net(book, a, Dates)

\* The running balance of the general ledger ends at the balance of the account,
\* in whatever order entries were dated, posted and reversed: for the accounts
\* whose label is theirs alone.
LedgerRunsToBalances ==
  RunsTo({a \in ChartAccounts : \A b \in ChartAccounts : Chart[a].label = Chart[b].label => a = b})

\* generalLedger promises a per-account running balance to every account: known
\* to fail, for accounts with one label run into each other.
RunningBalances == RunsTo(ChartAccounts)

Receivables == {a \in OfType("asset") : Chart[a].receivable}
Aged(a, asOf) == SumFunction(arAging(book, a, asOf))

\* What is open by age comes to the balance of the account, however payments
\* and reversals overlap the amounts, and to nothing when customers have paid
\* more than they owed.
AgingIsWhatIsOwed ==
  \A a \in Receivables, d \in Dates : Aged(a, d) = Max({0, Net(book, a, Until(d))})

\* reports.ts says every bucket sum ties back to the book balance to the cent:
\* known to fail, for an overpayment is in no bucket.
AgingTies ==
  \A a \in Receivables, d \in Dates : Aged(a, d) = Net(book, a, Until(d))

\* Every report agrees with every other on the same entries, from the first on.
ReportsAgree ==
  book # <<>> => StatementsTie /\ ReversalsNetOut /\ LedgerRunsToBalances /\ AgingIsWhatIsOwed

\* reports.ts says the reports add base amounts, so that mixed currencies net:
\* known to fail, for the base amounts are not among what was selected.
ReportsInBase ==
  \A a \in ChartAccounts : Net(book, a, Dates) =
    SumFunction([i \in Filtered(book, Dates) |->
                   (IF book[i].debit = a THEN book[i].base ELSE 0)
                     - (IF book[i].credit = a THEN book[i].base ELSE 0)])
=============================================================================
