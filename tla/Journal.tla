------------------------------- MODULE Journal -------------------------------
(***************************************************************************)
(* The rows of the double-entry journal and the periods they are posted    *)
(* into, with the operators every module about the ledger shares.  One     *)
(* organisation, one home currency.  A row is identified by its            *)
(* idempotency key, which the database keeps unique per organisation: a    *)
(* request key k names the row <<k, "">> of a post or a reversal, and the  *)
(* rows <<k, ":rev">>, <<k, ":new">> of a recategorisation.                *)
(***************************************************************************)
EXTENDS Integers, FiniteSets, Functions

CONSTANTS Keys,      \* idempotency keys clients send
          Accounts,  \* the chart of accounts
          Archived,  \* the accounts that take no new line
          Actors,    \* users
          NMonths,   \* length of the modelled calendar
          Horizon,   \* months a default reversal date may roll forward
          None

Months == 1 .. NMonths
Ids    == Keys \X {"", ":rev", ":new"}

ASSUME JournalAssumption ==
  /\ NMonths \in Nat \ {0}
  /\ Horizon \in Nat
  /\ IsFiniteSet(Accounts) /\ Archived \subseteq Accounts
  /\ None \notin Ids
  /\ None \notin Actors

PeriodStatus == {"none", "open", "closed"}      \* "none": no row yet
EntryStatus  == {"absent", "pending_review", "posted", "reversed"}
Sources      == {"manual", "reversal", "recategorize"}

\* What an entry's lines put on each account: the debits and the credits.
Lines == [Accounts -> [D : Nat, C : Nat]]

Entry == [status     : EntryStatus,
          month      : Months,
          source     : Sources,
          reverses   : Ids \cup {None},
          lines      : Lines,
          by         : Actors \cup {None},
          approvedBy : Actors \cup {None}]

NoLines == [x \in Accounts |-> [D |-> 0, C |-> 0]]
NoEntry == [status |-> "absent", month |-> 1, source |-> "manual",
            reverses |-> None, lines |-> NoLines, by |-> None,
            approvedBy |-> None]

-----------------------------------------------------------------------------
(* Lines *)

Touches(l, x) == l[x].D + l[x].C > 0

Balanced(l) == SumFunction([x \in Accounts |-> l[x].D]) = SumFunction([x \in Accounts |-> l[x].C])

Mirror(l) == [x \in Accounts |-> [D |-> l[x].C, C |-> l[x].D]]

\* Wrong: overwrites what the entry already has on account t.
SwapOver(l, f, t) ==
  [x \in Accounts |-> IF x = t THEN l[f] ELSE IF x = f THEN [D |-> 0, C |-> 0] ELSE l[x]]

\* Every line on account f is moved to account t.
Swap(l, f, t) ==
  [x \in Accounts |->
     IF f = t THEN l[x]
     ELSE IF x = f THEN [D |-> 0, C |-> 0]
     ELSE IF x = t THEN [D |-> l[f].D + l[t].D, C |-> l[f].C + l[t].C]
     ELSE l[x]]

OnActiveAccounts(l) == \A x \in Accounts : Touches(l, x) => x \notin Archived

Postable(l) == Balanced(l) /\ OnActiveAccounts(l) /\ \E x \in Accounts : Touches(l, x)

-----------------------------------------------------------------------------
(* Rows *)

NewEntry(st, m, l, src, a) ==
  [status |-> st, month |-> m, source |-> src, reverses |-> None,
   lines |-> l, by |-> a, approvedBy |-> None]

ReversalOf(j, i, m, a) ==
  [NewEntry("posted", m, Mirror(j[i].lines), "reversal", a) EXCEPT !.reverses = i]

\* The journal after i is reversed by the new row r in month m.
WithReversal(j, i, r, m, a) ==
  [j EXCEPT ![r] = ReversalOf(j, i, m, a), ![i].status = "reversed"]

\* What the specification Books knows of the rows.
BookState == [absent |-> "absent", pending_review |-> "held", posted |-> "live",
              reversed |-> "cancelled"]

BookRows(j) ==
  [i \in Ids |-> [state |-> BookState[j[i].status], month |-> j[i].month,
                  lines |-> j[i].lines, reverses |-> j[i].reverses]]

-----------------------------------------------------------------------------
(* The books: what every report adds up. *)

InBooks(e) == e.status \in {"posted", "reversed"}

BooksOf(j, m) == {<<i, j[i].lines>> : i \in {i \in Ids : InBooks(j[i]) /\ j[i].month = m}}

Net(j, x) ==
  SumFunction([i \in {i \in Ids : InBooks(j[i])} |-> j[i].lines[x].D - j[i].lines[x].C])

\* A reversed row has exactly one reversal, which mirrors it; nothing else
\* reverses anything, and a reversal never waits for approval.
PairedReversals(j) ==
  /\ \A r \in Ids : (j[r].status # "absent" /\ j[r].reverses # None) =>
        /\ j[r].status # "pending_review"
        /\ j[r].reverses # r
        /\ j[j[r].reverses].status = "reversed"
        /\ j[r].lines = Mirror(j[j[r].reverses].lines)
  /\ \A i \in Ids : j[i].status = "reversed" =>
        \E r \in Ids : j[r].status # "absent" /\ j[r].reverses = i
  /\ \A r, q \in Ids : (/\ j[r].status # "absent" /\ j[q].status # "absent"
                        /\ j[r].reverses = j[q].reverses /\ j[r].reverses # None) => r = q
=============================================================================
