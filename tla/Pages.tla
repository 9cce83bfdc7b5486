------------------------------- MODULE Pages -------------------------------
(***************************************************************************)
(* The entries of an organisation, read page by page into the browser while *)
(* others post, approve and reverse.  An entry has two lines here.          *)
(***************************************************************************)
EXTENDS Integers, Sequences, FiniteSets, SequencesExt

CONSTANTS Postings,   \* what an entry may post: accounts, amount, amount in base currency
          Dates, Page, MaxBook

\* What the constants have to be: the modules that use this one assume it.
PagesAssumption ==
  /\ \A p \in Postings : p.debit # p.credit /\ p.amount \in Nat /\ p.base \in Nat
  /\ Dates \subseteq Nat /\ Page \in Nat \ {0} /\ MaxBook \in Nat

VARIABLES book,     \* journal_entries, in order of creation
          reading   \* the read of the entries: pages fetched so far, what was there at first

pagesVars == <<book, reading>>

Unread == [state |-> "idle", page |-> 0, rows |-> <<>>, first |-> 0]

PagesTypeOK ==
  /\ Len(book) <= MaxBook
  /\ \A i \in DOMAIN book : /\ book[i].status \in {"pending_review", "posted", "reversed"}
                            /\ book[i].date \in Dates /\ book[i].created = i
  /\ reading.state \in {"idle", "paging", "done"} /\ reading.page \in 0..(MaxBook + 1)
  /\ reading.state = "paging" => Len(reading.rows) = reading.page * Page

PagesInit == book = <<>> /\ reading = Unread

-----------------------------------------------------------------------------
(* The books *)

PostEntry(p, date, status) ==
  /\ Len(book) < MaxBook
  /\ book' = Append(book, [created |-> Len(book) + 1, date |-> date, status |-> status,
                           reverses |-> 0, debit |-> p.debit, credit |-> p.credit,
                           amount |-> p.amount, base |-> p.base])
  /\ UNCHANGED reading

ApproveEntry(i) ==
  /\ book[i].status = "pending_review"
  /\ book' = [book EXCEPT ![i].status = "posted"]
  /\ UNCHANGED reading

\* A reversal mirrors the lines of its entry.
ReverseEntry(i, date) ==
  /\ book[i].status = "posted" /\ Len(book) < MaxBook
  /\ book' = Append([book EXCEPT ![i].status = "reversed"],
                    [book[i] EXCEPT !.created = Len(book) + 1, !.date = date, !.reverses = i,
                                    !.debit = book[i].credit, !.credit = book[i].debit])
  /\ UNCHANGED reading

-----------------------------------------------------------------------------
(* The read *)

Newest(d, e) == d.date > e.date \/ (d.date = e.date /\ d.created > e.created)

\* How many entries the order of the read has before an entry.
Place(i) == Cardinality({j \in DOMAIN book : Newest(book[j], book[i])})
RowAt(n) == book[CHOOSE i \in DOMAIN book : Place(i) = n]

\* The rows of a page: its offset counts rows, not entries seen.
Rows(p) == [n \in 1..Min({Page, Len(book) - p * Page}) |-> RowAt(p * Page + n - 1)]

\* Wrong: one request, and the rows past its limit are dropped.
LastPageIsFirst(rows) == TRUE

LastPage(rows) == Len(rows) < Page

BeginRead ==
  /\ reading = Unread
  /\ reading' = [Unread EXCEPT !.state = "paging", !.first = Len(book)]
  /\ UNCHANGED book

FetchPage ==
  LET rows == Rows(reading.page)
  IN  /\ reading.state = "paging"
      /\ reading' = [reading EXCEPT !.page = @ + 1, !.rows = @ \o rows,
                                    !.state = IF LastPage(rows) THEN "done" ELSE "paging"]
      /\ UNCHANGED book

PagesNext ==
  \/ \E p \in Postings, d \in Dates, s \in {"posted", "pending_review"} : PostEntry(p, d, s)
  \/ \E i \in DOMAIN book : ApproveEntry(i) \/ \E d \in Dates : ReverseEntry(i, d)
  \/ BeginRead \/ FetchPage

PagesSpec == PagesInit /\ [][PagesNext]_pagesVars

-----------------------------------------------------------------------------
(* Properties *)

\* A finished read has every entry that was there when it began, however many
\* were posted, approved or reversed in between: the reports miss none.
ReadMissesNothing ==
  reading.state = "done" =>
    \A i \in 1..reading.first : \E r \in ToSet(reading.rows) : r.created = i

\* api.ts calls the order of the read stable across pages: no entry comes twice.
StableAcrossPages ==
  \A i, j \in DOMAIN reading.rows : reading.rows[i].created = reading.rows[j].created => i = j
=============================================================================
