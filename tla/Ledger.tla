-------------------------------- MODULE Ledger --------------------------------
(***************************************************************************)
(* The write path of the general ledger, one action per RPC, each RPC one  *)
(* transaction: post_journal_entry, approve_journal_entry,                 *)
(* reverse_journal_entry, recategorize_entry, close_accounting_period and  *)
(* reopen_accounting_period.  A call that is refused, and a replay of a    *)
(* key that is taken, change nothing and are stuttering steps.             *)
(* LedgerSessions takes the same RPCs apart into the statements at which   *)
(* a database session can block.                                           *)
(***************************************************************************)
EXTENDS Journal

CONSTANTS Members,      \* active members of the business
          Owners,       \* the members with the owner role
          Accountants,  \* users with a full-access engagement, not members
          Payloads,     \* the lines a caller may post
          MaxRows       \* bound: rows the modelled journal has room for

ASSUME LedgerAssumption ==
  /\ Members \cup Accountants \subseteq Actors
  /\ Owners \subseteq Members
  /\ Payloads \subseteq Lines
  /\ MaxRows \in Nat

VARIABLES journal,          \* journal_entries and journal_lines
          period,           \* accounting_periods
          requireApproval,  \* org_accounting_settings.cpa_posts_require_approval
          today             \* the month of current_date

vars == <<journal, period, requireApproval, today>>

Init ==
  /\ journal = [i \in Ids |-> NoEntry]
  /\ period = [m \in Months |-> "none"]
  /\ requireApproval \in BOOLEAN
  /\ today = 1

-----------------------------------------------------------------------------
CanWrite(a) == a \in Members \cup Accountants

\* The bound on the journal's length.
Room(n) == Cardinality({i \in Ids : journal[i].status # "absent"}) + n <= MaxRows

\* Wrong: finds no closed period and forgets to create the missing one.
EnsureOpenNoRow(m) == period[m] # "closed" /\ UNCHANGED period

\* ensure_open_period: create the month's period, or refuse a closed one.
EnsureOpen(m) ==
  /\ period[m] # "closed"
  /\ period' = [period EXCEPT ![m] = "open"]

LandingStatus(a) ==
  IF requireApproval /\ a \notin Members THEN "pending_review" ELSE "posted"

Post(a, k, m, l) ==
  /\ CanWrite(a) /\ Room(1)
  /\ journal[<<k, "">>].status = "absent"
  /\ Postable(l)
  /\ EnsureOpen(m)
  /\ journal' = [journal EXCEPT ![<<k, "">>] = NewEntry(LandingStatus(a), m, l, "manual", a)]
  /\ UNCHANGED <<requireApproval, today>>

\* Wrong: the month may have been closed while the entry waited.
ApproveUnchecked(a, i) ==
  /\ a \in Members
  /\ journal[i].status = "pending_review"
  /\ journal' = [journal EXCEPT ![i].status = "posted", ![i].approvedBy = a]
  /\ UNCHANGED <<period, requireApproval, today>>

\* Wrong: anyone who may write may approve.
ApproveByWriter(a, i) ==
  /\ CanWrite(a)
  /\ journal[i].status = "pending_review"
  /\ period[journal[i].month] # "closed"
  /\ journal' = [journal EXCEPT ![i].status = "posted", ![i].approvedBy = a]
  /\ UNCHANGED <<period, requireApproval, today>>

Approve(a, i) ==
  /\ a \in Members
  /\ journal[i].status = "pending_review"
  /\ period[journal[i].month] # "closed"
  /\ journal' = [journal EXCEPT ![i].status = "posted", ![i].approvedBy = a]
  /\ UNCHANGED <<period, requireApproval, today>>

\* The first month from today on that is open or has no row yet.
RollsTo(m) ==
  /\ today <= m /\ m <= today + Horizon
  /\ period[m] # "closed"
  /\ \A q \in Months : (today <= q /\ q < m) => period[q] = "closed"

\* Wrong: a second reversal of the same row is accepted.
ReverseAgain(a, i, k, date, at) ==
  /\ CanWrite(a) /\ Room(1)
  /\ journal[<<k, "">>].status = "absent"
  /\ journal[i].status \in {"posted", "reversed"}
  /\ IF date = None THEN RollsTo(at) ELSE at = date
  /\ EnsureOpen(at)
  /\ journal' = WithReversal(journal, i, <<k, "">>, at, a)
  /\ UNCHANGED <<requireApproval, today>>

\* at is the month of the reversal: that of the caller's date, or rolled forward
\* from today when the caller gives none.
Reverse(a, i, k, date, at) ==
  /\ CanWrite(a) /\ Room(1)
  /\ journal[<<k, "">>].status = "absent"
  /\ journal[i].status = "posted"
  /\ IF date = None THEN RollsTo(at) ELSE at = date
  /\ EnsureOpen(at)
  /\ journal' = WithReversal(journal, i, <<k, "">>, at, a)
  /\ UNCHANGED <<requireApproval, today>>

CorrectionMonth(i) ==
  IF period[journal[i].month] = "closed" THEN today ELSE journal[i].month

\* The wrong versions below write the journal new(month, lines).
RecategorizeWith(a, i, k, from, to, new(_, _)) ==
  LET at == CorrectionMonth(i)
      l  == Swap(journal[i].lines, from, to)
  IN  /\ CanWrite(a) /\ Room(2)
      /\ journal[<<k, ":new">>].status = "absent"
      /\ journal[i].status = "posted"
      /\ Touches(journal[i].lines, from)
      /\ EnsureOpen(at)
      /\ journal' = new(at, l)
      /\ UNCHANGED <<requireApproval, today>>

\* Wrong: the repost is held for approval while the reversal is live.
RecategorizeHeld(a, i, k, from, to) ==
  RecategorizeWith(a, i, k, from, to, LAMBDA at, l :
    [WithReversal(journal, i, <<k, ":rev">>, at, a)
       EXCEPT ![<<k, ":new">>] = NewEntry(LandingStatus(a), at, l, "recategorize", a)])

\* Wrong: a repost onto an archived account is refused after the reversal is kept.
RecategorizeHalf(a, i, k, from, to) ==
  RecategorizeWith(a, i, k, from, to, LAMBDA at, l :
    IF OnActiveAccounts(l)
    THEN [WithReversal(journal, i, <<k, ":rev">>, at, a)
            EXCEPT ![<<k, ":new">>] = NewEntry("posted", at, l, "recategorize", a)]
    ELSE WithReversal(journal, i, <<k, ":rev">>, at, a))

\* Wrong: the posted lines are edited in place.
RecategorizeInPlace(a, i, k, from, to) ==
  RecategorizeWith(a, i, k, from, to, LAMBDA at, l : [journal EXCEPT ![i].lines = l])

\* The reversal and the corrected repost, both live whatever the approval policy.
Recategorize(a, i, k, from, to) ==
  LET at == CorrectionMonth(i)
      l  == Swap(journal[i].lines, from, to)
  IN  /\ CanWrite(a) /\ Room(2)
      /\ to \notin Archived
      /\ journal[<<k, ":new">>].status = "absent"
      /\ journal[i].status = "posted"
      /\ Touches(journal[i].lines, from)
      /\ OnActiveAccounts(l)
      /\ EnsureOpen(at)
      /\ journal' = [WithReversal(journal, i, <<k, ":rev">>, at, a)
                       EXCEPT ![<<k, ":new">>] = NewEntry("posted", at, l, "recategorize", a)]
      /\ UNCHANGED <<requireApproval, today>>

Close(a, m) ==
  /\ CanWrite(a)
  /\ period[m] # "none"
  /\ period' = [period EXCEPT ![m] = "closed"]
  /\ UNCHANGED <<journal, requireApproval, today>>

Reopen(a, m) ==
  /\ CanWrite(a)
  /\ period[m] # "none"
  /\ period' = [period EXCEPT ![m] = "open"]
  /\ UNCHANGED <<journal, requireApproval, today>>

SetApprovalPolicy(a) ==
  /\ a \in Owners
  /\ requireApproval' = ~requireApproval
  /\ UNCHANGED <<journal, period, today>>

NextMonth ==
  /\ today < NMonths
  /\ today' = today + 1
  /\ UNCHANGED <<journal, period, requireApproval>>

Next ==
  \/ \E a \in Actors, k \in Keys, m \in Months, l \in Payloads : Post(a, k, m, l)
  \/ \E a \in Actors, i \in Ids : Approve(a, i)
  \/ \E a \in Actors, i \in Ids, k \in Keys, date \in Months \cup {None}, at \in Months :
        Reverse(a, i, k, date, at)
  \/ \E a \in Actors, i \in Ids, k \in Keys, from, to \in Accounts :
        Recategorize(a, i, k, from, to)
  \/ \E a \in Actors, m \in Months : Close(a, m)
  \/ \E a \in Actors, m \in Months : Reopen(a, m)
  \/ \E a \in Actors : SetApprovalPolicy(a)
  \/ NextMonth

Spec == Init /\ [][Next]_vars

-----------------------------------------------------------------------------
(* Properties *)

\* Every variable has its type; the row of a free key is the empty row.
TypeOK ==
  /\ journal \in [Ids -> Entry]
  /\ period \in [Months -> PeriodStatus]
  /\ requireApproval \in BOOLEAN
  /\ today \in Months
  /\ \A i \in Ids : journal[i].status # "absent" => period[journal[i].month] # "none"

\* A row is reversed exactly when one other row reverses it, and that row
\* mirrors its lines: reverse_journal_entry and recategorize_entry, replayed or
\* aimed at the same row or at a reversal, never cancel an amount twice and
\* never mark a row cancelled that nothing offsets.
ReversalsPaired == PairedReversals(journal)

\* A recategorisation is one transaction: its reversal and its repost exist
\* together or not at all, in the same month.
LegsTogether ==
  \A k \in Keys :
    LET rev == journal[<<k, ":rev">>]
        new == journal[<<k, ":new">>]
    IN  /\ rev.status = "absent" <=> new.status = "absent"
        /\ new.status # "absent" => rev.month = new.month

\* While a month stays closed, what its reports add up does not change, whoever
\* posts, approves, reverses or recategorises (ensure_open_period's refusal,
\* approve_journal_entry's check, recategorize_entry's correction date).
FrozenWhileClosed ==
  \A m \in Months : (period[m] = "closed" /\ period'[m] = "closed")
                      => BooksOf(journal', m) = BooksOf(journal, m)

ClosedBooksFrozen == [][FrozenWhileClosed]_vars

\* The journal is append-only: a row never disappears, its financial fields
\* never change, and its status only goes from pending_review to posted and
\* from posted to reversed (guard_journal_entry_mutation, block_line_mutation).
SameRow(e, f) ==
  /\ f.month = e.month /\ f.source = e.source /\ f.reverses = e.reverses
  /\ f.lines = e.lines /\ f.by = e.by

StatusMoves ==
  {<<s, s>> : s \in EntryStatus}
    \cup {<<"pending_review", "posted">>, <<"posted", "reversed">>}

Kept(i) ==
  /\ SameRow(journal[i], journal'[i])
  /\ <<journal[i].status, journal'[i].status>> \in StatusMoves

OnlyStatusMoves == \A i \in Ids : journal[i].status # "absent" => Kept(i)

AppendOnly == [][OnlyStatusMoves]_vars

\* New money an accountant brings in while the owner requires approval reaches
\* the books only by a member's approval: across post, approve, reverse and
\* recategorise a row that was waiting has an approver once it counts.
Gated(i) ==
  /\ (requireApproval /\ journal[i].status = "absent" /\ InBooks(journal'[i])
        /\ journal'[i].source = "manual") => journal'[i].by \in Members
  /\ (journal[i].status = "pending_review" /\ InBooks(journal'[i]))
        => journal'[i].approvedBy \in Members

GateHolds == \A i \in Ids : Gated(i)

ApprovalGate == [][GateHolds]_vars

\* The debits and the credits of the books are equal, in every month, after any
\* mix of posts, mirrored reversals and account swaps.
TrialBalanceTies ==
  \A m \in Months :
    LET cells    == {i \in Ids : InBooks(journal[i]) /\ journal[i].month = m} \X Accounts
        total(s) == SumFunction([p \in cells |-> journal[p[1]].lines[p[2]][s]])
    IN  total("D") = total("C")

\* The step reverses one entry and reposts it, on account t for account f.
MovesOnly(k) ==
  \E i \in Ids, f, t \in Accounts :
    LET moved    == IF f = t THEN 0 ELSE journal[i].lines[f].D - journal[i].lines[f].C
        added(x) == Net(journal', x) - Net(journal, x)
    IN  /\ journal'[<<k, ":rev">>].reverses = i
        /\ journal'[<<k, ":new">>].lines = Swap(journal[i].lines, f, t)
        /\ added(f) = -moved /\ added(t) = moved
        /\ \A x \in Accounts \ {f, t} : added(x) = 0

\* A recategorisation moves what its entry put on one account to another and
\* touches no other account: the transaction neither vanishes from the books nor
\* counts twice, even when accountants' posts are held for approval or the
\* correction lands in a later month.
CorrectionsMoveOnly ==
  \A k \in Keys : (journal[<<k, ":new">>].status = "absent"
                     /\ journal'[<<k, ":new">>].status # "absent") => MovesOnly(k)

RecategorizeMovesOnly == [][CorrectionsMoveOnly]_vars

Abstract == INSTANCE Books WITH
  rows   <- BookRows(journal),
  closed <- {m \in Months : period[m] = "closed"}

\* Every RPC is a step of Books or leaves the books alone.
ImplementsBooks == Abstract!Spec
=============================================================================
