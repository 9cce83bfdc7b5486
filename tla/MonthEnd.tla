------------------------------ MODULE MonthEnd ------------------------------
(***************************************************************************)
(* The end of the month at an accounting firm: a client closes a month,    *)
(* which revalues its foreign balances first, or the firm closes the month *)
(* of several clients in one batch, which counts what is left to do and    *)
(* does not revalue.  Every call is one READ COMMITTED transaction, cut at *)
(* the statements that wait or that read what another call may change.     *)
(* Each client keeps books in several currencies, with one monetary account *)
(* in one foreign currency, and every month has its period row.             *)
(***************************************************************************)
EXTENDS Integers, Sequences, FiniteSetsExt, Functions

CONSTANTS Clients, Sessions,
          NMonths,   \* months that may be closed
          Current,   \* the month of current_date
          Trades,    \* foreign transactions, named by their idempotency key
          Rates,     \* rates to the home currency
          FirmRequests,  \* the requests a session may serve
          MaxCalls,  \* requests and changes from outside
          None

Months == 1..(NMonths + 1)
Ops == {"post", "sort", "close", "reopen", "batch"}

\* held: posted by an accountant whose entries wait for approval; sorted: on
\* another account than Uncategorized.
Request == [op : Ops, clients : Seq(Clients), month : 1..NMonths, trade : Trades \cup {None},
            face : Int, sorted : BOOLEAN, held : BOOLEAN, force : BOOLEAN]

MonthEndAssumption ==
  /\ NMonths \in Nat \ {0} /\ MaxCalls \in Nat /\ Current \in Months
  /\ Rates \subseteq Nat \ {0} /\ Rates # {}
  /\ FirmRequests \subseteq Request /\ None \notin Trades \cup FirmRequests
  /\ None \notin {"close", "batch", "forced"}
  /\ \A r \in FirmRequests : Len(r.clients) > 0 /\ (r.op \in {"post", "sort"} => r.trade # None)

VARIABLES periods,  \* accounting_periods, with what ledger_audit says of the close
          books,    \* the entries on the foreign account
          waiting,  \* the clients with an open flag or a previewed import
          rates,    \* resolve_fx_rate at the end of each month
          sessions,
          calls     \* what is still to come, for the bound

monthEndVars == <<periods, books, waiting, rates, sessions, calls>>

Row == [client : Clients, month : Months, key : {"trade", "undo", "again", "reval", "back"},
        trade : Trades \cup {None}, of : Months, face : Int, base : Int,
        status : {"pending_review", "posted", "reversed"}, sorted : BOOLEAN]
Via == {"close", "batch", "forced", None}
OpenPeriod == [status |-> "open", via |-> None, upto |-> 1]
Labels == {"idle", "begin", "share", "sum", "post", "insert", "next", "flip",
           "resolve", "lock", "count", "commit"}
Periods == Clients \X Months
IdleSession == [at |-> "idle", call |-> None, queue |-> <<>>, rows |-> {}, month |-> 1, delta |-> 0,
         share |-> {}, excl |-> {}, made |-> {}, shuts |-> {}]

MonthEndTypeOK ==
  /\ periods \in [Clients -> [Months -> [status : {"open", "closed"}, via : Via, upto : Months]]]
  /\ books \subseteq Row
  /\ waiting \subseteq Clients
  /\ rates \in [Months -> Rates]
  /\ calls \in 0..MaxCalls
  /\ DOMAIN sessions = Sessions
  /\ \A s \in Sessions :
       /\ sessions[s].at \in Labels /\ sessions[s].call \in FirmRequests \cup {None}
       /\ sessions[s].share \subseteq Periods /\ sessions[s].excl \subseteq Periods
       /\ sessions[s].made \subseteq Row /\ sessions[s].shuts \subseteq sessions[s].excl

MonthEndInit ==
  /\ periods = [c \in Clients |-> [m \in Months |-> OpenPeriod]]
  /\ books = {} /\ waiting = {}
  /\ rates \in [Months -> Rates]
  /\ sessions = [s \in Sessions |-> IdleSession]
  /\ calls = MaxCalls

-----------------------------------------------------------------------------
(* Sessions and locks *)

Req(s)     == sessions[s].call
Client(s)  == Head(sessions[s].queue)
At(s, l)   == sessions[s].at = l
Serves(s, op) == ~At(s, "idle") /\ Req(s).op = op
Others(s)  == Sessions \ {s}
Tables     == <<periods, books, waiting, rates>>
Goto(s, l) == sessions' = [sessions EXCEPT ![s] = [@ EXCEPT !.at = l]]
Quit(s)    == sessions' = [sessions EXCEPT ![s] = IdleSession]

\* What a lock of a period waits for: FOR SHARE for updates, FOR UPDATE for both.
ShareWaits(s, q, p) == q # s /\ p \in sessions[q].excl
ExclWaits(s, q, p)  == q # s /\ p \in sessions[q].excl \cup sessions[q].share

IsClosed(p) == periods[p[1]][p[2]].status = "closed"

-----------------------------------------------------------------------------
(* Foreign balances *)

InBooks(r) == r.status # "pending_review"
OnBooks(c, m) == {r \in books : r.client = c /\ r.month <= m /\ InBooks(r)}
Face(c, m)    == SumFunction([r \in OnBooks(c, m) |-> r.face])
Carried(c, m) == SumFunction([r \in OnBooks(c, m) |-> r.base])

\* v_delta; a balance of zero is not revalued.
Delta(c, m) == IF Face(c, m) = 0 THEN 0 ELSE Face(c, m) * rates[m] - Carried(c, m)

RowOf(c, m, key, trade, of, face, base) ==
  [client |-> c, month |-> m, key |-> key, trade |-> trade, of |-> of, face |-> face,
   base |-> base, status |-> "posted", sorted |-> TRUE]

Reval(c, m, delta) == [RowOf(c, m, "reval", None, m, 0, delta) EXCEPT !.status = "reversed"]

\* Wrong: the revaluation is taken back on the day it is made.
SameDay(m) == m

\* v_next_date
NextDay(m) == m + 1

Back(c, m, delta) == RowOf(c, NextDay(m), "back", None, m, 0, -delta)

IsReval(r, c, m) == r.key = "reval" /\ r.client = c /\ r.of = m

-----------------------------------------------------------------------------
(* FirmRequests *)

FirstLabel(op) ==
  CASE op = "post"   -> "share"  [] op = "sort"  -> "begin"
    [] op = "close"  -> "sum"    [] op = "batch" -> "resolve"
    [] op = "reopen" -> "flip"

Begin(s, r) ==
  /\ At(s, "idle") /\ calls > 0
  /\ calls' = calls - 1
  /\ sessions' = [sessions EXCEPT ![s] =
       [IdleSession EXCEPT !.at = FirstLabel(r.op), !.call = r,
                           !.queue = r.clients, !.month = r.month]]
  /\ UNCHANGED Tables

\* ensure_open_period, then what follows it when the period is open.
EnsureOpen(s, p, then) ==
  /\ \A q \in Sessions : ~ShareWaits(s, q, p)
  /\ IF IsClosed(p) THEN Quit(s) ELSE sessions' = [sessions EXCEPT ![s] = then]

Sharing(s, p) == [sessions[s] EXCEPT !.share = @ \cup {p}]

\* post_journal_entry of a foreign transaction at the rate of the month.
Post(s) ==
  LET r   == Req(s)
      row == [RowOf(Client(s), r.month, "trade", r.trade, r.month, r.face, r.face * rates[r.month])
                EXCEPT !.status = IF r.held THEN "pending_review" ELSE "posted",
                       !.sorted = r.sorted]
  IN  /\ Serves(s, "post") /\ At(s, "share")
      /\ IF \E x \in books : x.trade = r.trade THEN Quit(s)
         ELSE /\ \A q \in Others(s) : \A x \in sessions[q].made : x.trade # r.trade
              /\ EnsureOpen(s, <<Client(s), r.month>>,
                            [Sharing(s, <<Client(s), r.month>>) EXCEPT !.at = "commit", !.made = {row}])
      /\ UNCHANGED <<Tables, calls>>

\* The transaction a recategorisation is about, and the sessions that hold it.
Sorted(s) == {x \in books : x.trade = Req(s).trade /\ x.key = "trade" /\ x.status = "posted"}
HoldsTrade(q, t) == Serves(q, "sort") /\ ~At(q, "begin") /\ Req(q).trade = t

\* recategorize_entry: into the present when its month has been closed.
SortReads(s) ==
  /\ Serves(s, "sort") /\ At(s, "begin")
  /\ \A q \in Others(s) : ~HoldsTrade(q, Req(s).trade)
  /\ IF Sorted(s) = {} THEN Quit(s)
     ELSE \E x \in Sorted(s) : sessions' = [sessions EXCEPT ![s] =
            [@ EXCEPT !.at = "share", !.queue = <<x.client>>,
                      !.month = IF IsClosed(<<x.client, x.month>>) THEN Current ELSE x.month]]
  /\ UNCHANGED <<Tables, calls>>

\* The reversal copies the base amounts, the repost is converted anew.
SortPosts(s) ==
  LET p == <<Client(s), sessions[s].month>>
  IN  /\ Serves(s, "sort") /\ At(s, "share")
      /\ \E x \in Sorted(s) :
           EnsureOpen(s, p, [Sharing(s, p) EXCEPT !.at = "commit", !.made =
             {RowOf(p[1], p[2], "undo", x.trade, x.month, -x.face, -x.base),
              RowOf(p[1], p[2], "again", x.trade, x.month, x.face, x.face * rates[p[2]])}])
      /\ UNCHANGED <<Tables, calls>>

-----------------------------------------------------------------------------
(* close_accounting_period, and its revaluation *)

Sum(s) ==
  LET delta == Delta(Client(s), Req(s).month)
  IN  /\ Serves(s, "close") /\ At(s, "sum")
      /\ sessions' = [sessions EXCEPT ![s] =
           [@ EXCEPT !.delta = delta, !.at = IF delta = 0 THEN "flip" ELSE "post"]]
      /\ UNCHANGED <<Tables, calls>>

\* post_journal_entry: a key that is spent returns the entry of an earlier close.
RevalPosts(s) ==
  LET p == <<Client(s), Req(s).month>>
  IN  /\ Serves(s, "close") /\ At(s, "post")
      /\ IF \E x \in books : IsReval(x, p[1], p[2]) THEN Goto(s, "next")
         ELSE EnsureOpen(s, p, [Sharing(s, p) EXCEPT !.at = "insert"])
      /\ UNCHANGED <<Tables, calls>>

\* The insert waits for one of the same key; if that commits, the block is rolled
\* back with its lock.  An entry that waits for approval cannot be reversed.
RevalInserts(s) ==
  LET c == Client(s)
      m == Req(s).month
  IN  /\ Serves(s, "close") /\ At(s, "insert")
      /\ \A q \in Others(s) : \A x \in sessions[q].made : ~IsReval(x, c, m)
      /\ IF \E x \in books : IsReval(x, c, m)
         THEN sessions' = [sessions EXCEPT ![s] =
                [sessions[s] EXCEPT !.at = "next", !.share = @ \ {<<c, m>>}]]
         ELSE IF Req(s).held THEN Quit(s)
         ELSE sessions' = [sessions EXCEPT ![s] =
                [@ EXCEPT !.at = "next", !.made = {Reval(c, m, sessions[s].delta)}]]
      /\ UNCHANGED <<Tables, calls>>

\* ensure_open_period of the next month, and the reversal dated there.
RevalBack(s) ==
  LET c == Client(s)
      m == Req(s).month
      p == <<c, NextDay(m)>>
  IN  /\ Serves(s, "close") /\ At(s, "next")
      /\ EnsureOpen(s, p, [Sharing(s, p) EXCEPT !.at = "flip",
           !.made = IF @ = {} THEN {} ELSE @ \cup {Back(c, m, sessions[s].delta)}])
      /\ UNCHANGED <<Tables, calls>>

\* The UPDATE of the period, of a close or of reopen_accounting_period.
Flip(s) ==
  LET p == <<Client(s), Req(s).month>>
  IN  /\ At(s, "flip") /\ \A q \in Sessions : ~ExclWaits(s, q, p)
      /\ sessions' = [sessions EXCEPT ![s] = [@ EXCEPT !.at = "commit", !.excl = {p}, !.shuts = {p}]]
      /\ UNCHANGED <<Tables, calls>>

-----------------------------------------------------------------------------
(* cpa_batch_close_periods *)

NextClient(s, session) ==
  [session EXCEPT !.queue = Tail(@), !.at = IF Len(session.queue) = 1 THEN "commit" ELSE "resolve"]

\* The rows of the SELECT, before it locks one.
Resolve(s) ==
  LET rows == {m \in 1..Req(s).month : ~IsClosed(<<Client(s), m>>)}
  IN  /\ Serves(s, "batch") /\ At(s, "resolve")
      /\ sessions' = [sessions EXCEPT ![s] =
           IF rows = {} THEN NextClient(s, @) ELSE [@ EXCEPT !.rows = rows, !.at = "lock"]]
      /\ UNCHANGED <<Tables, calls>>

\* The month asked for, else the latest before it.
Target(s) == <<Client(s), Max(sessions[s].rows)>>

\* Wrong: the row is read without FOR UPDATE.
LockRowUnlocked(s) ==
  /\ Serves(s, "batch") /\ At(s, "lock")
  /\ sessions' = [sessions EXCEPT ![s] = [@ EXCEPT !.at = "count", !.month = Target(s)[2]]]
  /\ UNCHANGED <<Tables, calls>>

\* A row that was closed meanwhile is passed over for the next.
LockRow(s) ==
  /\ Serves(s, "batch") /\ At(s, "lock") /\ \A q \in Sessions : ~ExclWaits(s, q, Target(s))
  /\ sessions' = [sessions EXCEPT ![s] =
       IF ~IsClosed(Target(s))
       THEN [sessions[s] EXCEPT !.at = "count", !.month = Target(s)[2], !.excl = @ \cup {Target(s)}]
       ELSE IF Cardinality(sessions[s].rows) = 1 THEN NextClient(s, sessions[s])
       ELSE [sessions[s] EXCEPT !.rows = @ \ {Target(s)[2]}]]
  /\ UNCHANGED <<Tables, calls>>

\* An entry that waits for approval or sits on Uncategorized.
Blocks(r) == r.status = "pending_review" \/ (r.status = "posted" /\ ~r.sorted)
Blocked(c, m) == c \in waiting \/ \E r \in books : r.client = c /\ r.month = m /\ Blocks(r)

Count(s) ==
  LET p == <<Client(s), sessions[s].month>>
  IN  /\ Serves(s, "batch") /\ At(s, "count")
      /\ sessions' = [sessions EXCEPT ![s] =
           NextClient(s, IF ~Req(s).force /\ Blocked(p[1], p[2]) THEN sessions[s]
                         ELSE [sessions[s] EXCEPT !.shuts = @ \cup {p}, !.excl = @ \cup {p}])]
      /\ UNCHANGED <<Tables, calls>>

-----------------------------------------------------------------------------

Closed(s) ==
  [status |-> "closed", upto |-> Req(s).month,
   via |-> CASE Req(s).op = "close" -> "close" [] Req(s).force -> "forced" [] OTHER -> "batch"]

CommitCall(s) ==
  /\ At(s, "commit")
  /\ periods' = [c \in Clients |-> [m \in Months |->
       IF <<c, m>> \notin sessions[s].shuts THEN periods[c][m]
       ELSE IF Serves(s, "reopen") THEN OpenPeriod ELSE Closed(s)]]
  /\ books' = sessions[s].made \cup
       {IF Serves(s, "sort") /\ x.trade = Req(s).trade /\ x.key = "trade"
        THEN [x EXCEPT !.status = "reversed"] ELSE x : x \in books}
  /\ Quit(s)
  /\ UNCHANGED <<waiting, rates, calls>>

\* Who waits for whom.
WaitsFor(s, q) ==
  LET p == <<Client(s), IF Req(s).op = "close" THEN Req(s).month ELSE sessions[s].month>>
  IN  \/ At(s, "share") /\ ShareWaits(s, q, p)
      \/ At(s, "post") /\ ShareWaits(s, q, p)
      \/ At(s, "next") /\ ShareWaits(s, q, <<p[1], NextDay(p[2])>>)
      \/ At(s, "insert") /\ q # s /\ \E x \in sessions[q].made : IsReval(x, p[1], p[2])
      \/ At(s, "flip") /\ ExclWaits(s, q, p)
      \/ At(s, "lock") /\ ExclWaits(s, q, Target(s))

InCycle(s) ==
  \E S \in SUBSET Sessions : s \in S /\ \A q \in S : \E r \in S : WaitsFor(q, r)

\* The database aborts a session that waits for itself.
Victim(s) == InCycle(s) /\ Quit(s) /\ UNCHANGED <<Tables, calls>>

\* A flag is raised or resolved, a batch of rows previewed or committed.
Annotate(c) ==
  /\ calls > 0 /\ calls' = calls - 1
  /\ waiting' = IF c \in waiting THEN waiting \ {c} ELSE waiting \cup {c}
  /\ UNCHANGED <<periods, books, rates, sessions>>

\* fx-rates-fetch brings a snapshot closer to the end of the month.
NewRate(m, rate) ==
  /\ calls > 0 /\ calls' = calls - 1 /\ rates[m] # rate
  /\ rates' = [rates EXCEPT ![m] = rate]
  /\ UNCHANGED <<periods, books, waiting, sessions>>

MonthEndNext ==
  \/ \E s \in Sessions :
       \/ \E r \in FirmRequests : Begin(s, r)
       \/ Post(s) \/ SortReads(s) \/ SortPosts(s)
       \/ Sum(s) \/ RevalPosts(s) \/ RevalInserts(s) \/ RevalBack(s) \/ Flip(s)
       \/ Resolve(s) \/ LockRow(s) \/ Count(s) \/ CommitCall(s) \/ Victim(s)
  \/ \E c \in Clients : Annotate(c)
  \/ \E m \in 1..NMonths, r \in Rates : NewRate(m, r)

MonthEndSpec == MonthEndInit /\ [][MonthEndNext]_monthEndVars

-----------------------------------------------------------------------------
(* Properties *)

\* While a month stays closed by a batch nobody forced, no entry of it waits for
\* approval or for a category: "it cannot slip a blocker in behind the count".
NothingBehindTheCount ==
  \A c \in Clients, m \in Months : periods[c][m].via = "batch" =>
    ~\E r \in books : r.client = c /\ r.month = m /\ Blocks(r)

\* However closes race, fail or are repeated, a month is revalued at most once, and
\* the revaluation counts in that month and in no other: "so realized recognition
\* later isn't double-counted".
RevaluationsNet ==
  \A c \in Clients, m \in Months :
    LET Made == {r \in books : IsReval(r, c, m)}
        Fx   == {r \in OnBooks(c, m) : r.key \in {"reval", "back"}}
    IN  /\ Cardinality(Made) <= 1
        /\ SumFunction([r \in Fx |-> r.base]) = SumFunction([r \in Made |-> r.base])

\* Known to fail.  "Revalue its base carrying value to the period-end rate": an
\* entry lands between the sum and the update, a second close asks for spent
\* keys, and a batch does not revalue at all.
ClosedAtTheRate ==
  \A c \in Clients, m \in Months : periods[c][m].via # None => Delta(c, m) = 0

\* Known to fail.  "Two firm members batch-closing concurrently can never
\* double-close": the second closes the month before.
NoDoubleClose ==
  \A c \in Clients, m, n \in Months :
    (periods[c][m].via = "batch" /\ periods[c][n].via = "batch" /\ periods[c][m].upto = periods[c][n].upto)
      => m = n

\* Known to fail.  "A partial batch never rolls back the clients that DID close":
\* two batches that name their clients in another order wait for each other, and
\* so do two closes of a month that has a difference to post.
NoWaitCycle == \A s \in Sessions : ~InCycle(s)

\* Known to fail.  A corrected transaction keeps its value in the home currency:
\* the repost is converted at today's rate.
RecategorizingKeepsBase ==
  \A x, y \in books : (x.trade = y.trade /\ x.key = "trade" /\ y.key = "again") => x.base = y.base
=============================================================================
