---------------------------- MODULE LedgerSessions ----------------------------
(***************************************************************************)
(* The write path of the ledger as concurrent database sessions.  Each     *)
(* session runs one RPC as one READ COMMITTED transaction, cut at every    *)
(* statement that can wait or that reads what another session may change:  *)
(*   lookup   the unlocked read of the idempotency key                     *)
(*   lock     SELECT ... FOR UPDATE of the original entry                  *)
(*   probe    the unlocked read of one period's status                     *)
(*   period   SELECT ... FOR SHARE of the covering period                  *)
(*   create   INSERT ... ON CONFLICT DO UPDATE of a missing period         *)
(*   insert   INSERT of the entry, which waits on an uncommitted equal key *)
(*   repost   the second half of a recategorisation                        *)
(*   flip     UPDATE of the period by close and reopen                     *)
(*   commit   the writes become visible and every lock is released         *)
(* A session's writes stay its own until it commits; a statement that has  *)
(* to wait for a lock is an action that is not enabled.                    *)
(***************************************************************************)
EXTENDS Journal

CONSTANTS Sessions,
          Members,          \* actors who are members of the business
          Calls,            \* the requests a session may serve
          InitialJournals,  \* committed journals to start from
          InitialPeriods,   \* committed periods to start from
          RequireApproval,  \* org_accounting_settings.cpa_posts_require_approval
          Today             \* the month of current_date

Ops    == {"post", "approve", "reverse", "recategorize", "close", "reopen"}
Call   == [op : Ops, by : Actors, key : Keys, target : Ids \cup {None},
           month : Months \cup {None}, lines : Lines, from : Accounts, to : Accounts]
Errors == {"bad_lines", "not_found", "not_pending", "already_reversed", "not_posted",
           "no_open_period", "period_closed", "no_match"}
Labels == {"idle", "lookup", "lock", "probe", "period", "create", "insert", "repost",
           "flip", "commit", "done"}

\* A correction writes its reversal and its repost together.
LegsTogether(j) == \A k \in Keys :
  j[<<k, ":rev">>].status = "absent" <=> j[<<k, ":new">>].status = "absent"

ASSUME SessionsAssumption ==
  /\ Members \subseteq Actors
  /\ Calls \subseteq Call /\ None \notin Errors
  /\ \A c \in Calls : IF c.op \in {"post", "close", "reopen"} THEN c.month \in Months
                      ELSE c.target \in Ids
  /\ InitialJournals \subseteq {j \in [Ids -> Entry] : PairedReversals(j) /\ LegsTogether(j)}
  /\ InitialPeriods \subseteq [Months -> PeriodStatus]
  /\ RequireApproval \in BOOLEAN
  /\ Today \in Months

VARIABLES journal,  \* committed journal_entries and journal_lines
          period,   \* committed accounting_periods
          sess      \* the sessions

vars == <<journal, period, sess>>

\* at: where the transaction is; month: the month it works on; entry: the entry
\* it holds FOR UPDATE; share, excl: the periods it holds FOR SHARE and for
\* update; made, ins: the periods and the entries it has inserted, uncommitted.
Session == [at : Labels, call : Calls \cup {None}, month : Months \cup {None},
            entry : Ids \cup {None}, share : SUBSET Months, excl : SUBSET Months,
            made : SUBSET Months, ins : SUBSET Ids,
            answer : Errors \cup {"ok", None}, row : Ids \cup {None}]

Idle == [at |-> "idle", call |-> None, month |-> None, entry |-> None,
         share |-> {}, excl |-> {}, made |-> {}, ins |-> {}, answer |-> None, row |-> None]

Init ==
  /\ journal \in InitialJournals
  /\ period \in InitialPeriods
  /\ sess = [s \in Sessions |-> Idle]

-----------------------------------------------------------------------------
(* Helpers *)

Req(s)    == sess[s].call
Mon(s)    == sess[s].month
Others(s) == Sessions \ {s}

OwnRow(s)    == <<Req(s).key, "">>
RevRow(s)    == <<Req(s).key, ":rev">>
NewRow(s)    == <<Req(s).key, ":new">>
ReplayRow(s) == IF Req(s).op = "recategorize" THEN NewRow(s) ELSE OwnRow(s)

Taken(i) == journal[i].status # "absent"

\* Wrong: a close does not wait for the sessions that hold its period FOR SHARE.
ExclSkipsReaders(s, m) == \A q \in Others(s) : m \notin sess[q].excl

\* Wrong: the insert does not wait for an uncommitted row of the same key.
KeyNeverWaits(s, i) == TRUE

EntryFree(s, i) == \A q \in Others(s) : sess[q].entry # i
ShareFree(s, m) == \A q \in Others(s) : m \notin sess[q].excl
ExclFree(s, m)  == \A q \in Others(s) : m \notin sess[q].excl \cup sess[q].share
KeyFree(s, i)   == \A q \in Others(s) : i \notin sess[q].ins
MonthFree(s, m) == \A q \in Others(s) : m \notin sess[q].made

At(s, label) == sess[s].at = label
Goto(s, label) == sess' = [sess EXCEPT ![s].at = label]

\* Wrong: the row lock of the entry outlives the transaction.
EndedKeepsEntry(s, ans, i) ==
  [sess EXCEPT ![s] = [Idle EXCEPT !.at = "done", !.call = Req(s), !.answer = ans, !.row = i,
                                   !.entry = sess[s].entry]]

\* The transaction ends, by COMMIT or by ROLLBACK: its locks are released.
Ended(s, ans, i) ==
  [sess EXCEPT ![s] = [Idle EXCEPT !.at = "done", !.call = Req(s), !.answer = ans, !.row = i]]

Quit(s, why)   == sess' = Ended(s, why, None) /\ UNCHANGED <<journal, period>>
Replay(s, i)   == sess' = Ended(s, "ok", i) /\ UNCHANGED <<journal, period>>

-----------------------------------------------------------------------------
(* Statements *)

FirstLabel(op) == CASE op = "approve" -> "lock"
                    [] op \in {"close", "reopen"} -> "flip"
                    [] OTHER -> "lookup"

Begin(s, c) ==
  /\ At(s, "idle")
  /\ c.op = "approve" => c.by \in Members
  /\ sess' = [sess EXCEPT ![s].call = c, ![s].month = c.month, ![s].at = FirstLabel(c.op)]
  /\ UNCHANGED <<journal, period>>

Lookup(s) ==
  /\ At(s, "lookup")
  /\ IF Taken(ReplayRow(s)) THEN Replay(s, ReplayRow(s))
     ELSE IF Req(s).op = "post" /\ ~Postable(Req(s).lines) THEN Quit(s, "bad_lines")
     ELSE /\ Goto(s, IF Req(s).op = "post" THEN "period" ELSE "lock")
          /\ UNCHANGED <<journal, period>>

\* Why the locked entry e cannot be worked on, or None.
Refusal(c, e) ==
  IF e.status = "absent" THEN "not_found"
  ELSE IF c.op = "approve" THEN IF e.status = "pending_review" THEN None ELSE "not_pending"
  ELSE IF c.op = "reverse" /\ e.status = "reversed" THEN "already_reversed"
  ELSE IF e.status # "posted" THEN "not_posted"
  ELSE IF c.op = "recategorize" /\ ~Touches(e.lines, c.from) THEN "no_match" ELSE None

Lock(s) ==
  LET c   == Req(s)
      e   == journal[c.target]
      why == Refusal(c, e)
  IN  /\ At(s, "lock")
      /\ EntryFree(s, c.target)
      /\ IF why # None THEN Quit(s, why)
         ELSE /\ sess' = [sess EXCEPT
                   ![s].entry = c.target,
                   ![s].at    = IF c.op = "approve" \/ (c.op = "reverse" /\ c.month # None)
                                THEN "period" ELSE "probe",
                   ![s].month = IF c.op # "reverse" THEN e.month
                                ELSE IF c.month # None THEN c.month ELSE Today]
              /\ UNCHANGED <<journal, period>>

\* reverse_journal_entry walks from today to the first month that is not closed;
\* recategorize_entry keeps the original month unless that is closed.
Probe(s) ==
  LET m == Mon(s)
  IN  /\ At(s, "probe")
      /\ IF Req(s).op = "recategorize"
         THEN /\ sess' = [sess EXCEPT
                   ![s].month = IF period[m] = "closed" THEN Today ELSE m,
                   ![s].at    = IF Taken(RevRow(s)) THEN "repost" ELSE "period"]
              /\ UNCHANGED <<journal, period>>
         ELSE IF period[m] # "closed"
         THEN Goto(s, "period") /\ UNCHANGED <<journal, period>>
         ELSE IF m = NMonths \/ m = Today + Horizon
         THEN Quit(s, "no_open_period")
         ELSE sess' = [sess EXCEPT ![s].month = m + 1] /\ UNCHANGED <<journal, period>>

\* approve_journal_entry reads the period of the entry and never creates one.
Period(s) ==
  LET m == Mon(s)
  IN  /\ At(s, "period")
      /\ \/ /\ period[m] = "none"
            /\ Goto(s, IF Req(s).op = "approve" THEN "commit" ELSE "create")
            /\ UNCHANGED <<journal, period>>
         \/ /\ period[m] # "none"
            /\ ShareFree(s, m)
            /\ IF period[m] = "closed" THEN Quit(s, "period_closed")
               ELSE /\ sess' = [sess EXCEPT
                         ![s].share = @ \cup {m},
                         ![s].at    = IF Req(s).op = "approve" THEN "commit" ELSE "insert"]
                    /\ UNCHANGED <<journal, period>>

\* On a conflict the statement locks the committed row and returns its id,
\* whatever its status.
Create(s) ==
  LET m == Mon(s)
  IN  /\ At(s, "create")
      /\ MonthFree(s, m)
      /\ \/ /\ period[m] = "none"
            /\ sess' = [sess EXCEPT ![s].made = @ \cup {m}, ![s].at = "insert"]
         \/ /\ period[m] # "none"
            /\ ExclFree(s, m)
            /\ sess' = [sess EXCEPT ![s].excl = @ \cup {m}, ![s].at = "insert"]
      /\ UNCHANGED <<journal, period>>

\* A unique_violation rolls the function's block back, period row and locks
\* included, and returns the row of the session that won.
Insert(s) ==
  LET i == IF Req(s).op = "recategorize" THEN RevRow(s) ELSE OwnRow(s)
  IN  /\ At(s, "insert")
      /\ KeyFree(s, i)
      /\ IF ~Taken(i)
         THEN sess' = [sess EXCEPT ![s].ins = @ \cup {i},
                                   ![s].at = IF Req(s).op = "recategorize" THEN "repost"
                                             ELSE "commit"]
              /\ UNCHANGED <<journal, period>>
         ELSE IF Req(s).op = "recategorize"
         THEN sess' = [sess EXCEPT ![s].share = {}, ![s].excl = {}, ![s].made = {},
                                   ![s].at = "repost"]
              /\ UNCHANGED <<journal, period>>
         ELSE Replay(s, i)

\* The nested post_journal_entry finds the row another call left, or asks for
\* the same month again and inserts the repost.
Repost(s) ==
  /\ At(s, "repost")
  /\ IF Taken(NewRow(s)) THEN Replay(s, NewRow(s))
     ELSE IF period[Mon(s)] = "closed" THEN Quit(s, "period_closed")
     ELSE IF ~OnActiveAccounts(Swap(journal[Req(s).target].lines, Req(s).from, Req(s).to))
     THEN Quit(s, "bad_lines")
     ELSE /\ sess' = [sess EXCEPT ![s].ins = @ \cup {NewRow(s)}, ![s].at = "commit"]
          /\ UNCHANGED <<journal, period>>

Flip(s) ==
  LET m == Mon(s)
  IN  /\ At(s, "flip")
      /\ ExclFree(s, m)
      /\ IF period[m] = "none" THEN Quit(s, "not_found")
         ELSE /\ sess' = [sess EXCEPT ![s].excl = @ \cup {m}, ![s].at = "commit"]
              /\ UNCHANGED <<journal, period>>

LandingStatus(a) ==
  IF RequireApproval /\ a \notin Members THEN "pending_review" ELSE "posted"

Written(s) ==
  LET c == Req(s)
      i == c.target
      m == Mon(s)
  IN  CASE c.op = "post" ->
             [journal EXCEPT ![OwnRow(s)] = NewEntry(LandingStatus(c.by), m, c.lines, "manual", c.by)]
        [] c.op = "approve" ->
             [journal EXCEPT ![i].status = "posted", ![i].approvedBy = c.by]
        [] c.op = "reverse" -> WithReversal(journal, i, OwnRow(s), m, c.by)
        [] c.op = "recategorize" ->
             [WithReversal(journal, i, RevRow(s), m, c.by)
                EXCEPT ![NewRow(s)] = NewEntry("posted", m, Swap(journal[i].lines, c.from, c.to),
                                               "recategorize", c.by)]
        [] OTHER -> journal

Commit(s) ==
  LET op == Req(s).op
  IN  /\ At(s, "commit")
      /\ journal' = Written(s)
      /\ period' = [m \in Months |->
                      IF m \in sess[s].made THEN "open"
                      ELSE IF m = Mon(s) /\ op = "close" THEN "closed"
                      ELSE IF m = Mon(s) /\ op = "reopen" THEN "open"
                      ELSE period[m]]
      /\ sess' = Ended(s, "ok", IF op \in {"post", "reverse", "recategorize"}
                              THEN ReplayRow(s) ELSE None)

Step(s) ==
  \/ Lookup(s) \/ Lock(s) \/ Probe(s) \/ Period(s) \/ Create(s)
  \/ Insert(s) \/ Repost(s) \/ Flip(s) \/ Commit(s)

AllDone == \A s \in Sessions : At(s, "done")

Next ==
  \/ \E s \in Sessions, c \in Calls : Begin(s, c)
  \/ \E s \in Sessions : Step(s)
  \/ AllDone /\ UNCHANGED vars

Spec == Init /\ [][Next]_vars

\* Every session that has begun keeps executing its statements.
FairSpec == Spec /\ \A s \in Sessions : WF_vars(Step(s))

-----------------------------------------------------------------------------
(* Properties *)

\* Every variable has its type, and no transaction outlives its locks.
TypeOK ==
  /\ journal \in [Ids -> Entry]
  /\ period \in [Months -> PeriodStatus]
  /\ sess \in [Sessions -> Session]
  /\ \A s \in Sessions : sess[s].at \in {"idle", "done"} =>
       /\ sess[s].entry = None
       /\ sess[s].share \cup sess[s].excl \cup sess[s].made = {} /\ sess[s].ins = {}

\* However the sessions interleave, each reversed entry has one reversal and
\* nothing else does: the FOR UPDATE of the original serialises two reversals,
\* two recategorisations, or one of each, of the same entry.
ReversalsPaired == PairedReversals(journal)

\* A session that has passed the check of its period keeps that period open
\* until it commits: a close waits for it ("close and an in-flight post
\* serialize").
CheckedMonthStaysOpen ==
  \A s \in Sessions :
    (sess[s].at \in {"insert", "repost", "commit"} /\ sess[s].share # {})
      => period[Mon(s)] = "open"

\* What the row locks are for: an entry is undone once, and a month that a
\* session has checked is still open when it writes.
LocksHold == ReversalsPaired /\ CheckedMonthStaysOpen

\* What the reports of a month add up does not change while it stays closed.
ClosedBooksFrozen ==
  [][\A m \in Months : (period[m] = "closed" /\ period'[m] = "closed")
        => BooksOf(journal', m) = BooksOf(journal, m)]_vars

Abstract == INSTANCE Books WITH
  rows   <- BookRows(journal),
  closed <- {m \in Months : period[m] = "closed"}

\* The interleaved transactions implement the promise of Books: each commit is
\* one of its steps and everything before it is invisible.
ImplementsBooks == Abstract!Spec

\* No call closes a month that has no period row to begin with.
RowsReady == \A p \in InitialPeriods, c \in Calls : c.op = "close" => p[c.month] # "none"

\* Every request that has begun is answered: no cycle of waits among entry
\* locks, period locks and uncommitted keys ("introduces no deadlock cycle").
EveryCallAnswered == \A s \in Sessions : (sess[s].at # "idle") ~> At(s, "done")
=============================================================================
