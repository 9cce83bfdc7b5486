-------------------------------- MODULE Books --------------------------------
(***************************************************************************)
(* What the ledger promises, whatever the number of concurrent callers:    *)
(* entries are only added, one cancellation per entry, and a closed month  *)
(* takes nothing.  It says nothing of users, approval policy or how the    *)
(* month of a correction is picked.  Ledger and LedgerSessions implement   *)
(* it.                                                                     *)
(***************************************************************************)
EXTENDS Journal

VARIABLES rows,    \* id -> what the books know of the entry
          closed   \* the closed months

vars == <<rows, closed>>

RowState == {"absent", "held", "live", "cancelled"}
Row      == [state : RowState, month : Months, lines : Lines, reverses : Ids \cup {None}]

FreeRow == [state |-> "absent", month |-> 1, lines |-> NoLines, reverses |-> None]

NewRow(st, m, l, i) == [state |-> st, month |-> m, lines |-> l, reverses |-> i]

Used(i) == rows[i].state # "absent"

\* Cancelled rows and the rows that cancel them correspond one to one.
Paired ==
  /\ \A r \in Ids : (Used(r) /\ rows[r].reverses # None) =>
        /\ rows[r].state # "held"
        /\ rows[rows[r].reverses].state = "cancelled"
        /\ rows[r].lines = Mirror(rows[rows[r].reverses].lines)
  /\ \A i \in Ids : rows[i].state = "cancelled" =>
        \E r \in Ids : Used(r) /\ rows[r].reverses = i
  /\ \A r, q \in Ids : (/\ Used(r) /\ Used(q) /\ rows[r].reverses # None
                        /\ rows[r].reverses = rows[q].reverses) => r = q

Init == rows \in [Ids -> Row] /\ closed \subseteq Months /\ Paired

Free(i)  == ~Used(i)
Takes(m) == m \in Months \ closed

\* The new row is the one rows' holds: any balanced lines, held or live.
Enter(i) ==
  LET r == rows'[i]
  IN  /\ Free(i) /\ Takes(r.month)
      /\ r.state \in {"held", "live"} /\ r.lines \in Lines /\ Balanced(r.lines)
      /\ rows' = [rows EXCEPT ![i] = NewRow(r.state, r.month, r.lines, None)]
      /\ UNCHANGED closed

Confirm(i) ==
  /\ rows[i].state = "held" /\ Takes(rows[i].month)
  /\ rows' = [rows EXCEPT ![i].state = "live"]
  /\ UNCHANGED closed

\* r cancels i in month m.
Cancelled(i, r, m) ==
  [rows EXCEPT ![r] = NewRow("live", m, Mirror(rows[i].lines), i), ![i].state = "cancelled"]

Cancel(i, r, m) ==
  /\ rows[i].state = "live" /\ Free(r) /\ Takes(m)
  /\ rows' = Cancelled(i, r, m)
  /\ UNCHANGED closed

\* r cancels i and n takes its place, in one step.
Correct(i, r, n, m, f, t) ==
  /\ rows[i].state = "live" /\ Free(r) /\ Free(n) /\ r # n /\ Takes(m)
  /\ rows' = [Cancelled(i, r, m) EXCEPT ![n] = NewRow("live", m, Swap(rows[i].lines, f, t), None)]
  /\ UNCHANGED closed

CloseMonth(m) == closed' = closed \cup {m} /\ UNCHANGED rows
OpenMonth(m)  == closed' = closed \ {m} /\ UNCHANGED rows

\* The rows a step changes.
Changed == {i \in Ids : rows'[i] # rows[i]}

Next ==
  \/ \E i \in Changed : Enter(i) \/ Confirm(i)
  \/ \E i, r \in Changed, m \in Months : Cancel(i, r, m)
  \/ \E i, r, n \in Changed, m \in Months, f, t \in Accounts : Correct(i, r, n, m, f, t)
  \/ \E m \in Months : CloseMonth(m) \/ OpenMonth(m)

Spec == Init /\ [][Next]_vars
=============================================================================
