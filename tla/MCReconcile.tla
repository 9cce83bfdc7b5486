----------------------------- MODULE MCReconcile -----------------------------
(* A statement line, one of a staged batch and one of the opposite sign, which *)
(* no entry clears; two deposits that may clear either of the first two.       *)
EXTENDS Reconcile, TLC

CONSTANTS l1, l2, l3, e1, e3

MCAmount   == [l \in Lines |-> IF l = l2 THEN -1 ELSE 1]
MCMovement == [e \in Entries |-> 1]

Plain(op) == [op |-> op, line |-> None, entry |-> None, closing |-> 0]

\* Two entries may clear l1 and two lines be cleared by e1, both at once too.
Pairs(op) == {[Plain(op) EXCEPT !.line = p[1], !.entry = p[2]] :
                p \in {q \in (Lines \ {l2}) \X Entries : q[1] = l1 \/ q[2] = e1}}

TieCalls ==
  Pairs("match") \cup Pairs("unmatch") \cup {Plain("lock"), Plain("reopen")}
    \cup {[Plain("open") EXCEPT !.closing = n] : n \in Balances}

ReverseCalls == {[Plain("reverse") EXCEPT !.entry = e] : e \in Entries}

DriftCalls == TieCalls \cup ReverseCalls
AllCalls   == DriftCalls \cup {Plain("discard"), [Plain("match") EXCEPT !.line = l2, !.entry = e1]}

SessionSymmetry == Permutations(Sessions)
=============================================================================
