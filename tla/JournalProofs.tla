---------------------------- MODULE JournalProofs ----------------------------
(***************************************************************************)
(* What a reversal, a correction and a new row do to a journal, whoever    *)
(* writes them: the lemmas that the proofs about Ledger and about          *)
(* LedgerSessions share.                                                   *)
(***************************************************************************)
EXTENDS Journal, SumProofs

-----------------------------------------------------------------------------
(* Lemmas about the operators of Journal *)

\* A month is a natural number and the first month exists.
LEMMA MonthsFact == Months \subseteq Nat /\ 1 \in Months
  BY JournalAssumption DEF Months

\* A row key is a request key with a leg.
LEMMA IdsFact ==
  ASSUME NEW k \in Keys
  PROVE  /\ <<k, "">> \in Ids /\ <<k, ":rev">> \in Ids /\ <<k, ":new">> \in Ids
         /\ <<k, ":rev">> # <<k, ":new">>
  BY DEF Ids

\* Reversing lines gives lines, and reversing twice gives the lines back.
LEMMA MirrorType ==
  ASSUME NEW l \in Lines
  PROVE  Mirror(l) \in Lines
  BY DEF Mirror, Lines

\* Moving an account's lines to another gives lines.
LEMMA SwapType ==
  ASSUME NEW l \in Lines, NEW f \in Accounts, NEW t \in Accounts
  PROVE  Swap(l, f, t) \in Lines
  <1> DEFINE v(x) == IF f = t THEN l[x]
                     ELSE IF x = f THEN [D |-> 0, C |-> 0]
                     ELSE IF x = t THEN [D |-> l[f].D + l[t].D, C |-> l[f].C + l[t].C]
                     ELSE l[x]
  <1>1. \A x \in Accounts : l[x] \in [D : Nat, C : Nat]
    BY DEF Lines
  <1>2. [D |-> l[f].D + l[t].D, C |-> l[f].C + l[t].C] \in [D : Nat, C : Nat]
    BY <1>1
  <1>3. [D |-> 0, C |-> 0] \in [D : Nat, C : Nat]
    OBVIOUS
  <1>4. \A x \in Accounts : v(x) \in [D : Nat, C : Nat]
    BY <1>1, <1>2, <1>3
  <1>5. Swap(l, f, t) = [x \in Accounts |-> v(x)]
    BY DEF Swap
  <1>6. QED
    BY <1>4, <1>5 DEF Lines

\* What is added up when lines are balanced.
Side(l, s) == [x \in Accounts |-> l[x][s]]

LEMMA BalanceIs ==
  ASSUME NEW l
  PROVE  Balanced(l) <=> SumFunctionOnSet(Side(l, "D"), Accounts) = SumFunctionOnSet(Side(l, "C"), Accounts)
  <1>1. DOMAIN Side(l, "D") = Accounts /\ DOMAIN Side(l, "C") = Accounts
    BY DEF Side
  <1>2. Balanced(l) <=> SumFunction(Side(l, "D")) = SumFunction(Side(l, "C"))
    BY DEF Balanced, Side
  <1> QED
    BY <1>1, <1>2 DEF SumFunction

\* Reversed lines balance if the lines did.
LEMMA MirrorBalances ==
  ASSUME NEW l \in Lines, Balanced(l)
  PROVE  Balanced(Mirror(l))
  <1>1. Side(Mirror(l), "D") = Side(l, "C") /\ Side(Mirror(l), "C") = Side(l, "D")
    BY DEF Mirror, Side
  <1> QED
    BY <1>1, BalanceIs

\* So do lines that were moved to another account.
LEMMA SwapBalances ==
  ASSUME NEW l \in Lines, Balanced(l), NEW f \in Accounts, NEW t \in Accounts
  PROVE  Balanced(Swap(l, f, t))
  <1>1. CASE f = t
    <2>1. Side(Swap(l, f, t), "D") = Side(l, "D") /\ Side(Swap(l, f, t), "C") = Side(l, "C")
      BY <1>1 DEF Swap, Side
    <2> QED
      BY <2>1, BalanceIs
  <1>2. CASE f # t
    <2>1. ASSUME NEW s \in {"D", "C"}
          PROVE  SumFunctionOnSet(Side(Swap(l, f, t), s), Accounts) = SumFunctionOnSet(Side(l, s), Accounts)
      <3> DEFINE m == Swap(l, f, t)
      <3>1. \A x \in Accounts : l[x].D \in Nat /\ l[x].C \in Nat /\ m[x].D \in Nat /\ m[x].C \in Nat
        BY SwapType DEF Lines
      <3>2. /\ m[f].D = 0 /\ m[f].C = 0 /\ m[t].D = l[f].D + l[t].D /\ m[t].C = l[f].C + l[t].C
            /\ \A x \in Accounts \ {f, t} : m[x] = l[x]
        BY <1>2 DEF Swap
      <3> HIDE DEF m
      <3> DEFINE a == Side(m, s)
                 b == Side(l, s)
      <3>3. \A x \in Accounts : a[x] \in Int /\ b[x] \in Int
        BY <3>1 DEF Side
      <3>4. a[f] + a[t] = b[f] + b[t]
        BY <3>1, <3>2 DEF Side
      <3>5. \A x \in Accounts \ {f, t} : a[x] = b[x]
        BY <3>2 DEF Side
      <3>6. IsFiniteSet(Accounts)
        BY JournalAssumption
      <3> HIDE DEF a, b
      <3>7. SumFunctionOnSet(a, Accounts) = SumFunctionOnSet(b, Accounts)
        BY <1>2, <3>3, <3>4, <3>5, <3>6, SumMoved
      <3> QED
        BY <3>7 DEF a, b, m
    <2> QED
      BY <2>1, BalanceIs
  <1> QED
    BY <1>1, <1>2

\* The empty row is a row.
LEMMA NoEntryType == NoEntry \in Entry
  <1>1. NoLines \in Lines
    BY DEF NoLines, Lines
  <1>2. QED
    BY <1>1, MonthsFact DEF NoEntry, Entry, EntryStatus, Sources

\* A new row is a row.
LEMMA NewEntryType ==
  ASSUME NEW st \in EntryStatus, NEW m \in Months, NEW l \in Lines,
         NEW src \in Sources, NEW a \in Actors
  PROVE  NewEntry(st, m, l, src, a) \in Entry
  BY DEF NewEntry, Entry

\* e reverses row i of journal j in month m.
Reverses(e, j, i, m) ==
  /\ e \in Entry /\ e.status = "posted" /\ e.month = m /\ e.source = "reversal"
  /\ e.reverses = i /\ e.lines = Mirror(j[i].lines)

\* f is e, reversed.
Marked(f, e) ==
  /\ f \in Entry /\ f.status = "reversed" /\ f.month = e.month /\ f.source = e.source
  /\ f.reverses = e.reverses /\ f.lines = e.lines /\ f.by = e.by
  /\ f.approvedBy = e.approvedBy

\* The row a reversal adds reverses the original.
LEMMA ReversalOfType ==
  ASSUME NEW j \in [Ids -> Entry], NEW i \in Ids, NEW m \in Months, NEW a \in Actors
  PROVE  Reverses(ReversalOf(j, i, m, a), j, i, m)
  <1> DEFINE l == Mirror(j[i].lines)
  <1>1. l \in Lines
    BY MirrorType DEF Entry
  <1> HIDE DEF l
  <1>2. ReversalOf(j, i, m, a)
          = [status |-> "posted", month |-> m, source |-> "reversal", reverses |-> i,
             lines |-> l, by |-> a, approvedBy |-> None]
    BY DEF ReversalOf, NewEntry, l
  <1>3. QED
    BY <1>1, <1>2 DEF Reverses, Entry, EntryStatus, Sources, l

\* Setting a row's status to reversed changes nothing else of it.
LEMMA MarkedReversed ==
  ASSUME NEW e \in Entry
  PROVE  Marked([e EXCEPT !.status = "reversed"], e)
  BY DEF Marked, Entry, EntryStatus

\* A reversal adds its row, marks the original and leaves every other row alone.
LEMMA WithReversalRows ==
  ASSUME NEW j \in [Ids -> Entry], NEW i \in Ids, NEW r \in Ids, i # r,
         NEW m \in Months, NEW a \in Actors
  PROVE  /\ WithReversal(j, i, r, m, a) \in [Ids -> Entry]
         /\ Reverses(WithReversal(j, i, r, m, a)[r], j, i, m)
         /\ Marked(WithReversal(j, i, r, m, a)[i], j[i])
         /\ \A x \in Ids \ {i, r} : WithReversal(j, i, r, m, a)[x] = j[x]
  <1> DEFINE e == ReversalOf(j, i, m, a)
             d == [j[i] EXCEPT !.status = "reversed"]
             n == WithReversal(j, i, r, m, a)
  <1>1. Reverses(e, j, i, m) /\ Marked(d, j[i])
    BY ReversalOfType, MarkedReversed
  <1>2. n = [[j EXCEPT ![r] = e] EXCEPT ![i].status = "reversed"]
    BY DEF WithReversal
  <1>3. [j EXCEPT ![r] = e][i] = j[i]
    OBVIOUS
  <1>4. n = [[j EXCEPT ![r] = e] EXCEPT ![i] = d]
    BY <1>2, <1>3
  <1> HIDE DEF e, d, n
  <1>5. e \in Entry /\ d \in Entry
    BY <1>1 DEF Reverses, Marked
  <1>6. n \in [Ids -> Entry] /\ n[r] = e /\ n[i] = d /\ \A x \in Ids \ {i, r} : n[x] = j[x]
    BY <1>4, <1>5
  <1>7. QED
    BY <1>1, <1>6 DEF n

\* The books of a month are the same when the rows in them are.
LEMMA SameBooks ==
  ASSUME NEW j, NEW n, NEW m \in Months,
         \A x \in Ids : /\ (InBooks(j[x]) /\ j[x].month = m) <=> (InBooks(n[x]) /\ n[x].month = m)
                        /\ (InBooks(j[x]) /\ j[x].month = m) => j[x].lines = n[x].lines
  PROVE  BooksOf(n, m) = BooksOf(j, m)
  BY DEF BooksOf

-----------------------------------------------------------------------------
(* Reversals stay paired *)

\* A journal in which row i was reversed by row r, and in which rows that reverse
\* nothing may have been added, is still paired.
LEMMA ReversalKeepsPairs ==
  ASSUME NEW j \in [Ids -> Entry], NEW n \in [Ids -> Entry], PairedReversals(j),
         NEW i \in Ids, NEW r \in Ids, NEW m \in Months, NEW N \in SUBSET Ids,
         j[i].status = "posted", j[r].status = "absent",
         Reverses(n[r], j, i, m), Marked(n[i], j[i]), r \notin N, i \notin N,
         \A x \in N : /\ j[x].status = "absent" /\ n[x].reverses = None
                      /\ n[x].status \in {"pending_review", "posted"},
         \A x \in Ids \ ({i, r} \cup N) : n[x] = j[x]
  PROVE  PairedReversals(n)
  <1>1. /\ i # r /\ i # None
        /\ n[r].status = "posted" /\ n[r].reverses = i /\ n[r].lines = Mirror(j[i].lines)
        /\ n[i].status = "reversed" /\ n[i].reverses = j[i].reverses
        /\ n[i].lines = j[i].lines
    BY JournalAssumption DEF Reverses, Marked
  <1>2. \A x \in Ids : n[x].status # "absent" /\ n[x].reverses # None =>
          \/ x = r
          \/ x # r /\ n[x].reverses = j[x].reverses /\ j[x].status # "absent"
             /\ n[x].lines = j[x].lines
    BY <1>1
  <1>3. \A x \in Ids : j[x].status # "absent" => n[x].status # "absent" /\ n[x].reverses = j[x].reverses
    BY <1>1
  <1>4. \A x \in Ids : j[x].status = "reversed" => n[x] = j[x]
    BY <1>1
  <1>5. \A x \in Ids : (j[x].status # "absent" /\ j[x].reverses # None)
                          => j[x].reverses \in Ids /\ j[x].reverses # i
    BY DEF PairedReversals, Entry
  <1>6. ASSUME NEW x \in Ids, n[x].status # "absent", n[x].reverses # None
        PROVE  /\ n[x].status # "pending_review" /\ n[x].reverses # x
               /\ n[n[x].reverses].status = "reversed"
               /\ n[x].lines = Mirror(n[n[x].reverses].lines)
    <2>1. CASE x = r
      BY <1>1, <2>1
    <2>2. CASE x # r
      <3>1. j[x].status # "absent" /\ j[x].reverses # None /\ n[x].reverses = j[x].reverses
            /\ n[x].lines = j[x].lines
        BY <1>2, <1>6, <2>2
      <3>2. /\ j[x].status # "pending_review" /\ j[x].reverses # x
            /\ j[j[x].reverses].status = "reversed"
            /\ j[x].lines = Mirror(j[j[x].reverses].lines)
        BY <3>1 DEF PairedReversals
      <3>3. n[j[x].reverses] = j[j[x].reverses]
        BY <1>4, <1>5, <3>1, <3>2
      <3>4. x \notin N /\ (x = i \/ n[x] = j[x])
        BY <2>2, <3>1
      <3>5. n[x].status # "pending_review"
        BY <1>1, <3>2, <3>4
      <3>6. QED
        BY <3>1, <3>2, <3>3, <3>5
    <2>3. QED
      BY <2>1, <2>2
  <1>7. ASSUME NEW x \in Ids, n[x].status = "reversed"
        PROVE  \E y \in Ids : n[y].status # "absent" /\ n[y].reverses = x
    <2>1. CASE x = i
      BY <1>1, <2>1
    <2>2. CASE x # i
      <3>1. j[x].status = "reversed"
        BY <1>1, <1>7, <2>2
      <3>2. PICK y \in Ids : j[y].status # "absent" /\ j[y].reverses = x
        BY <3>1 DEF PairedReversals
      <3>3. QED
        BY <1>3, <3>2
    <2>3. QED
      BY <2>1, <2>2
  <1>8. ASSUME NEW x \in Ids, NEW y \in Ids, n[x].status # "absent", n[y].status # "absent",
               n[x].reverses = n[y].reverses, n[x].reverses # None
        PROVE  x = y
    <2>1. CASE x = r \/ y = r
      BY <1>1, <1>2, <1>5, <1>8, <2>1
    <2>2. CASE x # r /\ y # r
      BY <1>2, <1>8, <2>2 DEF PairedReversals
    <2>3. QED
      BY <2>1, <2>2
  <1>9. QED
    BY <1>6, <1>7, <1>8 DEF PairedReversals

\* A journal to which rows that reverse nothing were added, or in which waiting
\* rows became live, is still paired.
LEMMA GrowthKeepsPairs ==
  ASSUME NEW j \in [Ids -> Entry], NEW n \in [Ids -> Entry], PairedReversals(j),
         NEW c \in Ids, j[c].status \in {"absent", "pending_review"},
         n[c].status \in {"pending_review", "posted"}, n[c].reverses = None,
         \A x \in Ids \ {c} : n[x] = j[x]
  PROVE  PairedReversals(n)
  <1>1. \A x \in Ids : (n[x].status # "absent" /\ n[x].reverses # None)
                          => x # c /\ n[x] = j[x] /\ j[x].reverses \in Ids \ {c}
    BY DEF PairedReversals, Entry
  <1>2. \A x \in Ids : n[x].status = "reversed" => x # c /\ n[x] = j[x]
    OBVIOUS
  <1>3. \A y \in Ids : (j[y].status # "absent" /\ j[y].reverses # None) => n[y] = j[y]
    BY DEF PairedReversals
  <1>4. ASSUME NEW x \in Ids, n[x].status # "absent", n[x].reverses # None
        PROVE  /\ n[x].status # "pending_review" /\ n[x].reverses # x
               /\ n[n[x].reverses].status = "reversed"
               /\ n[x].lines = Mirror(n[n[x].reverses].lines)
    BY <1>1, <1>4 DEF PairedReversals
  <1>5. ASSUME NEW x \in Ids, n[x].status = "reversed"
        PROVE  \E y \in Ids : n[y].status # "absent" /\ n[y].reverses = x
    <2>1. PICK y \in Ids : j[y].status # "absent" /\ j[y].reverses = x
      BY <1>2, <1>5 DEF PairedReversals
    <2>2. x # None
      BY JournalAssumption
    <2>3. QED
      BY <1>3, <2>1, <2>2
  <1>6. ASSUME NEW x \in Ids, NEW y \in Ids, n[x].status # "absent", n[y].status # "absent",
               n[x].reverses = n[y].reverses, n[x].reverses # None
        PROVE  x = y
    BY <1>1, <1>6 DEF PairedReversals
  <1>7. QED
    BY <1>4, <1>5, <1>6 DEF PairedReversals
=============================================================================
