----------------------------- MODULE LedgerProofs -----------------------------
(***************************************************************************)
(* Theorems about Ledger, for every set of keys, users and accounts, every *)
(* calendar and every journal length.  What they share with the sessions   *)
(* is in JournalProofs.                                                    *)
(***************************************************************************)
EXTENDS Ledger, JournalProofs

-----------------------------------------------------------------------------
(* What each step does to the rows *)

\* The invariant the proofs carry.
IInv == TypeOK /\ LegsTogether /\ ReversalsPaired

\* e is a new row that reverses nothing.
Fresh(e, m, src, a) ==
  /\ e \in Entry /\ e.month = m /\ e.source = src /\ e.reverses = None /\ e.by = a
  /\ e.status \in {"pending_review", "posted"}

\* The rows in N change as the other conjuncts say; every other row stays, and the
\* period of m, which is not closed, has a row after the step.
Writes(N, m) ==
  /\ journal' \in [Ids -> Entry]
  /\ \A x \in Ids \ N : journal'[x] = journal[x]
  /\ period[m] # "closed" /\ period' = [period EXCEPT ![m] = "open"]
  /\ UNCHANGED <<requireApproval, today>>

\* Row c is posted by a in month m.
PostsRow(c, m, a) ==
  /\ journal[c].status = "absent"
  /\ Fresh(journal'[c], m, "manual", a) /\ journal'[c].status = LandingStatus(a)
  /\ Balanced(journal'[c].lines)
  /\ Writes({c}, m)

\* Row i is reversed by row r in month m.
ReversesRow(i, r, m) ==
  /\ journal[i].status = "posted" /\ journal[r].status = "absent"
  /\ Reverses(journal'[r], journal, i, m) /\ Marked(journal'[i], journal[i])
  /\ Writes({i, r}, m)

\* Row i is reversed by row r and reposted by a as row c, in month m.
CorrectsRow(i, r, c, m, a) ==
  /\ r # c
  /\ journal[i].status = "posted"
  /\ journal[r].status = "absent" /\ journal[c].status = "absent"
  /\ Reverses(journal'[r], journal, i, m) /\ Marked(journal'[i], journal[i])
  /\ Fresh(journal'[c], m, "recategorize", a) /\ journal'[c].status = "posted"
  /\ Writes({i, r, c}, m)

\* A post adds one fresh row in a month that is not closed.
LEMMA PostStep ==
  ASSUME TypeOK, NEW a \in Actors, NEW k \in Keys, NEW m \in Months, NEW l \in Payloads,
         Post(a, k, m, l)
  PROVE  \E c \in Ids : c = <<k, "">> /\ PostsRow(c, m, a)
  <1> DEFINE n == NewEntry(LandingStatus(a), m, l, "manual", a)
  <1>1. n \in Entry
    BY NewEntryType, LedgerAssumption DEF LandingStatus, EntryStatus, Sources
  <1>2. /\ n.month = m /\ n.source = "manual" /\ n.reverses = None /\ n.by = a
        /\ n.status = LandingStatus(a) /\ n.status \in {"pending_review", "posted"}
        /\ Balanced(n.lines)
    BY DEF NewEntry, LandingStatus, Post, Postable
  <1> HIDE DEF n
  <1>3. PICK c \in Ids : c = <<k, "">>
    BY IdsFact
  <1>4. /\ journal[c].status = "absent" /\ journal' = [journal EXCEPT ![c] = n]
        /\ period[m] # "closed" /\ period' = [period EXCEPT ![m] = "open"]
        /\ UNCHANGED <<requireApproval, today>>
    BY <1>3 DEF Post, EnsureOpen, n
  <1>5. QED
    BY <1>1, <1>2, <1>3, <1>4 DEF TypeOK, Fresh, PostsRow, Writes

\* An approval makes one waiting row live, in a month that is not closed.
LEMMA ApproveStep ==
  ASSUME TypeOK, NEW a \in Actors, NEW i \in Ids, Approve(a, i)
  PROVE  /\ journal' \in [Ids -> Entry]
         /\ journal[i].status = "pending_review" /\ period[journal[i].month] # "closed"
         /\ journal'[i].status = "posted" /\ journal'[i].approvedBy = a /\ a \in Members
         /\ journal'[i].month = journal[i].month /\ journal'[i].source = journal[i].source
         /\ journal'[i].reverses = journal[i].reverses
         /\ journal'[i].lines = journal[i].lines /\ journal'[i].by = journal[i].by
         /\ \A x \in Ids \ {i} : journal'[x] = journal[x]
         /\ UNCHANGED <<period, requireApproval, today>>
  BY DEF Approve, TypeOK, Entry, EntryStatus

\* A reversal adds the mirror of a posted row and marks that row.
LEMMA ReverseStep ==
  ASSUME TypeOK, NEW a \in Actors, NEW i \in Ids, NEW k \in Keys,
         NEW date, NEW at \in Months, Reverse(a, i, k, date, at)
  PROVE  \E r \in Ids : r = <<k, "">> /\ ReversesRow(i, r, at)
  <1>1. PICK r \in Ids : r = <<k, "">>
    BY IdsFact
  <1>2. /\ journal[r].status = "absent" /\ journal[i].status = "posted"
        /\ journal' = WithReversal(journal, i, r, at, a)
        /\ period[at] # "closed" /\ period' = [period EXCEPT ![at] = "open"]
        /\ UNCHANGED <<requireApproval, today>>
    BY <1>1 DEF Reverse, EnsureOpen
  <1> DEFINE w == WithReversal(journal, i, r, at, a)
  <1>3. journal \in [Ids -> Entry] /\ i # r
    BY <1>2 DEF TypeOK
  <1>4. /\ w \in [Ids -> Entry]
        /\ Reverses(w[r], journal, i, at)
        /\ Marked(w[i], journal[i])
        /\ \A x \in Ids \ {i, r} : w[x] = journal[x]
    BY <1>3, WithReversalRows
  <1> HIDE DEF w
  <1>5. QED
    BY <1>1, <1>2, <1>4 DEF w, ReversesRow, Writes

\* A recategorisation adds the mirror of a posted row and its repost, and marks
\* that row.
LEMMA RecategorizeStep ==
  ASSUME TypeOK, LegsTogether, NEW a \in Actors, NEW i \in Ids, NEW k \in Keys,
         NEW from \in Accounts, NEW to \in Accounts, Recategorize(a, i, k, from, to)
  PROVE  \E r, c \in Ids, m \in Months :
           /\ r = <<k, ":rev">> /\ c = <<k, ":new">>
           /\ CorrectsRow(i, r, c, m, a)
           /\ journal'[c].lines = Swap(journal[i].lines, from, to)
  <1>1. PICK r, c \in Ids : r = <<k, ":rev">> /\ c = <<k, ":new">> /\ r # c
    BY IdsFact
  <1>2. PICK at \in Months : at = CorrectionMonth(i)
    BY DEF CorrectionMonth, TypeOK, Entry
  <1> DEFINE l == Swap(journal[i].lines, from, to)
             n == NewEntry("posted", at, l, "recategorize", a)
             w == WithReversal(journal, i, r, at, a)
  <1>3. l \in Lines
    BY SwapType DEF TypeOK, Entry
  <1>4. n \in Entry /\ n.lines = l /\ n.status = "posted" /\ Fresh(n, at, "recategorize", a)
    BY <1>3, NewEntryType DEF NewEntry, EntryStatus, Sources, Fresh
  <1>5. /\ journal[c].status = "absent" /\ journal[i].status = "posted"
        /\ journal' = [w EXCEPT ![c] = n]
        /\ period[at] # "closed" /\ period' = [period EXCEPT ![at] = "open"]
        /\ UNCHANGED <<requireApproval, today>>
    BY <1>1, <1>2 DEF Recategorize, EnsureOpen
  <1>6. journal[r].status = "absent"
    BY <1>1, <1>5 DEF LegsTogether
  <1>7. /\ w \in [Ids -> Entry]
        /\ Reverses(w[r], journal, i, at)
        /\ Marked(w[i], journal[i])
        /\ \A x \in Ids \ {i, r} : w[x] = journal[x]
    BY SMTT(30), <1>5, <1>6, WithReversalRows DEF TypeOK
  <1> HIDE DEF n, w, l
  <1>8. /\ journal' \in [Ids -> Entry] /\ journal'[r] = w[r] /\ journal'[i] = w[i]
        /\ journal'[c] = n /\ \A x \in Ids \ {i, r, c} : journal'[x] = journal[x]
    BY <1>1, <1>4, <1>5, <1>7
  <1>9. QED
    BY <1>1, <1>4, <1>5, <1>6, <1>7, <1>8 DEF l, CorrectsRow, Writes

-----------------------------------------------------------------------------
(* The invariant *)

\* Every step keeps the types, and no row's month loses its period row.
LEMMA TypeStep == TypeOK /\ LegsTogether /\ [Next]_vars => TypeOK'
  <1> SUFFICES ASSUME TypeOK, LegsTogether, [Next]_vars PROVE TypeOK'
    OBVIOUS
  <1>1. ASSUME NEW a \in Actors, NEW k \in Keys, NEW m \in Months, NEW l \in Payloads,
               Post(a, k, m, l)
        PROVE  TypeOK'
    <2>1. PICK c \in Ids : PostsRow(c, m, a)
      BY <1>1, PostStep
    <2>2. journal'[c].month = m
      BY <2>1 DEF Fresh, PostsRow
    <2>3. QED
      BY <2>1, <2>2 DEF TypeOK, PeriodStatus, PostsRow, Writes
  <1>2. ASSUME NEW a \in Actors, NEW i \in Ids, Approve(a, i)
        PROVE  TypeOK'
    BY <1>2, ApproveStep DEF TypeOK
  <1>3. ASSUME NEW a \in Actors, NEW i \in Ids, NEW k \in Keys,
               NEW date \in Months \cup {None}, NEW at \in Months,
               Reverse(a, i, k, date, at)
        PROVE  TypeOK'
    <2>1. PICK r \in Ids : ReversesRow(i, r, at)
      BY <1>3, ReverseStep
    <2>2. journal'[r].month = at /\ journal'[i].month = journal[i].month
      BY <2>1 DEF Reverses, Marked, ReversesRow
    <2>3. QED
      BY <2>1, <2>2 DEF TypeOK, PeriodStatus, ReversesRow, Writes
  <1>4. ASSUME NEW a \in Actors, NEW i \in Ids, NEW k \in Keys,
               NEW from \in Accounts, NEW to \in Accounts,
               Recategorize(a, i, k, from, to)
        PROVE  TypeOK'
    <2>1. PICK r, c \in Ids, at \in Months : CorrectsRow(i, r, c, at, a)
      BY <1>4, RecategorizeStep
    <2>2. /\ journal'[r].month = at /\ journal'[c].month = at
          /\ journal'[i].month = journal[i].month
      BY <2>1 DEF Reverses, Marked, Fresh, CorrectsRow
    <2>3. QED
      BY <2>1, <2>2 DEF TypeOK, PeriodStatus, CorrectsRow, Writes
  <1>5. ASSUME NEW a \in Actors, NEW m \in Months, Close(a, m) \/ Reopen(a, m)
        PROVE  TypeOK'
    BY <1>5 DEF TypeOK, Close, Reopen, PeriodStatus, Entry
  <1>6. ASSUME NEW a \in Actors, SetApprovalPolicy(a)
        PROVE  TypeOK'
    BY <1>6 DEF TypeOK, SetApprovalPolicy
  <1>7. CASE NextMonth
    BY <1>7, JournalAssumption DEF TypeOK, NextMonth, Months
  <1>8. CASE UNCHANGED vars
    BY <1>8 DEF TypeOK, vars
  <1>9. QED
    BY <1>1, <1>2, <1>3, <1>4, <1>5, <1>6, <1>7, <1>8 DEF Next

\* The steps that leave the journal alone.
LEMMA QuietStep ==
  \/ \E a \in Actors, m \in Months : Close(a, m) \/ Reopen(a, m)
  \/ \E a \in Actors : SetApprovalPolicy(a)
  \/ NextMonth
  \/ UNCHANGED vars
  => UNCHANGED journal
  BY DEF Close, Reopen, SetApprovalPolicy, NextMonth, vars

\* Every step keeps the two legs of each recategorisation together.
LEMMA LegsStep == TypeOK /\ LegsTogether /\ [Next]_vars => LegsTogether'
  <1> SUFFICES ASSUME TypeOK, LegsTogether, [Next]_vars,
                      NEW k \in Keys,
                      NEW rev \in Ids, rev = <<k, ":rev">>,
                      NEW new \in Ids, new = <<k, ":new">>
               PROVE  /\ journal'[rev].status = "absent" <=> journal'[new].status = "absent"
                      /\ journal'[new].status # "absent"
                           => journal'[rev].month = journal'[new].month
    BY IdsFact DEF LegsTogether
  <1>0. /\ journal[rev].status = "absent" <=> journal[new].status = "absent"
        /\ journal[new].status # "absent" => journal[rev].month = journal[new].month
        /\ rev # new /\ \A q \in Keys : <<q, "">> # rev /\ <<q, "">> # new
    BY IdsFact DEF LegsTogether
  <1> DEFINE Goal == /\ journal'[rev].status = "absent" <=> journal'[new].status = "absent"
                     /\ journal'[new].status # "absent"
                          => journal'[rev].month = journal'[new].month
  <1>1. ASSUME NEW a \in Actors, NEW q \in Keys, NEW m \in Months, NEW l \in Payloads,
               Post(a, q, m, l)
        PROVE  Goal
    <2>1. PICK c \in Ids : c = <<q, "">> /\ PostsRow(c, m, a)
      BY <1>1, PostStep
    <2>2. journal'[rev] = journal[rev] /\ journal'[new] = journal[new]
      BY <1>0, <2>1 DEF PostsRow, Writes
    <2>3. QED
      BY <1>0, <2>2
  <1>2. ASSUME NEW a \in Actors, NEW i \in Ids, Approve(a, i)
        PROVE  Goal
    BY <1>0, <1>2, ApproveStep
  <1>3. ASSUME NEW a \in Actors, NEW i \in Ids, NEW q \in Keys,
               NEW date \in Months \cup {None}, NEW at \in Months,
               Reverse(a, i, q, date, at)
        PROVE  Goal
    <2>1. PICK r \in Ids : r = <<q, "">> /\ ReversesRow(i, r, at)
      BY <1>3, ReverseStep
    <2>2. /\ journal'[i].status = "reversed" /\ journal'[i].month = journal[i].month
          /\ rev # r /\ new # r
      BY <1>0, <2>1 DEF Marked, ReversesRow
    <2>3. QED
      BY <1>0, <2>1, <2>2 DEF ReversesRow, Writes
  <1>4. ASSUME NEW a \in Actors, NEW i \in Ids, NEW q \in Keys,
               NEW from \in Accounts, NEW to \in Accounts,
               Recategorize(a, i, q, from, to)
        PROVE  Goal
    <2>1. PICK r, c \in Ids, m \in Months :
                 r = <<q, ":rev">> /\ c = <<q, ":new">> /\ CorrectsRow(i, r, c, m, a)
      BY <1>4, RecategorizeStep
    <2>2. /\ journal'[i].status = "reversed" /\ journal'[i].month = journal[i].month
          /\ journal'[r].status = "posted" /\ journal'[r].month = m
          /\ journal'[c].status = "posted" /\ journal'[c].month = m
      BY <2>1 DEF Reverses, Marked, Fresh, CorrectsRow
    <2>3. CASE q = k
      BY <2>1, <2>2, <2>3
    <2>4. CASE q # k
      <3>1. rev \notin {r, c} /\ new \notin {r, c}
        BY <2>1, <2>4
      <3>2. QED
        BY <1>0, <2>1, <2>2, <3>1 DEF CorrectsRow, Writes
    <2>5. QED
      BY <2>3, <2>4
  <1>5. CASE UNCHANGED journal
    BY <1>0, <1>5
  <1>6. QED
    BY <1>1, <1>2, <1>3, <1>4, <1>5, QuietStep DEF Next

\* Every step keeps reversed rows and reversals in one-to-one correspondence.
LEMMA PairedStep == IInv /\ [Next]_vars => ReversalsPaired'
  <1> SUFFICES ASSUME IInv, [Next]_vars PROVE PairedReversals(journal')
    BY DEF ReversalsPaired
  <1>0. TypeOK /\ LegsTogether /\ PairedReversals(journal) /\ journal \in [Ids -> Entry]
    BY DEF IInv, ReversalsPaired, TypeOK
  <1>1. ASSUME NEW a \in Actors, NEW k \in Keys, NEW m \in Months, NEW l \in Payloads,
               Post(a, k, m, l)
        PROVE  PairedReversals(journal')
    <2>1. PICK c \in Ids : PostsRow(c, m, a)
      BY <1>0, <1>1, PostStep
    <2>2. /\ journal' \in [Ids -> Entry] /\ journal[c].status = "absent"
          /\ journal'[c].reverses = None
          /\ journal'[c].status \in {"pending_review", "posted"}
          /\ \A x \in Ids \ {c} : journal'[x] = journal[x]
      BY <2>1 DEF Fresh, PostsRow, Writes
    <2>3. QED
      BY <1>0, <2>2, GrowthKeepsPairs
  <1>2. ASSUME NEW a \in Actors, NEW i \in Ids, Approve(a, i)
        PROVE  PairedReversals(journal')
    <2>1. /\ journal' \in [Ids -> Entry] /\ journal[i].status = "pending_review"
          /\ journal'[i].status = "posted" /\ journal'[i].reverses = journal[i].reverses
          /\ \A x \in Ids \ {i} : journal'[x] = journal[x]
      BY <1>0, <1>2, ApproveStep
    <2>2. journal[i].reverses = None
      BY <1>0, <2>1 DEF PairedReversals
    <2>3. QED
      BY <1>0, <2>1, <2>2, GrowthKeepsPairs
  <1>3. ASSUME NEW a \in Actors, NEW i \in Ids, NEW k \in Keys,
               NEW date \in Months \cup {None}, NEW at \in Months,
               Reverse(a, i, k, date, at)
        PROVE  PairedReversals(journal')
    <2>1. PICK r \in Ids : ReversesRow(i, r, at)
      BY <1>0, <1>3, ReverseStep
    <2>2. QED
      <3>1. \A x \in Ids \ ({i, r} \cup {}) : journal'[x] = journal[x]
        BY <2>1 DEF ReversesRow, Writes
      <3>2. {} \in SUBSET Ids /\ r \notin {} /\ i \notin {}
        OBVIOUS
      <3>3. \A x \in {} : /\ journal[x].status = "absent" /\ journal'[x].reverses = None
                          /\ journal'[x].status \in {"pending_review", "posted"}
        OBVIOUS
      <3>4. QED
        BY <1>0, <2>1, <3>1, <3>2, <3>3, ReversalKeepsPairs DEF ReversesRow, Writes
  <1>4. ASSUME NEW a \in Actors, NEW i \in Ids, NEW k \in Keys,
               NEW from \in Accounts, NEW to \in Accounts,
               Recategorize(a, i, k, from, to)
        PROVE  PairedReversals(journal')
    <2>1. PICK r, c \in Ids, m \in Months : CorrectsRow(i, r, c, m, a)
      BY <1>0, <1>4, RecategorizeStep
    <2>2. \A x \in {c} : /\ journal[x].status = "absent" /\ journal'[x].reverses = None
                        /\ journal'[x].status \in {"pending_review", "posted"}
      BY <2>1 DEF Fresh, CorrectsRow
    <2>3. /\ {c} \in SUBSET Ids /\ r \notin {c} /\ i \notin {c}
          /\ \A x \in Ids \ ({i, r} \cup {c}) : journal'[x] = journal[x]
      BY <2>1 DEF CorrectsRow, Writes
    <2>4. QED
      BY <1>0, <2>1, <2>2, <2>3, ReversalKeepsPairs DEF CorrectsRow, Writes
  <1>5. CASE UNCHANGED journal
    BY <1>0, <1>5
  <1>6. QED
    BY <1>1, <1>2, <1>3, <1>4, <1>5, QuietStep DEF Next

\* The empty journal satisfies the invariant.
LEMMA InitIInv == Init => IInv
  <1> SUFFICES ASSUME Init PROVE IInv
    OBVIOUS
  <1>1. \A i \in Ids : journal[i] = NoEntry
    BY DEF Init
  <1>2. NoEntry.status = "absent"
    BY DEF NoEntry
  <1>3. TypeOK
    BY <1>1, <1>2, NoEntryType, MonthsFact DEF Init, TypeOK, PeriodStatus
  <1>4. LegsTogether
    BY <1>1, <1>2, IdsFact DEF LegsTogether
  <1>5. ReversalsPaired
    BY <1>1, <1>2 DEF ReversalsPaired, PairedReversals
  <1>6. QED
    BY <1>3, <1>4, <1>5 DEF IInv

\* The invariant holds in every reachable state.
THEOREM Invariance == Spec => []IInv
  <1>1. IInv /\ [Next]_vars => IInv'
    BY TypeStep, LegsStep, PairedStep DEF IInv
  <1>2. QED
    BY <1>1, InitIInv, PTL DEF Spec

\* Type correctness, for every set of keys, accounts and users and any calendar.
THEOREM TypeCorrect == Spec => []TypeOK
  <1>1. IInv => TypeOK
    BY DEF IInv
  <1>2. QED
    BY <1>1, Invariance, PTL

\* No amount is cancelled twice and none is marked cancelled that nothing offsets.
THEOREM ReversalsStayPaired == Spec => []ReversalsPaired
  <1>1. IInv => ReversalsPaired
    BY DEF IInv
  <1>2. QED
    BY <1>1, Invariance, PTL

\* A recategorisation never leaves a reversal without its repost.
THEOREM LegsStayTogether == Spec => []LegsTogether
  <1>1. IInv => LegsTogether
    BY DEF IInv
  <1>2. QED
    BY <1>1, Invariance, PTL

-----------------------------------------------------------------------------
(* What the reports add up *)

Present == {i \in Ids : journal[i].status # "absent"}

\* There are finitely many rows, and the lines of each balance.
BooksAddUp ==
  /\ IsFiniteSet(Present)
  /\ \A i \in Present : Balanced(journal[i].lines)

\* A few more rows whose lines balance keep it so.
LEMMA RowsAddUp ==
  ASSUME BooksAddUp, NEW N \in SUBSET Ids, IsFiniteSet(N),
         \A x \in Ids \ N : journal'[x] = journal[x],
         \A x \in N : Balanced(journal'[x].lines)
  PROVE  BooksAddUp'
  <1>1. IsFiniteSet(Present \cup N)
    BY FS_Union DEF BooksAddUp
  <1>2. Present' \subseteq Present \cup N
    BY DEF Present
  <1>3. IsFiniteSet(Present')
    BY <1>1, <1>2, FS_Subset
  <1>4. \A i \in Present' : Balanced(journal'[i].lines)
    BY DEF BooksAddUp, Present
  <1> QED
    BY <1>3, <1>4 DEF BooksAddUp

\* Lines get into the journal balanced, mirrored or moved to another account.
LEMMA AddUpStep == IInv /\ BooksAddUp /\ [Next]_vars => BooksAddUp'
  <1> SUFFICES ASSUME IInv, BooksAddUp, [Next]_vars PROVE BooksAddUp'
    OBVIOUS
  <1>0. TypeOK /\ LegsTogether /\ \A x \in Ids : journal[x].lines \in Lines
    BY DEF IInv, TypeOK, Entry
  <1>1. \A x \in Ids : journal[x].status # "absent" => Balanced(journal[x].lines)
    BY DEF BooksAddUp, Present
  <1>2. \A x, y, z \in Ids : {x} \in SUBSET Ids /\ {x, y} \in SUBSET Ids /\ {x, y, z} \in SUBSET Ids
          /\ IsFiniteSet({x}) /\ IsFiniteSet({x, y}) /\ IsFiniteSet({x, y, z})
    <2> TAKE x, y, z \in Ids
    <2>1. IsFiniteSet({x}) /\ IsFiniteSet({y}) /\ IsFiniteSet({z})
      BY FS_Singleton
    <2>2. IsFiniteSet({x} \cup {y})
      BY <2>1, FS_Union
    <2>3. IsFiniteSet(({x} \cup {y}) \cup {z})
      BY <2>1, <2>2, FS_Union
    <2>4. {x} \cup {y} = {x, y} /\ ({x} \cup {y}) \cup {z} = {x, y, z}
      OBVIOUS
    <2> QED
      BY <2>1, <2>2, <2>3, <2>4
  <1>3. ASSUME NEW a \in Actors, NEW k \in Keys, NEW m \in Months, NEW l \in Payloads,
               Post(a, k, m, l)
        PROVE  BooksAddUp'
    <2>1. PICK c \in Ids : PostsRow(c, m, a)
      BY <1>0, <1>3, PostStep
    <2> QED
      BY <1>2, <2>1, RowsAddUp DEF PostsRow, Writes
  <1>4. ASSUME NEW a \in Actors, NEW i \in Ids, Approve(a, i)
        PROVE  BooksAddUp'
    <2>1. /\ journal[i].status = "pending_review" /\ journal'[i].lines = journal[i].lines
          /\ \A x \in Ids \ {i} : journal'[x] = journal[x]
      BY <1>0, <1>4, ApproveStep
    <2> QED
      BY <1>1, <1>2, <2>1, RowsAddUp
  <1>5. ASSUME NEW i \in Ids, NEW r \in Ids, NEW m \in Months, ReversesRow(i, r, m)
        PROVE  BooksAddUp'
    <2>1. /\ journal[i].status = "posted" /\ journal'[i].lines = journal[i].lines
          /\ journal'[r].lines = Mirror(journal[i].lines)
          /\ \A x \in Ids \ {i, r} : journal'[x] = journal[x]
      BY <1>5 DEF ReversesRow, Writes, Reverses, Marked
    <2>2. Balanced(journal[i].lines) /\ Balanced(Mirror(journal[i].lines))
      BY <1>0, <1>1, <2>1, MirrorBalances
    <2>3. PICK N \in SUBSET Ids : N = {i, r} /\ IsFiniteSet(N)
      BY <1>2
    <2>4. /\ \A x \in Ids \ N : journal'[x] = journal[x]
          /\ \A x \in N : Balanced(journal'[x].lines)
      BY <2>1, <2>2, <2>3
    <2> QED
      BY <2>3, <2>4, RowsAddUp
  <1>6. ASSUME NEW a \in Actors, NEW i \in Ids, NEW r \in Ids, NEW c \in Ids, NEW m \in Months,
               NEW f \in Accounts, NEW t \in Accounts, CorrectsRow(i, r, c, m, a),
               journal'[c].lines = Swap(journal[i].lines, f, t)
        PROVE  BooksAddUp'
    <2>1. /\ journal[i].status = "posted" /\ journal'[i].lines = journal[i].lines
          /\ journal'[r].lines = Mirror(journal[i].lines)
          /\ \A x \in Ids \ {i, r, c} : journal'[x] = journal[x]
      BY <1>6 DEF CorrectsRow, Writes, Reverses, Marked
    <2>2. /\ Balanced(journal[i].lines) /\ Balanced(Mirror(journal[i].lines))
          /\ Balanced(Swap(journal[i].lines, f, t))
      BY <1>0, <1>1, <2>1, MirrorBalances, SwapBalances
    <2>3. PICK N \in SUBSET Ids : N = {i, r, c} /\ IsFiniteSet(N)
      BY <1>2
    <2>4. /\ \A x \in Ids \ N : journal'[x] = journal[x]
          /\ \A x \in N : Balanced(journal'[x].lines)
      BY <1>6, <2>1, <2>2, <2>3
    <2> QED
      BY <2>3, <2>4, RowsAddUp
  <1>7. CASE UNCHANGED journal
    BY <1>7 DEF BooksAddUp, Present
  <1>8. ASSUME NEW a \in Actors, NEW i \in Ids, NEW k \in Keys, NEW date,
               NEW at \in Months, Reverse(a, i, k, date, at)
        PROVE  BooksAddUp'
    BY <1>0, <1>5, <1>8, ReverseStep
  <1>9. ASSUME NEW a \in Actors, NEW i \in Ids, NEW k \in Keys,
               NEW from \in Accounts, NEW to \in Accounts,
               Recategorize(a, i, k, from, to)
        PROVE  BooksAddUp'
    BY <1>0, <1>6, <1>9, RecategorizeStep
  <1> QED
    BY <1>3, <1>4, <1>7, <1>8, <1>9, QuietStep DEF Next

\* The books always add up.
LEMMA AddUpHolds == Spec => [](IInv /\ BooksAddUp)
  <1>1. Init => BooksAddUp
    <2> SUFFICES ASSUME Init PROVE BooksAddUp
      OBVIOUS
    <2>1. Present = {}
      BY DEF Init, Present, NoEntry
    <2> QED
      BY <2>1, FS_EmptySet DEF BooksAddUp
  <1>2. (IInv /\ BooksAddUp) /\ [Next]_vars => (IInv /\ BooksAddUp)'
    BY TypeStep, LegsStep, PairedStep, AddUpStep DEF IInv
  <1> QED
    BY <1>1, <1>2, InitIInv, PTL DEF Spec

\* Rows that balance, added up in one table, balance.
LEMMA TableTies ==
  ASSUME TypeOK, BooksAddUp
  PROVE  TrialBalanceTies
  <1> SUFFICES ASSUME NEW m \in Months
               PROVE  LET cells    == {i \in Ids : InBooks(journal[i]) /\ journal[i].month = m} \X Accounts
                          total(s) == SumFunction([p \in cells |-> journal[p[1]].lines[p[2]][s]])
                      IN  total("D") = total("C")
    BY DEF TrialBalanceTies
  <1> DEFINE R  == {i \in Ids : InBooks(journal[i]) /\ journal[i].month = m}
             dr == [p \in R \X Accounts |-> journal[p[1]].lines[p[2]].D]
             cr == [p \in R \X Accounts |-> journal[p[1]].lines[p[2]].C]
  <1>1. R \subseteq Present /\ IsFiniteSet(R) /\ IsFiniteSet(Accounts)
    <2>1. R \subseteq Present
      BY DEF Present, InBooks
    <2> QED
      BY <2>1, FS_Subset, JournalAssumption DEF BooksAddUp
  <1>2. \A r \in R : journal[r].lines \in Lines /\ Balanced(journal[r].lines)
    BY <1>1 DEF BooksAddUp, TypeOK, Entry
  <1>3. \A r \in R, x \in Accounts :
          dr[<<r, x>>] = journal[r].lines[x].D /\ cr[<<r, x>>] = journal[r].lines[x].C
    OBVIOUS
  <1>4. DOMAIN dr = R \X Accounts /\ DOMAIN cr = R \X Accounts
    OBVIOUS
  <1>5. SumFunction(dr) = SumFunction(cr)
    <2> HIDE DEF R, dr, cr
    <2>1. \A r \in R : \A x \in Accounts : dr[<<r, x>>] \in Int /\ cr[<<r, x>>] \in Int
      <3>1. \A r \in R : \A x \in Accounts :
              journal[r].lines[x].D \in Int /\ journal[r].lines[x].C \in Int
        BY <1>2 DEF Lines
      <3> QED
        BY <1>3, <3>1
    <2>2. \A r \in R : /\ TableRow(dr, Accounts, r) = Side(journal[r].lines, "D")
                     /\ TableRow(cr, Accounts, r) = Side(journal[r].lines, "C")
      BY <1>3 DEF TableRow, Side
    <2>3. \A r \in R : SumFunctionOnSet(TableRow(dr, Accounts, r), Accounts)
                       = SumFunctionOnSet(TableRow(cr, Accounts, r), Accounts)
      BY <1>2, <2>2, BalanceIs
    <2>4. IsFiniteSet(R) /\ IsFiniteSet(Accounts)
      BY <1>1
    <2>5. SumFunctionOnSet(dr, R \X Accounts) = SumFunctionOnSet(cr, R \X Accounts)
      BY <2>1, <2>3, <2>4, SumOfRows
    <2> QED
      BY <1>4, <2>5 DEF SumFunction
  <1> QED
    BY <1>5, Zenon

\* In every month the debits and the credits of the books are equal, for any chart
\* of accounts, any journal and any history of posts, reversals and corrections:
\* every row balances, and a sum over balanced rows balances.
THEOREM TrialBalanceAlwaysTies == Spec => []TrialBalanceTies
  <1>1. IInv /\ BooksAddUp => TrialBalanceTies
    BY TableTies DEF IInv
  <1> QED
    BY <1>1, AddUpHolds, PTL

\* What row e puts on account x.
Worth(e, x) == e.lines[x].D - e.lines[x].C

Booked(j) == {i \in Ids : InBooks(j[i])}

\* Two more rows in the books add what they put on an account to its balance.
LEMMA NetGrows ==
  ASSUME NEW j \in [Ids -> Entry], NEW n \in [Ids -> Entry], NEW x \in Accounts,
         NEW r \in Ids, NEW c \in Ids, r # c, ~ InBooks(j[r]), ~ InBooks(j[c]),
         IsFiniteSet(Booked(j)), Booked(n) = Booked(j) \cup {r, c},
         \A i \in Booked(j) : n[i].lines = j[i].lines
  PROVE  /\ Net(j, x) \in Int
         /\ Net(n, x) = (Net(j, x) + Worth(n[r], x)) + Worth(n[c], x)
  <1> DEFINE B == Booked(j)
             f == [i \in Booked(n) |-> Worth(n[i], x)]
             g == [i \in B |-> Worth(j[i], x)]
  <1>1. /\ \A i \in Ids : Worth(j[i], x) \in Int /\ Worth(n[i], x) \in Int
        /\ B \subseteq Ids /\ r \notin B /\ c \notin B /\ c \notin B \cup {r}
        /\ Booked(n) = (B \cup {r}) \cup {c} /\ IsFiniteSet(B) /\ IsFiniteSet(B \cup {r})
    <2>1. \A i \in Ids : j[i].lines \in Lines /\ n[i].lines \in Lines
      BY DEF Entry
    <2>2. \A i \in Ids : Worth(j[i], x) \in Int /\ Worth(n[i], x) \in Int
      BY <2>1 DEF Lines, Worth
    <2>3. IsFiniteSet(B \cup {r})
      BY FS_AddElement
    <2> QED
      BY <2>2, <2>3 DEF Booked
  <1>2. Net(j, x) = SumFunctionOnSet(g, B) /\ Net(n, x) = SumFunctionOnSet(f, Booked(n))
    BY DEF Net, SumFunction, Worth, Booked
  <1>3. /\ \A i \in B : f[i] = g[i] /\ g[i] \in Int
        /\ \A i \in (B \cup {r}) \cup {c} : f[i] \in Int
        /\ f[r] = Worth(n[r], x) /\ f[c] = Worth(n[c], x)
    BY <1>1 DEF Worth
  <1> HIDE DEF B, f, g
  <1>4. SumFunctionOnSet(f, B) = SumFunctionOnSet(g, B) /\ SumFunctionOnSet(g, B) \in Int
    BY <1>1, <1>3, SumsAgree, SumIsNumber
  <1>5. SumFunctionOnSet(f, B \cup {r}) = SumFunctionOnSet(f, B) + f[r]
    BY <1>1, <1>3, SumOfMore
  <1>6. SumFunctionOnSet(f, (B \cup {r}) \cup {c}) = SumFunctionOnSet(f, B \cup {r}) + f[c]
    BY <1>1, <1>3, SumOfMore
  <1> QED
    BY <1>1, <1>2, <1>3, <1>4, <1>5, <1>6

\* A mirror takes back what its lines put on an account; lines moved from one
\* account to another put on it what both had.
LEMMA MovedLines ==
  ASSUME NEW l \in Lines, NEW f \in Accounts, NEW t \in Accounts
  PROVE  LET w(k, x) == k[x].D - k[x].C
             s       == Swap(l, f, t)
         IN  /\ \A x \in Accounts : w(l, x) \in Int /\ w(Mirror(l), x) = -w(l, x)
             /\ f = t => \A x \in Accounts : w(s, x) = w(l, x)
             /\ f # t => /\ w(s, f) = 0 /\ w(s, t) = w(l, f) + w(l, t)
                         /\ \A x \in Accounts \ {f, t} : w(s, x) = w(l, x)
  BY DEF Lines, Swap, Mirror

\* One correction moves what its entry put on the one account to the other.
LEMMA CorrectionMoves ==
  ASSUME TypeOK, BooksAddUp, NEW a \in Actors, NEW m \in Months,
         NEW i \in Ids, NEW r \in Ids, NEW c \in Ids, CorrectsRow(i, r, c, m, a),
         NEW f \in Accounts, NEW t \in Accounts, journal'[c].lines = Swap(journal[i].lines, f, t)
  PROVE  LET moved    == IF f = t THEN 0 ELSE journal[i].lines[f].D - journal[i].lines[f].C
             added(x) == Net(journal', x) - Net(journal, x)
         IN  /\ added(f) = -moved /\ added(t) = moved
             /\ \A x \in Accounts \ {f, t} : added(x) = 0
  <1>1. /\ journal \in [Ids -> Entry] /\ journal' \in [Ids -> Entry] /\ r # c
        /\ journal[i].status = "posted" /\ journal[i].lines \in Lines
        /\ journal'[i].status = "reversed" /\ journal'[i].lines = journal[i].lines
        /\ journal[r].status = "absent" /\ journal[c].status = "absent"
        /\ journal'[r].status = "posted" /\ journal'[r].lines = Mirror(journal[i].lines)
        /\ journal'[c].status = "posted"
        /\ \A x \in Ids \ {i, r, c} : journal'[x] = journal[x]
    BY DEF TypeOK, Entry, CorrectsRow, Writes, Reverses, Marked
  <1>2. /\ ~ InBooks(journal[r]) /\ ~ InBooks(journal[c])
        /\ Booked(journal') = Booked(journal) \cup {r, c}
        /\ \A x \in Booked(journal) : journal'[x].lines = journal[x].lines
    BY <1>1 DEF Booked, InBooks
  <1>3. IsFiniteSet(Booked(journal))
    <2>1. Booked(journal) \subseteq Present
      BY DEF Booked, Present, InBooks
    <2> QED
      BY <2>1, FS_Subset DEF BooksAddUp
  <1>4. \A x \in Accounts : /\ Net(journal, x) \in Int
                            /\ Net(journal', x) = (Net(journal, x) + Worth(journal'[r], x))
                                                    + Worth(journal'[c], x)
    BY <1>1, <1>2, <1>3, NetGrows
  <1> DEFINE l       == journal[i].lines
             w(k, x) == k[x].D - k[x].C
             s       == Swap(l, f, t)
  <1>5. /\ \A x \in Accounts : w(l, x) \in Int /\ w(Mirror(l), x) = -w(l, x)
        /\ f = t => \A x \in Accounts : w(s, x) = w(l, x)
        /\ f # t => /\ w(s, f) = 0 /\ w(s, t) = w(l, f) + w(l, t)
                    /\ \A x \in Accounts \ {f, t} : w(s, x) = w(l, x)
    BY <1>1, MovedLines
  <1>6. \A x \in Accounts : Worth(journal'[r], x) = w(Mirror(l), x) /\ Worth(journal'[c], x) = w(s, x)
    BY <1>1 DEF Worth
  <1> DEFINE added(x) == Net(journal', x) - Net(journal, x)
  <1> HIDE DEF w, s
  <1>7. \A x \in Accounts : Net(journal', x) = (Net(journal, x) - w(l, x)) + w(s, x)
    BY <1>4, <1>5, <1>6
  <1>8. CASE f = t
    <2>1. \A x \in Accounts : added(x) = 0
      BY <1>4, <1>5, <1>7, <1>8
    <2> QED
      BY <1>8, <2>1
  <1>9. CASE f # t
    <2>1. added(f) = -w(l, f) /\ added(t) = w(l, f)
      BY <1>4, <1>5, <1>7, <1>9
    <2>2. \A x \in Accounts \ {f, t} : added(x) = 0
      BY <1>4, <1>5, <1>7, <1>9
    <2> QED
      BY <1>9, <2>1, <2>2 DEF w
  <1> QED
    BY <1>8, <1>9

\* No other step makes a recategorised row.
LEMMA MoveStep == IInv /\ BooksAddUp /\ [Next]_vars => CorrectionsMoveOnly
  <1> SUFFICES ASSUME IInv, BooksAddUp, [Next]_vars, NEW k \in Keys,
                      NEW new \in Ids, new = <<k, ":new">>,
                      journal[new].status = "absent", journal'[new].status # "absent"
               PROVE  MovesOnly(k)
    BY IdsFact DEF CorrectionsMoveOnly
  <1>0. TypeOK /\ LegsTogether /\ \A q \in Keys : <<q, "">> # new /\ <<q, ":rev">> # new
    BY IdsFact DEF IInv
  <1>1. ASSUME NEW a \in Actors, NEW q \in Keys, NEW m \in Months, NEW l \in Payloads,
               Post(a, q, m, l)
        PROVE  FALSE
    <2>1. PICK c \in Ids : c = <<q, "">> /\ PostsRow(c, m, a)
      BY <1>0, <1>1, PostStep
    <2> QED
      BY <1>0, <2>1 DEF PostsRow, Writes
  <1>2. ASSUME NEW a \in Actors, NEW i \in Ids, Approve(a, i)
        PROVE  FALSE
    BY <1>0, <1>2, ApproveStep
  <1>3. ASSUME NEW a \in Actors, NEW i \in Ids, NEW q \in Keys, NEW date,
               NEW at \in Months, Reverse(a, i, q, date, at)
        PROVE  FALSE
    <2>1. PICK r \in Ids : r = <<q, "">> /\ ReversesRow(i, r, at)
      BY <1>0, <1>3, ReverseStep
    <2> QED
      BY <1>0, <2>1 DEF ReversesRow, Writes
  <1>4. CASE UNCHANGED journal
    BY <1>4
  <1>5. PICK a \in Actors, i \in Ids, q \in Keys, f \in Accounts, t \in Accounts :
               Recategorize(a, i, q, f, t)
    BY <1>1, <1>2, <1>3, <1>4, QuietStep DEF Next
  <1>6. PICK r, c \in Ids, m \in Months :
               /\ r = <<q, ":rev">> /\ c = <<q, ":new">>
               /\ CorrectsRow(i, r, c, m, a)
               /\ journal'[c].lines = Swap(journal[i].lines, f, t)
    BY <1>0, <1>5, RecategorizeStep
  <1>7. c = new /\ r = <<k, ":rev">> /\ journal'[r].reverses = i
    <2>1. c = new
      BY <1>0, <1>6 DEF CorrectsRow, Writes, Marked
    <2>2. q = k
      BY <1>6, <2>1
    <2> QED
      BY <1>6, <2>1, <2>2 DEF CorrectsRow, Reverses
  <1>8. LET moved    == IF f = t THEN 0 ELSE journal[i].lines[f].D - journal[i].lines[f].C
            added(x) == Net(journal', x) - Net(journal, x)
        IN  /\ added(f) = -moved /\ added(t) = moved
            /\ \A x \in Accounts \ {f, t} : added(x) = 0
    BY <1>0, <1>6, CorrectionMoves
  <1> QED
    BY <1>6, <1>7, <1>8 DEF MovesOnly

\* A recategorisation moves what its entry put on one account to another and
\* changes the balance of no other account, for any chart of accounts and any
\* journal: the repost counts exactly once.
THEOREM CorrectionsOnlyMove == Spec => RecategorizeMovesOnly
  <1>1. (IInv /\ BooksAddUp) /\ [Next]_vars => CorrectionsMoveOnly
    BY MoveStep
  <1> QED
    BY <1>1, AddUpHolds, PTL DEF Spec, RecategorizeMovesOnly

-----------------------------------------------------------------------------
(* What a step may never do *)

\* One step never changes the books of a month that is closed before and after it.
LEMMA FrozenStep ==
  ASSUME IInv, [Next]_vars, NEW m \in Months, period[m] = "closed", period'[m] = "closed"
  PROVE  BooksOf(journal', m) = BooksOf(journal, m)
  <1>0. TypeOK /\ LegsTogether /\ period \in [Months -> PeriodStatus]
    BY DEF IInv, TypeOK
  <1>1. ASSUME NEW a \in Actors, NEW k \in Keys, NEW q \in Months, NEW l \in Payloads,
               Post(a, k, q, l)
        PROVE  BooksOf(journal', m) = BooksOf(journal, m)
    <2>1. PICK c \in Ids : PostsRow(c, q, a)
      BY <1>0, <1>1, PostStep
    <2>2. /\ q # m /\ journal'[c].month = q /\ journal[c].status = "absent"
          /\ \A x \in Ids \ {c} : journal'[x] = journal[x]
      BY <2>1 DEF PostsRow, Writes, Fresh
    <2>3. QED
      BY <2>2, SameBooks DEF InBooks
  <1>2. ASSUME NEW a \in Actors, NEW i \in Ids, Approve(a, i)
        PROVE  BooksOf(journal', m) = BooksOf(journal, m)
    <2>1. /\ journal[i].month # m /\ journal'[i].month # m
          /\ \A x \in Ids \ {i} : journal'[x] = journal[x]
      BY <1>0, <1>2, ApproveStep
    <2>2. QED
      BY <2>1, SameBooks
  <1>3. ASSUME NEW i \in Ids, NEW r \in Ids, NEW q \in Months, ReversesRow(i, r, q)
        PROVE  BooksOf(journal', m) = BooksOf(journal, m)
    <2>1. /\ q # m /\ journal'[r].month = q /\ journal[r].status = "absent"
          /\ journal'[i].month = journal[i].month /\ journal'[i].lines = journal[i].lines
          /\ journal[i].status = "posted" /\ journal'[i].status = "reversed"
          /\ \A x \in Ids \ {i, r} : journal'[x] = journal[x]
      BY <1>3 DEF ReversesRow, Writes, Reverses, Marked
    <2>2. QED
      BY <2>1, SameBooks DEF InBooks
  <1>4. ASSUME NEW a \in Actors, NEW i \in Ids, NEW r \in Ids, NEW c \in Ids,
               NEW q \in Months, CorrectsRow(i, r, c, q, a)
        PROVE  BooksOf(journal', m) = BooksOf(journal, m)
    <2>1. /\ q # m /\ journal'[r].month = q /\ journal[r].status = "absent"
          /\ journal'[c].month = q /\ journal[c].status = "absent"
          /\ journal'[i].month = journal[i].month /\ journal'[i].lines = journal[i].lines
          /\ journal[i].status = "posted" /\ journal'[i].status = "reversed"
          /\ \A x \in Ids \ {i, r, c} : journal'[x] = journal[x]
      BY <1>4 DEF CorrectsRow, Writes, Reverses, Marked, Fresh
    <2>2. QED
      BY <2>1, SameBooks DEF InBooks
  <1>5. CASE UNCHANGED journal
    BY <1>5
  <1>6. ASSUME NEW a \in Actors, NEW i \in Ids, NEW k \in Keys, NEW date,
               NEW at \in Months, Reverse(a, i, k, date, at)
        PROVE  BooksOf(journal', m) = BooksOf(journal, m)
    BY <1>0, <1>3, <1>6, ReverseStep
  <1>7. ASSUME NEW a \in Actors, NEW i \in Ids, NEW k \in Keys,
               NEW from \in Accounts, NEW to \in Accounts,
               Recategorize(a, i, k, from, to)
        PROVE  BooksOf(journal', m) = BooksOf(journal, m)
    BY <1>0, <1>4, <1>7, RecategorizeStep
  <1>8. QED
    BY <1>1, <1>2, <1>5, <1>6, <1>7, QuietStep DEF Next

\* While a month stays closed its books do not change, whoever does what.
THEOREM ClosedMonthsAreFrozen == Spec => ClosedBooksFrozen
  <1>1. IInv /\ [Next]_vars => [FrozenWhileClosed]_vars
    BY FrozenStep DEF FrozenWhileClosed
  <1>2. QED
    BY <1>1, Invariance, PTL DEF Spec, ClosedBooksFrozen

\* One step changes nothing of a row but its approval, and moves its status only
\* forward.
LEMMA AppendStep == IInv /\ [Next]_vars => OnlyStatusMoves
  <1> SUFFICES ASSUME IInv, [Next]_vars, NEW x \in Ids, journal[x].status # "absent"
               PROVE  Kept(x)
    BY DEF OnlyStatusMoves
  <1>0. TypeOK /\ LegsTogether /\ journal[x] \in Entry
    BY DEF IInv, TypeOK
  <1>1. journal'[x] = journal[x] => Kept(x)
    BY <1>0 DEF Kept, SameRow, StatusMoves, Entry
  <1>2. journal[x].status = "posted" /\ Marked(journal'[x], journal[x]) => Kept(x)
    BY DEF Kept, SameRow, StatusMoves, Marked
  <1>3. ASSUME NEW a \in Actors, NEW k \in Keys, NEW m \in Months, NEW l \in Payloads,
               Post(a, k, m, l)
        PROVE  Kept(x)
    <2>1. PICK c \in Ids : PostsRow(c, m, a)
      BY <1>0, <1>3, PostStep
    <2>2. QED
      BY <1>1, <2>1 DEF PostsRow, Writes
  <1>4. ASSUME NEW a \in Actors, NEW i \in Ids, Approve(a, i)
        PROVE  Kept(x)
    <2>1. CASE i = x
      BY <1>0, <1>4, <2>1, ApproveStep DEF Kept, SameRow, StatusMoves
    <2>2. CASE i # x
      BY <1>0, <1>1, <1>4, <2>2, ApproveStep
    <2>3. QED
      BY <2>1, <2>2
  <1>5. ASSUME NEW a \in Actors, NEW i \in Ids, NEW k \in Keys, NEW date,
               NEW at \in Months, Reverse(a, i, k, date, at)
        PROVE  Kept(x)
    <2>1. PICK r \in Ids : ReversesRow(i, r, at)
      BY <1>0, <1>5, ReverseStep
    <2>2. QED
      BY <1>1, <1>2, <2>1 DEF ReversesRow, Writes
  <1>6. ASSUME NEW a \in Actors, NEW i \in Ids, NEW k \in Keys,
               NEW from \in Accounts, NEW to \in Accounts,
               Recategorize(a, i, k, from, to)
        PROVE  Kept(x)
    <2>1. PICK r, c \in Ids, m \in Months : CorrectsRow(i, r, c, m, a)
      BY <1>0, <1>6, RecategorizeStep
    <2>2. QED
      BY <1>1, <1>2, <2>1 DEF CorrectsRow, Writes
  <1>7. CASE UNCHANGED journal
    BY <1>1, <1>7
  <1>8. QED
    BY <1>3, <1>4, <1>5, <1>6, <1>7, QuietStep DEF Next

\* The journal is append-only.
THEOREM JournalIsAppendOnly == Spec => AppendOnly
  <1>1. IInv /\ [Next]_vars => [OnlyStatusMoves]_vars
    BY AppendStep
  <1>2. QED
    BY <1>1, Invariance, PTL DEF Spec, AppendOnly

\* One step brings an accountant's money into the books only by an approval.
LEMMA GateStep == IInv /\ [Next]_vars => GateHolds
  <1> SUFFICES ASSUME IInv, [Next]_vars, NEW x \in Ids PROVE Gated(x)
    BY DEF GateHolds
  <1>0. TypeOK /\ LegsTogether
    BY DEF IInv
  <1>1. journal'[x] = journal[x] => Gated(x)
    BY DEF Gated, InBooks
  <1>2. journal[x].status = "posted" => Gated(x)
    BY DEF Gated
  <1>3. ASSUME NEW a \in Actors, NEW k \in Keys, NEW m \in Months, NEW l \in Payloads,
               Post(a, k, m, l)
        PROVE  Gated(x)
    <2>1. PICK c \in Ids : PostsRow(c, m, a)
      BY <1>0, <1>3, PostStep
    <2>2. CASE x = c
      BY <2>1, <2>2 DEF PostsRow, Fresh, LandingStatus, Gated, InBooks
    <2>3. CASE x # c
      BY <1>1, <2>1, <2>3 DEF PostsRow, Writes
    <2>4. QED
      BY <2>2, <2>3
  <1>4. ASSUME NEW a \in Actors, NEW i \in Ids, Approve(a, i)
        PROVE  Gated(x)
    <2>1. CASE i = x
      BY <1>0, <1>4, <2>1, ApproveStep DEF Gated
    <2>2. CASE i # x
      BY <1>0, <1>1, <1>4, <2>2, ApproveStep
    <2>3. QED
      BY <2>1, <2>2
  <1>5. ASSUME NEW a \in Actors, NEW i \in Ids, NEW k \in Keys, NEW date,
               NEW at \in Months, Reverse(a, i, k, date, at)
        PROVE  Gated(x)
    <2>1. PICK r \in Ids : ReversesRow(i, r, at)
      BY <1>0, <1>5, ReverseStep
    <2>2. journal'[r].source = "reversal" /\ journal[r].status = "absent"
      BY <2>1 DEF ReversesRow, Reverses
    <2>3. CASE x = r
      BY <2>2, <2>3 DEF Gated
    <2>4. CASE x # r
      BY <1>1, <1>2, <2>1, <2>4 DEF ReversesRow, Writes
    <2>5. QED
      BY <2>3, <2>4
  <1>6. ASSUME NEW a \in Actors, NEW i \in Ids, NEW k \in Keys,
               NEW from \in Accounts, NEW to \in Accounts,
               Recategorize(a, i, k, from, to)
        PROVE  Gated(x)
    <2>1. PICK r, c \in Ids, m \in Months : CorrectsRow(i, r, c, m, a)
      BY <1>0, <1>6, RecategorizeStep
    <2>2. /\ journal'[r].source = "reversal" /\ journal[r].status = "absent"
          /\ journal'[c].source = "recategorize" /\ journal[c].status = "absent"
      BY <2>1 DEF CorrectsRow, Reverses, Fresh
    <2>3. CASE x \in {r, c}
      BY <2>2, <2>3 DEF Gated
    <2>4. CASE x \notin {r, c}
      BY <1>1, <1>2, <2>1, <2>4 DEF CorrectsRow, Writes
    <2>5. QED
      BY <2>3, <2>4
  <1>7. CASE UNCHANGED journal
    BY <1>1, <1>7
  <1>8. QED
    BY <1>3, <1>4, <1>5, <1>6, <1>7, QuietStep DEF Next

\* While the owner requires approval, an accountant's new money waits for a member.
THEOREM ApprovalIsRequired == Spec => ApprovalGate
  <1>1. IInv /\ [Next]_vars => [GateHolds]_vars
    BY GateStep
  <1>2. QED
    BY <1>1, Invariance, PTL DEF Spec, ApprovalGate

-----------------------------------------------------------------------------
(* The RPCs implement Books *)

\* The operators of Journal mean the same inside the instance.
LEMMA SameOperators ==
  /\ Abstract!Ids = Ids /\ Abstract!Months = Months /\ Abstract!Lines = Lines
  /\ \A l : Abstract!Mirror(l) = Mirror(l) /\ (Abstract!Balanced(l) <=> Balanced(l))
  /\ \A l, f, t : Abstract!Swap(l, f, t) = Swap(l, f, t)
  <1>1. Abstract!Ids = Ids /\ Abstract!Months = Months /\ Abstract!Lines = Lines
    BY DEF Abstract!Ids, Ids, Abstract!Months, Months, Abstract!Lines, Lines
  <1>2. ASSUME NEW l PROVE Abstract!Mirror(l) = Mirror(l)
    BY DEF Abstract!Mirror, Mirror
  <1>3. ASSUME NEW l PROVE Abstract!Balanced(l) <=> Balanced(l)
    BY Zenon DEF Abstract!Balanced, Balanced, Abstract!SumFunction, SumFunction,
                 Abstract!SumFunctionOnSet, SumFunctionOnSet,
                 Abstract!FoldFunctionOnSet, FoldFunctionOnSet,
                 Abstract!MapThenFoldSet, MapThenFoldSet
  <1>4. ASSUME NEW l, NEW f, NEW t PROVE Abstract!Swap(l, f, t) = Swap(l, f, t)
    BY DEF Abstract!Swap, Swap
  <1>5. QED
    BY <1>1, <1>2, <1>3, <1>4

\* What Books sees of a row.
BookRow(e) ==
  [state |-> BookState[e.status], month |-> e.month, lines |-> e.lines,
   reverses |-> e.reverses]

\* What Books sees of the journal is what it sees of each row.
LEMMA BookRowsAt ==
  ASSUME NEW j \in [Ids -> Entry]
  PROVE  /\ BookRows(j) \in [Ids -> Abstract!Row]
         /\ \A i \in Ids : BookRows(j)[i] = BookRow(j[i])
  <1>1. \A st \in EntryStatus : BookState[st] \in Abstract!RowState
    BY DEF BookState, EntryStatus, Abstract!RowState
  <1>2. \A i \in Ids : BookRow(j[i]) \in Abstract!Row
    BY <1>1, SameOperators DEF BookRow, Entry, Abstract!Row
  <1>3. BookRows(j) = [i \in Ids |-> BookRow(j[i])]
    BY DEF BookRows, BookRow
  <1>4. QED
    BY <1>2, <1>3

\* The empty journal is a state Books may start from.
LEMMA BooksInit == Init => Abstract!Init
  <1> SUFFICES ASSUME Init PROVE Abstract!Init
    OBVIOUS
  <1>1. journal \in [Ids -> Entry] /\ \A i \in Ids : journal[i].status = "absent"
    BY NoEntryType DEF Init, NoEntry
  <1>2. \A i \in Ids : BookRow(journal[i]).state = "absent"
    BY <1>1 DEF BookRow, BookState
  <1>3. \A i \in Ids : BookRows(journal)[i].state = "absent"
    BY <1>1, <1>2, BookRowsAt
  <1>4. Abstract!Paired
    BY <1>3, SameOperators DEF Abstract!Paired, Abstract!Used
  <1>5. QED
    BY <1>1, <1>4, BookRowsAt, SameOperators DEF Abstract!Init

\* What Books sees of the rows a step writes.
LEMMA BookRowFields ==
  /\ \A e \in Entry :
       /\ BookRow(e).month = e.month /\ BookRow(e).lines = e.lines
       /\ BookRow(e).reverses = e.reverses
       /\ e.status = "absent" => BookRow(e).state = "absent"
       /\ e.status = "pending_review" => BookRow(e).state = "held"
       /\ e.status = "posted" => BookRow(e).state = "live"
       /\ e.status = "reversed" => BookRow(e).state = "cancelled"
  /\ \A e \in Entry : \A st, m, l, i :
       (BookRow(e).state = st /\ e.month = m /\ e.lines = l /\ e.reverses = i)
         => BookRow(e) = Abstract!NewRow(st, m, l, i)
  BY DEF BookRow, BookState, Entry, EntryStatus, Abstract!NewRow

\* A post is an entry of Books.
LEMMA PostIsEnter ==
  ASSUME TypeOK, NEW c \in Ids, NEW m \in Months, NEW a \in Actors, PostsRow(c, m, a)
  PROVE  Abstract!Next
  <1> DEFINE R == BookRows(journal)
             Q == BookRows(journal')
  <1>1. /\ journal \in [Ids -> Entry] /\ journal' \in [Ids -> Entry]
        /\ journal[c] \in Entry /\ journal'[c] \in Entry /\ journal[c].status = "absent"
        /\ journal'[c].status \in {"pending_review", "posted"} /\ journal'[c].month = m
        /\ journal'[c].reverses = None /\ Balanced(journal'[c].lines)
        /\ journal'[c].lines \in Lines
        /\ \A x \in Ids \ {c} : journal'[x] = journal[x]
        /\ period[m] # "closed" /\ period \in [Months -> PeriodStatus]
        /\ period' = [period EXCEPT ![m] = "open"]
    BY DEF PostsRow, Writes, Fresh, TypeOK, Entry
  <1>2. /\ R \in [Ids -> Abstract!Row] /\ Q \in [Ids -> Abstract!Row]
        /\ \A x \in Ids : R[x] = BookRow(journal[x]) /\ Q[x] = BookRow(journal'[x])
    BY <1>1, BookRowsAt
  <1>3. /\ R[c].state = "absent" /\ Q[c].state \in {"held", "live"} /\ Q[c].month = m
        /\ Q[c].lines = journal'[c].lines
        /\ Q[c] = Abstract!NewRow(Q[c].state, Q[c].month, Q[c].lines, None)
    BY <1>1, <1>2, BookRowFields
  <1>4. Q = [R EXCEPT ![c] = Abstract!NewRow(Q[c].state, Q[c].month, Q[c].lines, None)]
    BY <1>1, <1>2, <1>3
  <1>5. {q \in Months : period'[q] = "closed"} = {q \in Months : period[q] = "closed"}
    BY <1>1
  <1>6. Abstract!Enter(c) /\ c \in Abstract!Changed
    BY <1>1, <1>3, <1>4, <1>5, SameOperators
       DEF Abstract!Enter, Abstract!Changed, Abstract!Free, Abstract!Used, Abstract!Takes
  <1>7. QED
    BY <1>6 DEF Abstract!Next

\* An approval is a confirmation of Books.
LEMMA ApproveIsConfirm ==
  ASSUME TypeOK, NEW a \in Actors, NEW i \in Ids, Approve(a, i)
  PROVE  Abstract!Next
  <1> DEFINE R == BookRows(journal)
             Q == BookRows(journal')
  <1>1. /\ journal \in [Ids -> Entry] /\ journal' \in [Ids -> Entry]
        /\ journal[i] \in Entry /\ journal'[i] \in Entry
        /\ journal[i].status = "pending_review" /\ journal'[i].status = "posted"
        /\ journal'[i].month = journal[i].month /\ journal'[i].lines = journal[i].lines
        /\ journal'[i].reverses = journal[i].reverses /\ journal[i].month \in Months
        /\ \A x \in Ids \ {i} : journal'[x] = journal[x]
        /\ period[journal[i].month] # "closed" /\ UNCHANGED period
    BY ApproveStep DEF TypeOK, Entry
  <1>2. /\ R \in [Ids -> Abstract!Row] /\ Q \in [Ids -> Abstract!Row]
        /\ \A x \in Ids : R[x] = BookRow(journal[x]) /\ Q[x] = BookRow(journal'[x])
    BY <1>1, BookRowsAt
  <1>3. /\ R[i].state = "held" /\ Q[i].state = "live" /\ R[i].month = journal[i].month
        /\ Q[i] = [R[i] EXCEPT !.state = "live"]
    BY SMTT(30), <1>1, <1>2, BookRowFields DEF BookRow
  <1>4. Q = [R EXCEPT ![i] = [R[i] EXCEPT !.state = "live"]]
    BY <1>1, <1>2, <1>3
  <1>5. Q = [R EXCEPT ![i].state = "live"]
    BY <1>4
  <1>6. Abstract!Confirm(i) /\ i \in Abstract!Changed
    BY <1>1, <1>3, <1>5, SameOperators DEF Abstract!Confirm, Abstract!Changed, Abstract!Takes
  <1>7. QED
    BY <1>6 DEF Abstract!Next

\* What Books sees of a reversal.
LEMMA CancelledRows ==
  ASSUME NEW j \in [Ids -> Entry], NEW n \in [Ids -> Entry], NEW i \in Ids, NEW r \in Ids,
         NEW m \in Months, j[i].status = "posted", j[r].status = "absent",
         Reverses(n[r], j, i, m), Marked(n[i], j[i])
  PROVE  /\ BookRows(j)[i].state = "live" /\ BookRows(j)[r].state = "absent"
         /\ BookRows(n)[r] # BookRows(j)[r] /\ BookRows(n)[i] # BookRows(j)[i]
         /\ BookRows(n)[r] = Abstract!NewRow("live", m, Abstract!Mirror(BookRows(j)[i].lines), i)
         /\ BookRows(n)[i] = [BookRows(j)[i] EXCEPT !.state = "cancelled"]
  <1>1. /\ BookRows(j)[i] = BookRow(j[i]) /\ BookRows(j)[r] = BookRow(j[r])
        /\ BookRows(n)[i] = BookRow(n[i]) /\ BookRows(n)[r] = BookRow(n[r])
        /\ j[i] \in Entry /\ j[r] \in Entry /\ n[i] \in Entry /\ n[r] \in Entry
    BY BookRowsAt
  <1>2. /\ n[r].status = "posted" /\ n[r].month = m /\ n[r].reverses = i
        /\ n[r].lines = Mirror(j[i].lines)
        /\ n[i].status = "reversed" /\ n[i].month = j[i].month
        /\ n[i].lines = j[i].lines /\ n[i].reverses = j[i].reverses
    BY DEF Reverses, Marked
  <1>3. /\ BookRow(j[i]).state = "live" /\ BookRow(j[r]).state = "absent"
        /\ BookRow(n[r]).state = "live" /\ BookRow(n[i]).state = "cancelled"
    BY <1>1, <1>2, BookRowFields
  <1>4. BookRow(n[i]) = [BookRow(j[i]) EXCEPT !.state = "cancelled"]
    BY <1>2, <1>3 DEF BookRow
  <1>5. BookRow(n[r]) = Abstract!NewRow("live", m, Abstract!Mirror(BookRow(j[i]).lines), i)
    BY <1>1, <1>2, <1>3, SameOperators DEF BookRow, Abstract!NewRow
  <1>6. QED
    BY ZenonT(40), <1>1, <1>3, <1>4, <1>5

\* A reversal is a cancellation of Books.
LEMMA ReverseIsCancel ==
  ASSUME TypeOK, NEW i \in Ids, NEW r \in Ids, NEW m \in Months, ReversesRow(i, r, m)
  PROVE  Abstract!Next
  <1> DEFINE R == BookRows(journal)
             Q == BookRows(journal')
             e == Abstract!NewRow("live", m, Abstract!Mirror(R[i].lines), i)
             d == [R[i] EXCEPT !.state = "cancelled"]
  <1>1. /\ journal \in [Ids -> Entry] /\ journal' \in [Ids -> Entry]
        /\ journal[i].status = "posted" /\ journal[r].status = "absent"
        /\ Reverses(journal'[r], journal, i, m) /\ Marked(journal'[i], journal[i])
        /\ \A x \in Ids \ {i, r} : journal'[x] = journal[x]
        /\ period[m] # "closed" /\ period \in [Months -> PeriodStatus]
        /\ period' = [period EXCEPT ![m] = "open"]
    BY DEF ReversesRow, Writes, TypeOK
  <1>2. /\ R \in [Ids -> Abstract!Row] /\ Q \in [Ids -> Abstract!Row]
        /\ \A x \in Ids \ {i, r} : Q[x] = R[x]
    BY <1>1, BookRowsAt
  <1>3. /\ R[i].state = "live" /\ R[r].state = "absent"
        /\ Q[r] # R[r] /\ Q[i] # R[i] /\ Q[r] = e /\ Q[i] = d
    BY <1>1, CancelledRows
  <1>4. i # r
    BY <1>3
  <1>5. Q = [[R EXCEPT ![r] = e] EXCEPT ![i] = d]
    BY <1>2, <1>3, <1>4
  <1>6. Q = Abstract!Cancelled(i, r, m)
    BY <1>4, <1>5 DEF Abstract!Cancelled
  <1>7. {q \in Months : period'[q] = "closed"} = {q \in Months : period[q] = "closed"}
    BY <1>1
  <1>8. Abstract!Cancel(i, r, m) /\ i \in Abstract!Changed /\ r \in Abstract!Changed
    BY <1>1, <1>3, <1>6, <1>7, SameOperators
       DEF Abstract!Cancel, Abstract!Changed, Abstract!Free, Abstract!Used, Abstract!Takes
  <1>9. QED
    BY <1>8, SameOperators DEF Abstract!Next

\* A recategorisation is a correction of Books.
LEMMA RecategorizeIsCorrect ==
  ASSUME TypeOK, NEW a \in Actors, NEW i \in Ids, NEW r \in Ids, NEW c \in Ids,
         NEW m \in Months, NEW f \in Accounts, NEW t \in Accounts,
         CorrectsRow(i, r, c, m, a), journal'[c].lines = Swap(journal[i].lines, f, t)
  PROVE  Abstract!Next
  <1> DEFINE R == BookRows(journal)
             Q == BookRows(journal')
             e == Abstract!NewRow("live", m, Abstract!Mirror(R[i].lines), i)
             d == [R[i] EXCEPT !.state = "cancelled"]
             n == Abstract!NewRow("live", m, Abstract!Swap(R[i].lines, f, t), None)
  <1>1. /\ journal \in [Ids -> Entry] /\ journal' \in [Ids -> Entry] /\ r # c
        /\ journal[i].status = "posted" /\ journal[r].status = "absent"
        /\ journal[c].status = "absent"
        /\ Reverses(journal'[r], journal, i, m) /\ Marked(journal'[i], journal[i])
        /\ journal'[c].status = "posted" /\ journal'[c].month = m
        /\ journal'[c].reverses = None
        /\ \A x \in Ids \ {i, r, c} : journal'[x] = journal[x]
        /\ period[m] # "closed" /\ period \in [Months -> PeriodStatus]
        /\ period' = [period EXCEPT ![m] = "open"]
    BY DEF CorrectsRow, Writes, Fresh, TypeOK
  <1>2. /\ R \in [Ids -> Abstract!Row] /\ Q \in [Ids -> Abstract!Row]
        /\ \A x \in Ids : R[x] = BookRow(journal[x]) /\ Q[x] = BookRow(journal'[x])
        /\ \A x \in Ids \ {i, r, c} : Q[x] = R[x]
    BY <1>1, BookRowsAt
  <1>3. /\ R[i].state = "live" /\ R[r].state = "absent"
        /\ Q[r] # R[r] /\ Q[i] # R[i] /\ Q[r] = e /\ Q[i] = d
    BY <1>1, CancelledRows
  <1>4. R[i].lines = journal[i].lines
    BY <1>1, <1>2, BookRowFields
  <1>5. R[c].state = "absent" /\ Q[c].state = "live" /\ Q[c] = n
    <2>1. journal[c] \in Entry /\ journal'[c] \in Entry
      BY <1>1
    <2>2. R[c].state = "absent" /\ Q[c].state = "live"
      BY <1>1, <1>2, <2>1, BookRowFields
    <2>3. Q[c] = n
      BY <1>1, <1>2, <1>4, <2>2, SameOperators DEF BookRow, Abstract!NewRow
    <2>4. QED
      BY <2>2, <2>3
  <1>6. i # r /\ i # c
    BY <1>1
  <1> HIDE DEF e, d, n, R, Q
  <1>7. Q = [[[R EXCEPT ![r] = e] EXCEPT ![i] = d] EXCEPT ![c] = n]
    BY <1>1, <1>2, <1>3, <1>5, <1>6
  <1>8. Q = [Abstract!Cancelled(i, r, m) EXCEPT ![c] = n]
    <2>1. [[R EXCEPT ![r] = e] EXCEPT ![i] = d] = Abstract!Cancelled(i, r, m)
      BY <1>6 DEF Abstract!Cancelled, R, e, d
    <2>2. QED
      BY <1>7, <2>1
  <1>9. {q \in Months : period'[q] = "closed"} = {q \in Months : period[q] = "closed"}
    BY <1>1
  <1>10. /\ Abstract!Correct(i, r, c, m, f, t)
         /\ i \in Abstract!Changed /\ r \in Abstract!Changed /\ c \in Abstract!Changed
    BY <1>1, <1>3, <1>5, <1>8, <1>9, SameOperators
       DEF Abstract!Correct, Abstract!Changed, Abstract!Free, Abstract!Used,
           Abstract!Takes, n, R, Q
  <1>11. f \in Accounts /\ t \in Accounts /\ m \in Abstract!Months
    BY SameOperators
  <1>12. QED
    BY <1>10, <1>11, SameOperators DEF Abstract!Next, Abstract!Changed

\* Every step of the RPCs is a step of Books or leaves it alone.
LEMMA BooksStep == IInv /\ [Next]_vars => [Abstract!Next]_(Abstract!vars)
  <1> SUFFICES ASSUME IInv, [Next]_vars PROVE Abstract!Next \/ UNCHANGED Abstract!vars
    OBVIOUS
  <1>0. TypeOK /\ LegsTogether /\ period \in [Months -> PeriodStatus]
    BY DEF IInv, TypeOK
  <1>1. ASSUME NEW a \in Actors, NEW k \in Keys, NEW m \in Months, NEW l \in Payloads,
               Post(a, k, m, l)
        PROVE  Abstract!Next
    BY <1>0, <1>1, PostStep, PostIsEnter
  <1>2. ASSUME NEW a \in Actors, NEW i \in Ids, Approve(a, i)
        PROVE  Abstract!Next
    BY <1>0, <1>2, ApproveIsConfirm
  <1>3. ASSUME NEW a \in Actors, NEW i \in Ids, NEW k \in Keys, NEW date,
               NEW at \in Months, Reverse(a, i, k, date, at)
        PROVE  Abstract!Next
    BY <1>0, <1>3, ReverseStep, ReverseIsCancel
  <1>4. ASSUME NEW a \in Actors, NEW i \in Ids, NEW k \in Keys,
               NEW from \in Accounts, NEW to \in Accounts,
               Recategorize(a, i, k, from, to)
        PROVE  Abstract!Next
    BY <1>0, <1>4, RecategorizeStep, RecategorizeIsCorrect
  <1>5. ASSUME NEW a \in Actors, NEW m \in Months, Close(a, m)
        PROVE  Abstract!Next
    <2>1. {q \in Months : period'[q] = "closed"}
            = {q \in Months : period[q] = "closed"} \cup {m}
      BY <1>0, <1>5 DEF Close
    <2>2. UNCHANGED BookRows(journal)
      BY <1>5 DEF Close
    <2>3. QED
      BY <2>1, <2>2, SameOperators DEF Abstract!Next, Abstract!CloseMonth
  <1>6. ASSUME NEW a \in Actors, NEW m \in Months, Reopen(a, m)
        PROVE  Abstract!Next
    <2>1. {q \in Months : period'[q] = "closed"}
            = {q \in Months : period[q] = "closed"} \ {m}
      BY <1>0, <1>6 DEF Reopen
    <2>2. UNCHANGED BookRows(journal)
      BY <1>6 DEF Reopen
    <2>3. QED
      BY <2>1, <2>2, SameOperators DEF Abstract!Next, Abstract!OpenMonth
  <1>7. ASSUME UNCHANGED <<journal, period>>
        PROVE  UNCHANGED Abstract!vars
    BY <1>7 DEF Abstract!vars, BookRows
  <1>8. ASSUME \/ \E a \in Actors : SetApprovalPolicy(a)
               \/ NextMonth
               \/ UNCHANGED vars
        PROVE  UNCHANGED <<journal, period>>
    BY <1>8 DEF SetApprovalPolicy, NextMonth, vars
  <1>9. QED
    BY <1>1, <1>2, <1>3, <1>4, <1>5, <1>6, <1>7, <1>8 DEF Next

\* The ledger's RPCs implement Books.
THEOREM LedgerImplementsBooks == Spec => ImplementsBooks
  <1>1. QED
    BY Invariance, BooksInit, BooksStep, PTL DEF Spec, ImplementsBooks, Abstract!Spec
=============================================================================
