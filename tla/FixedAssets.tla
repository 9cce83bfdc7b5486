---------------------------- MODULE FixedAssets ----------------------------
(***************************************************************************)
(* A capitalised asset: its book and tax schedules, computed from the law  *)
(* in force and stored year by year, the book depreciation posted from     *)
(* them, the disposal, and the preview of the schedule in the browser.     *)
(* Years count from the one the asset was placed in service.               *)
(***************************************************************************)
EXTENDS Integers, FiniteSets, FiniteSetsExt, Functions

CONSTANTS Assets,    \* what may be registered; life2 is the book life in half years
          Laws,      \* the versions of the asset class, one superseding the other
          Horizon,   \* last year looked at
          Proceeds,
          Whole,     \* what a percentage is of: 10000, as they have two decimals
          Short      \* the amounts and percentages whose product, as doubles, is short
                     \* of the whole number of cents that it comes to

\* What the constants have to be: the modules that use this one assume it.
FixedAssetsAssumption ==
  /\ \A a \in Assets :
       /\ a.cost \in Nat \ {0} /\ a.salvage \in Nat /\ a.life2 \in Nat \ {0}
       /\ a.elected179 \in Nat /\ a.bonus \in BOOLEAN
       /\ (a.life2 + 1) \div 2 + 2 <= Horizon
  /\ \A i \in DOMAIN Laws :
       /\ Laws[i].period \in Nat /\ Laws[i].period + 2 <= Horizon
       /\ Laws[i].cap \in Nat /\ Laws[i].bonus \in 0..Whole
       /\ DOMAIN Laws[i].percent \subseteq 1..(Laws[i].period + 1)
       /\ \A y \in DOMAIN Laws[i].percent : Laws[i].percent[y] \in 0..Whole
  /\ 1 \in DOMAIN Laws /\ DOMAIN Laws \subseteq Nat \ {0}
  /\ Horizon \in Nat /\ Proceeds \subseteq Nat /\ Whole \in Nat \ {0}
  /\ \A s \in Short : /\ s \in Nat \X Nat /\ s[1] * s[2] > 0
                      /\ (s[1] * s[2]) % Whole = 0

VARIABLES asset, law,
          lines,     \* depreciation_schedule_lines
          posted,    \* what the entry of a year credits accumulated depreciation
          disposal

fixedAssetsVars == <<asset, law, lines, posted, disposal>>

Years      == 1..Horizon
Line       == [book : Int, tax : Nat, bookAcc : Int, taxAcc : Nat, stored : BOOLEAN]
NoLine     == [book |-> 0, tax |-> 0, bookAcc |-> 0, taxAcc |-> 0, stored |-> FALSE]
NoLines    == [y \in Years |-> NoLine]
NoDisposal == [year |-> 0, cleared |-> 0, gain |-> 0, recapture |-> 0]
BookBase(a) == a.cost - a.salvage

FixedAssetsTypeOK ==
  /\ asset \in Assets /\ law \in DOMAIN Laws
  /\ lines \in [Years -> Line] /\ posted \in [Years -> Nat]
  /\ disposal \in [year : 0..Horizon, cleared : Nat, gain : Int, recapture : Nat]

FixedAssetsInit ==
  /\ asset \in Assets /\ law = 1
  /\ lines = NoLines /\ posted = [y \in Years |-> 0]
  /\ disposal = NoDisposal

-----------------------------------------------------------------------------
(* One year *)

Least(m, n) == IF m < n THEN m ELSE n

\* A percentage of m, rounded down.  Decimals are exact in the database, which is
\* short of nothing; the browser multiplies doubles.
Portion(m, p, short) == (m * p) \div Whole - (IF <<m, p>> \in short THEN 1 ELSE 0)

\* Expensing, then the bonus on what remains, then the table on what remains.
Expensed(a, class) == Least(a.elected179, Least(class.cap, a.cost))

Bonus(a, class, short) ==
  IF a.bonus THEN Portion(a.cost - Expensed(a, class), class.bonus, short) ELSE 0

Remaining(a, class, short) == a.cost - Expensed(a, class) - Bonus(a, class, short)

\* A year the table does not have takes nothing.
taxDepreciationForYear(a, class, y, short) ==
  (IF y = 1 THEN Expensed(a, class) + Bonus(a, class, short) ELSE 0)
  + (IF y \in DOMAIN class.percent THEN Portion(Remaining(a, class, short), class.percent[y], short)
     ELSE 0)

\* But the database refuses a table that ends before the recovery period does, if
\* anything is left for it.
NoTable(a, class) ==
  Remaining(a, class, {}) > 0 /\ ~(1..(class.period + 1) \subseteq DOMAIN class.percent)

\* The year of the deferred half: the browser rounds a fractional life down,
\* the database finds no such year.
tailYear(a)   == a.life2 \div 2 + 1
storedTail(a) == IF a.life2 % 2 = 0 THEN a.life2 \div 2 + 1 ELSE 0

bookDepreciationForYear(a, y, tail) ==
  IF BookBase(a) <= 0 THEN 0
  ELSE IF a.convention = "half_year" /\ y = 1 THEN BookBase(a) \div a.life2
  ELSE IF 2 * y <= a.life2 THEN (2 * BookBase(a)) \div a.life2
  ELSE IF a.convention = "half_year" /\ y = tail THEN (BookBase(a) + a.life2 - 1) \div a.life2
  ELSE 0

-----------------------------------------------------------------------------
(* The schedule *)

Larger(m, n)  == IF m > n THEN m ELSE n
Span(a, class) == Larger((a.life2 + 1) \div 2, class.period)

Clamped(amount, taken, basis) ==
  IF taken + amount > basis THEN Larger(basis - taken, 0) ELSE amount

Nothing == [bookAcc |-> 0, taxAcc |-> 0, last |-> 0, rows |-> NoLines]

\* Year y after those before it: what is left to take, and a line if it is the
\* first year or takes anything.
AfterYear(a, class, tail, short, y, before) ==
  LET book == Clamped(bookDepreciationForYear(a, y, tail), before.bookAcc, BookBase(a))
      tax  == Clamped(taxDepreciationForYear(a, class, y, short), before.taxAcc, a.cost)
      line == [book |-> book, tax |-> tax, bookAcc |-> before.bookAcc + book,
               taxAcc |-> before.taxAcc + tax, stored |-> TRUE]
  IN  IF book = 0 /\ tax = 0 /\ y > 1 THEN before
      ELSE [bookAcc |-> line.bookAcc, taxAcc |-> line.taxAcc, last |-> y,
            rows |-> [before.rows EXCEPT ![y] = line]]

Recovered(a, class, years, tail, short) ==
  LET upTo[y \in 0..years] ==
        IF y = 0 THEN Nothing ELSE AfterYear(a, class, tail, short, y, upTo[y - 1])
  IN  upTo[years]

\* Wrong: the cents that rounding down strands stay stranded.
NoTrueUp(a, run) == run.rows

\* The last line takes what is left.
TrueUp(a, run) ==
  [run.rows EXCEPT ![run.last] =
     [book |-> @.book + BookBase(a) - run.bookAcc, tax |-> @.tax + a.cost - run.taxAcc,
      bookAcc |-> BookBase(a), taxAcc |-> a.cost, stored |-> TRUE]]

computeSchedule(a, class) ==
  TrueUp(a, Recovered(a, class, Span(a, class) + 1, tailYear(a), Short))

StoredSchedule(a, class) ==
  TrueUp(a, Recovered(a, class, Span(a, class) + 2, storedTail(a), {}))

\* An upsert: a line of an earlier run that this one does not record stays.
Upserted(class) ==
  LET new == StoredSchedule(asset, class)
  IN  [y \in Years |-> IF new[y].stored THEN new[y] ELSE lines[y]]

-----------------------------------------------------------------------------
(* The operations *)

SupersedeClass ==
  /\ law + 1 \in DOMAIN Laws /\ law' = law + 1
  /\ UNCHANGED <<asset, lines, posted, disposal>>

\* The caller may ask for the law as of an earlier day.
ComputeSchedule(asOf) ==
  /\ asOf <= law /\ ~NoTable(asset, Laws[asOf])
  /\ lines' = Upserted(Laws[asOf])
  /\ UNCHANGED <<asset, law, posted, disposal>>

LinesDepreciation(y) == lines[y].book

\* A posted year keeps its entry; a disposed asset is not refused.
PostBook(y) ==
  /\ lines[y].stored /\ lines[y].book > 0 /\ posted[y] = 0
  /\ posted' = [posted EXCEPT ![y] = LinesDepreciation(y)]
  /\ UNCHANGED <<asset, law, lines, disposal>>

disposalYearEighths(convention, quarter) ==
  IF convention = "mid_quarter" THEN 2 * quarter - 1 ELSE 4

\* The line of the last year before y, of whichever run.
PriorLine(ls, y) ==
  LET before == {x \in Years : x < y /\ ls[x].stored}
  IN  IF before = {} THEN NoLine ELSE ls[Max(before)]

\* The schedule is stored anew; the year's part is taken from the year's own
\* depreciation.  An entry with a negative accumulation does not balance.
Dispose(y, quarter, proceeds, asOf) ==
  LET class  == Laws[asOf]
      ls     == Upserted(class)
      part(n) == (n * disposalYearEighths(class.convention, quarter)) \div 8
      book   == Least(PriorLine(ls, y).bookAcc
                      + part(bookDepreciationForYear(asset, y, storedTail(asset))), BookBase(asset))
      tax    == Least(PriorLine(ls, y).taxAcc + part(taxDepreciationForYear(asset, class, y, {})), asset.cost)
      taxGain == proceeds - (asset.cost - tax)
  IN  /\ disposal = NoDisposal /\ asOf <= law /\ ~NoTable(asset, class) /\ book >= 0
      /\ lines' = ls
      /\ disposal' = [year |-> y, cleared |-> book, gain |-> proceeds - (asset.cost - book),
                      recapture |-> IF taxGain > 0 THEN Least(taxGain, tax) ELSE 0]
      /\ UNCHANGED <<asset, law, posted>>

FixedAssetsNext ==
  \/ SupersedeClass
  \/ \E i \in DOMAIN Laws : ComputeSchedule(i)
  \/ \E y \in Years : PostBook(y)
  \/ \E y \in Years, q \in {1, 4}, p \in Proceeds, i \in DOMAIN Laws : Dispose(y, q, p, i)

FixedAssetsSpec == FixedAssetsInit /\ [][FixedAssetsNext]_fixedAssetsVars

-----------------------------------------------------------------------------
(* Properties *)

BookTaken == SumFunction([y \in Years |-> lines[y].book])
TaxTaken  == SumFunction([y \in Years |-> lines[y].tax])
Computed  == \E y \in Years : lines[y].stored

\* The crown-jewel invariant of the migration: over its years an asset takes
\* exactly its cost for tax and its cost less salvage in the books.  Known to
\* fail: the lines of a superseded class stay.
RecoversExactly ==
  Computed => BookTaken = BookBase(asset) /\ TaxTaken = asset.cost

\* It holds while the class the asset is computed under is not superseded, and
\* no year of an asset worth more than its salvage takes a negative amount.
RecoversUnderOneLaw ==
  law = 1 => /\ RecoversExactly
             /\ BookBase(asset) >= 0 => \A y \in Years : lines[y].book >= 0 /\ lines[y].tax >= 0

\* The books hold the depreciation the register shows as posted, however often
\* the schedule has been computed in between.
PostedIsScheduled ==
  law = 1 => \A y \in Years : posted[y] > 0 => posted[y] = lines[y].book

\* The browser previews what the database stores, when the life is whole ("the same
\* algorithm for UI preview").  Known to fail: a product of doubles may be a cent
\* short, and the last year makes up for it.
PreviewMirrors ==
  law = 1 /\ asset.life2 % 2 = 0 /\ Computed => computeSchedule(asset, Laws[1]) = lines

\* The preview is a schedule, too: it recovers exactly the cost and takes nothing
\* back in any year, however the browser has rounded.
PreviewRecovers(preview) ==
  /\ SumFunction([y \in Years |-> preview[y].book]) = BookBase(asset)
  /\ SumFunction([y \in Years |-> preview[y].tax]) = asset.cost
  /\ BookBase(asset) >= 0 => \A y \in Years : preview[y].book >= 0 /\ preview[y].tax >= 0

IsLast(ls, y) == \A x \in Years : x > y => ~ls[x].stored

\* Until the last line, where either makes up for its rounding, it has taken for the
\* books what the database has and for tax what the database has but for a cent a year.
PreviewKeepsPace(preview) ==
  \A y \in Years :
    preview[y].stored /\ lines[y].stored /\ ~IsLast(preview, y) /\ ~IsLast(lines, y) =>
      /\ preview[y].bookAcc = lines[y].bookAcc
      /\ preview[y].taxAcc - lines[y].taxAcc \in (-y)..y

PreviewStaysClose ==
  law = 1 /\ asset.life2 % 2 = 0 /\ Computed =>
    LET preview == computeSchedule(asset, Laws[1])
    IN  PreviewRecovers(preview) /\ PreviewKeepsPace(preview)

\* The law, the register, the books and the browser agree on a schedule.
SchedulesAgree == RecoversUnderOneLaw /\ PostedIsScheduled /\ PreviewStaysClose

\* dispose_fixed_asset says its entry clears the contra account through the
\* disposal.  Known to fail even when the earlier years are posted: of the year of
\* the disposal a part is cleared, and the whole or nothing was posted.
DisposalClearsContra ==
  (disposal.year > 0 /\ law = 1
     /\ \A y \in Years : y < disposal.year /\ lines[y].book > 0 => posted[y] > 0) =>
  SumFunctionOnSet(posted, 1..disposal.year) = disposal.cleared
=============================================================================
