--------------------------- MODULE SessionsProofs ---------------------------
(***************************************************************************)
(* The row locks of the write path do what they are there for, for any     *)
(* number of sessions, requests, entries and months: an entry is undone    *)
(* once, and the month a session has checked is open when it writes.  The  *)
(* inductive invariant says what each lock is worth: an entry held FOR     *)
(* UPDATE keeps the status it was read with, a row inserted and not yet    *)
(* committed is nobody else's and in nobody's journal, a period held FOR   *)
(* SHARE has nobody who writes it.  Together with what a session has made  *)
(* sure of about its month, it makes every commit a step of Books.         *)
(***************************************************************************)
EXTENDS LedgerSessions, JournalProofs

Corrections == {"approve", "reverse", "recategorize"}   \* they work on an entry they lock
Live(s)     == sess[s].at \notin {"idle", "done"}
Empty(s)    == /\ sess[s].share = {} /\ sess[s].excl = {} /\ sess[s].made = {}

Types ==
  journal \in [Ids -> Entry] /\ period \in [Months -> PeriodStatus] /\ sess \in [Sessions -> Session]

\* The operations a session at a label may be serving.
OpsAt(label) ==
  CASE label = "lookup" -> {"post", "reverse", "recategorize"}
    [] label = "lock"   -> Corrections
    [] label = "probe"  -> {"reverse", "recategorize"}
    [] label = "period" -> Corrections \cup {"post"}
    [] label \in {"create", "insert"} -> {"post", "reverse", "recategorize"}
    [] label = "repost" -> {"recategorize"}
    [] label = "flip"   -> {"close", "reopen"}
    [] OTHER            -> Ops

Serving(s) == Live(s) =>
  /\ Req(s) \in Calls /\ Req(s).op \in OpsAt(sess[s].at)
  /\ sess[s].at \notin {"lookup", "lock"} \/ Req(s).op = "post" => Mon(s) \in Months

\* The entry a session holds is its request's, in the state it was read in.
Status(op) == IF op = "approve" THEN "pending_review" ELSE "posted"
Holding(s) ==
  IF Live(s) /\ Req(s).op \in Corrections /\ sess[s].at \notin {"lookup", "lock"}
  THEN sess[s].entry = Req(s).target /\ journal[Req(s).target].status = Status(Req(s).op)
  ELSE sess[s].entry = None

\* The rows it has inserted, none of them committed by anybody.
Inserts(op) ==
  CASE op \in {"post", "reverse"} -> {""} [] op = "recategorize" -> {":rev", ":new"} [] OTHER -> {}
Inserting(s) ==
  /\ sess[s].at \notin {"repost", "commit"} => sess[s].ins = {}
  /\ sess[s].at = "repost" => \/ sess[s].ins = {} /\ Taken(RevRow(s))
                              \/ sess[s].ins = {RevRow(s)}
  /\ sess[s].at = "commit" => sess[s].ins = {Req(s).key} \X Inserts(Req(s).op)
  /\ \A i \in sess[s].ins : ~Taken(i)

\* The periods it has locked.
Locking(s) ==
  /\ sess[s].at \notin {"insert", "repost", "commit"} => Empty(s)
  /\ sess[s].share \subseteq {Mon(s)}
  /\ sess[s].share # {} => period[Mon(s)] = "open"
  /\ sess[s].at = "commit" /\ Req(s).op \in {"close", "reopen"} =>
       sess[s].share = {} /\ Mon(s) \in sess[s].excl

Local(s) == Serving(s) /\ Holding(s) /\ Inserting(s) /\ Locking(s)

\* Locks exclude one another.
Exclusive == \A s, q \in Sessions : s # q =>
  /\ sess[s].entry # None => sess[s].entry # sess[q].entry
  /\ sess[s].ins \cap sess[q].ins = {}
  /\ sess[s].share \cap sess[q].excl = {}

Inv == /\ Types /\ (\A s \in Sessions : Local(s)) /\ Exclusive
       /\ PairedReversals(journal) /\ LegsTogether(journal)

LEMMA IdsAre == ASSUME NEW k \in Keys, NEW leg \in {"", ":rev", ":new"} PROVE <<k, leg>> \in Ids
  BY DEF Ids

LEMMA CallTypes ==
  ASSUME NEW c \in Calls
  PROVE  /\ c.op \in Ops /\ c.by \in Actors /\ c.key \in Keys /\ c.lines \in Lines
         /\ c.from \in Accounts /\ c.to \in Accounts /\ c.month \in Months \cup {None}
         /\ c.target \in Ids \cup {None}
         /\ c.op \in Corrections => c.target \in Ids
         /\ c.op \notin Corrections => c.month \in Months
  BY SessionsAssumption DEF Call, Ops, Corrections

LEMMA InitInv == Init => Inv
<1> SUFFICES ASSUME Init PROVE Inv
  OBVIOUS
<1>1. Idle \in Session /\ Idle.at = "idle"
  BY DEF Idle, Session, Labels
<1>2. Types /\ PairedReversals(journal) /\ LegsTogether(journal)
  BY <1>1, SessionsAssumption DEF Init, Types
<1>3. \A s \in Sessions : sess[s] = Idle
  BY DEF Init
<1>4. \A s \in Sessions : Local(s)
  BY <1>3 DEF Local, Serving, Live, Holding, Inserting, Locking, Empty, Idle
<1>5. Exclusive
  BY <1>3 DEF Exclusive, Idle
<1> QED
  BY <1>2, <1>4, <1>5 DEF Inv

\* A statement of session s that writes nothing yet.
LEMMA SessionStep ==
  ASSUME Inv, NEW s \in Sessions, NEW new \in Session,
         sess' = [sess EXCEPT ![s] = new], journal' = journal, period' = period,
         Local(s)',
         new.entry # None => new.entry = sess[s].entry \/ EntryFree(s, new.entry),
         \A i \in new.ins \ sess[s].ins : KeyFree(s, i),
         \A m \in new.share \ sess[s].share : ShareFree(s, m),
         \A m \in new.excl \ sess[s].excl : ExclFree(s, m)
  PROVE  Inv'
<1>1. sess \in [Sessions -> Session]
  BY DEF Inv, Types
<1>2. sess'[s] = new /\ \A q \in Sessions \ {s} : sess'[q] = sess[q]
  BY <1>1
<1>3. Types' /\ PairedReversals(journal)' /\ LegsTogether(journal)'
  BY <1>1 DEF Inv, Types
<1>4. ASSUME NEW q \in Sessions \ {s} PROVE Local(q)'
  <2>1. Local(q) /\ sess'[q] = sess[q]
    BY <1>2 DEF Inv
  <2> QED
    BY <2>1 DEF Local, Serving, Live, Req, Mon, Holding, Inserting, Taken, RevRow, Locking, Empty
<1>5. ASSUME NEW q \in Sessions \ {s}
      PROVE  /\ new.entry # None => new.entry # sess[q].entry
             /\ new.ins \cap sess[q].ins = {}
             /\ new.share \cap sess[q].excl = {} /\ new.excl \cap sess[q].share = {}
  <2>1. /\ sess[s].entry # None => sess[s].entry # sess[q].entry
        /\ sess[s].ins \cap sess[q].ins = {}
        /\ sess[s].share \cap sess[q].excl = {} /\ sess[q].share \cap sess[s].excl = {}
    BY DEF Inv, Exclusive
  <2> QED
    BY <2>1 DEF EntryFree, KeyFree, ShareFree, ExclFree, Others
<1>6. Exclusive'
  <2> SUFFICES ASSUME NEW p \in Sessions, NEW q \in Sessions, p # q
               PROVE  /\ sess'[p].entry # None => sess'[p].entry # sess'[q].entry
                      /\ sess'[p].ins \cap sess'[q].ins = {}
                      /\ sess'[p].share \cap sess'[q].excl = {}
    BY DEF Exclusive
  <2>1. CASE p = s
    BY <1>2, <1>5, <2>1
  <2>2. CASE q = s
    BY <1>2, <1>5, <2>2
  <2>3. CASE p # s /\ q # s
    BY <1>2, <2>3 DEF Inv, Exclusive
  <2> QED
    BY <2>1, <2>2, <2>3
<1> QED
  BY <1>3, <1>4, <1>6 DEF Inv

\* A transaction that ends without writing lets go of everything.
LEMMA EndKeeps ==
  ASSUME Inv, NEW s \in Sessions, NEW ans \in Errors \cup {"ok", None}, NEW i \in Ids \cup {None},
         Live(s), sess' = Ended(s, ans, i), journal' = journal, period' = period
  PROVE  Inv'
<1> DEFINE new == [Idle EXCEPT !.at = "done", !.call = Req(s), !.answer = ans, !.row = i]
<1>1. Req(s) \in Calls /\ sess \in [Sessions -> Session]
  BY DEF Inv, Types, Local, Serving
<1>2. /\ new \in Session /\ new.at = "done" /\ new.entry = None
      /\ new.share = {} /\ new.excl = {} /\ new.made = {} /\ new.ins = {}
  BY <1>1 DEF Idle, Session, Labels
<1>3. sess' = [sess EXCEPT ![s] = new]
  BY DEF Ended
<1> HIDE DEF new
<1>4. sess'[s] = new
  BY <1>1, <1>3
<1>5. Local(s)'
  BY <1>2, <1>4 DEF Local, Serving, Live, Holding, Inserting, Locking, Empty
<1> QED
  BY <1>2, <1>3, <1>5, SessionStep

\* What session s is known to hold and to serve.
LEMMA SessionFacts ==
  ASSUME Inv, NEW s \in Sessions
  PROVE  /\ sess \in [Sessions -> Session] /\ sess[s] \in Session /\ Local(s)
         /\ Live(s) => Req(s) \in Calls
  BY DEF Inv, Types, Local, Serving

LEMMA QuitKeeps ==
  ASSUME Inv, NEW s \in Sessions, Live(s),
         (\E why \in Errors : Quit(s, why)) \/ (\E i \in Ids : Replay(s, i))
  PROVE  Inv'
  BY EndKeeps DEF Quit, Replay

LEMMA BeginKeeps ==
  ASSUME Inv, NEW s \in Sessions, NEW c \in Calls, Begin(s, c)
  PROVE  Inv'
<1>1. sess \in [Sessions -> Session] /\ sess[s] \in Session /\ Local(s) /\ sess[s].at = "idle"
  BY SessionFacts DEF Begin, At
<1>2. /\ sess[s].entry = None /\ sess[s].share = {} /\ sess[s].excl = {} /\ sess[s].made = {}
      /\ sess[s].ins = {}
  BY <1>1 DEF Local, Holding, Live, Inserting, Locking, Empty
<1>3. /\ FirstLabel(c.op) \in {"lookup", "lock", "flip"} /\ c.op \in OpsAt(FirstLabel(c.op))
      /\ FirstLabel(c.op) = "flip" \/ c.op = "post" => c.month \in Months
      /\ FirstLabel(c.op) = "flip" => c.op \notin Corrections
      /\ c.month \in Months \cup {None}
  BY CallTypes DEF FirstLabel, OpsAt, Ops, Corrections
<1> DEFINE new == [sess[s] EXCEPT !.call = c, !.month = c.month, !.at = FirstLabel(c.op)]
<1>4. /\ new \in Session /\ new.at = FirstLabel(c.op) /\ new.call = c /\ new.month = c.month
      /\ new.entry = None /\ new.share = {} /\ new.excl = {} /\ new.made = {} /\ new.ins = {}
  BY ZenonT(40), <1>1, <1>2, <1>3 DEF Session, Labels
<1>5. sess' = [sess EXCEPT ![s] = new] /\ journal' = journal /\ period' = period
  BY DEF Begin
<1> HIDE DEF new
<1>6. sess'[s] = new
  BY <1>1, <1>5
<1>7. Local(s)'
  BY <1>3, <1>4, <1>6 DEF Local, Serving, Live, Req, Mon, Holding, Inserting, Locking, Empty
<1> QED
  BY <1>4, <1>5, <1>7, SessionStep

\* Session s goes on to label, holding what it held, with month m to work on.
LEMMA MoveKeeps ==
  ASSUME Inv, NEW s \in Sessions, NEW label \in Labels \ {"idle", "done", "lock", "repost", "commit"},
         NEW m \in Months \cup {None},
         Live(s), sess[s].at # "repost", sess[s].at # "commit",
         sess' = [sess EXCEPT ![s] = [sess[s] EXCEPT !.at = label, !.month = m]],
         journal' = journal, period' = period,
         Req(s).op \in OpsAt(label), m \in Months, Empty(s),
         Req(s).op \in Corrections => sess[s].at \notin {"lookup", "lock"} /\ label # "lookup"
  PROVE  Inv'
<1>1. sess \in [Sessions -> Session] /\ sess[s] \in Session /\ Local(s) /\ Req(s) \in Calls
  BY SessionFacts
<1>2. sess[s].ins = {}
  BY <1>1 DEF Local, Inserting
<1> DEFINE new == [sess[s] EXCEPT !.at = label, !.month = m]
<1>3. /\ new \in Session /\ new.at = label /\ new.call = sess[s].call /\ new.month = m
      /\ new.entry = sess[s].entry /\ new.share = {} /\ new.excl = {} /\ new.made = {}
      /\ new.ins = {}
  BY <1>1, <1>2 DEF Session, Empty
<1> HIDE DEF new
<1>4. sess'[s] = new /\ sess' = [sess EXCEPT ![s] = new]
  BY <1>1 DEF new
<1>5. Live(s)' /\ Req(s)' = Req(s)
  BY <1>3, <1>4 DEF Live, Req
<1>6. Holding(s)'
  <2>1. CASE Req(s).op \in Corrections
    <3>1. sess[s].entry = Req(s).target /\ journal[Req(s).target].status = Status(Req(s).op)
      BY <1>1, <2>1 DEF Local, Holding
    <3> QED
      BY <1>3, <1>4, <1>5, <2>1, <3>1 DEF Holding
  <2>2. CASE Req(s).op \notin Corrections
    <3>1. sess[s].entry = None
      BY <1>1, <2>2 DEF Local, Holding
    <3> QED
      BY <1>3, <1>4, <1>5, <2>2, <3>1 DEF Holding
  <2> QED
    BY <2>1, <2>2
<1>7. Serving(s)' /\ Inserting(s)' /\ Locking(s)'
  BY <1>1, <1>3, <1>4, <1>5 DEF Serving, Mon, Inserting, Locking, Empty
<1> QED
  BY <1>3, <1>4, <1>6, <1>7, SessionStep DEF Local

LEMMA LookupKeeps ==
  ASSUME Inv, NEW s \in Sessions, Lookup(s)
  PROVE  Inv'
<1>1. /\ sess \in [Sessions -> Session] /\ sess[s] \in Session /\ Local(s) /\ Live(s)
      /\ sess[s].at = "lookup" /\ Req(s) \in Calls
  BY SessionFacts DEF Lookup, At, Live
<1>2. Req(s).op \in {"post", "reverse", "recategorize"} /\ (Req(s).op = "post" => Mon(s) \in Months)
  BY <1>1 DEF Local, Serving, OpsAt
<1>3. ReplayRow(s) \in Ids
  BY <1>1, CallTypes, IdsAre DEF ReplayRow, NewRow, OwnRow
<1>4. CASE Replay(s, ReplayRow(s)) \/ Quit(s, "bad_lines")
  BY <1>1, <1>3, <1>4, QuitKeeps DEF Errors
<1>5. CASE /\ Goto(s, IF Req(s).op = "post" THEN "period" ELSE "lock")
           /\ journal' = journal /\ period' = period
  <2>1. CASE Req(s).op = "post"
    <3>1. Empty(s) /\ sess' = [sess EXCEPT ![s] = [sess[s] EXCEPT !.at = "period"]]
      BY <1>1, <1>5, <2>1 DEF Goto, Local, Locking
    <3>2. sess[s] \in Session /\ Mon(s) = sess[s].month /\ Mon(s) \in Months
      BY <1>1, <1>2, <2>1 DEF Mon
    <3>3. [sess[s] EXCEPT !.at = "period"] = [sess[s] EXCEPT !.at = "period", !.month = Mon(s)]
      BY <3>2 DEF Session
    <3> QED
      BY <1>1, <1>5, <2>1, <3>1, <3>2, <3>3, MoveKeeps DEF Labels, OpsAt, Corrections
  <2>2. CASE Req(s).op # "post"
    <3> DEFINE new == [sess[s] EXCEPT !.at = "lock"]
    <3>1. /\ new \in Session /\ new.at = "lock" /\ new.call = sess[s].call
          /\ new.entry = sess[s].entry /\ new.share = sess[s].share /\ new.excl = sess[s].excl
          /\ new.made = sess[s].made /\ new.ins = sess[s].ins
      BY <1>1 DEF Session, Labels
    <3>2. sess' = [sess EXCEPT ![s] = new] /\ sess'[s] = new
      BY <1>1, <1>5, <2>2 DEF Goto
    <3> HIDE DEF new
    <3>3. Local(s)'
      BY <1>1, <1>2, <1>5, <2>2, <3>1, <3>2
      DEF Local, Serving, Live, Req, Holding, Inserting, Locking, Empty, OpsAt, Corrections
    <3> QED
      BY <1>5, <3>1, <3>2, <3>3, SessionStep
  <2> QED
    BY <2>1, <2>2
<1> QED
  BY <1>4, <1>5 DEF Lookup

\* The entry is locked, and found in the state the request needs.
LEMMA LockKeeps ==
  ASSUME Inv, NEW s \in Sessions, Lock(s)
  PROVE  Inv'
<1>1. /\ sess \in [Sessions -> Session] /\ sess[s] \in Session /\ Local(s) /\ Live(s)
      /\ sess[s].at = "lock" /\ Req(s) \in Calls /\ Req(s).op \in Corrections
      /\ journal \in [Ids -> Entry]
  BY SessionFacts DEF Lock, At, Live, Local, Serving, OpsAt, Inv, Types
<1>2. Req(s).target \in Ids /\ Req(s).month \in Months \cup {None}
  BY <1>1, CallTypes
<1> DEFINE e   == journal[Req(s).target]
           why == Refusal(Req(s), e)
           at  == IF Req(s).op = "approve" \/ (Req(s).op = "reverse" /\ Req(s).month # None)
                  THEN "period" ELSE "probe"
           m   == IF Req(s).op # "reverse" THEN e.month
                  ELSE IF Req(s).month # None THEN Req(s).month ELSE Today
<1>3. CASE why # None /\ Quit(s, why)
  <2>1. why \in Errors
    BY <1>3 DEF Refusal, Errors
  <2> QED
    BY <1>1, <1>3, <2>1, QuitKeeps
<1>4. CASE /\ why = None /\ journal' = journal /\ period' = period
           /\ sess' = [sess EXCEPT ![s].entry = Req(s).target, ![s].at = at, ![s].month = m]
  <2>1. e.status = Status(Req(s).op)
    <3>1. /\ "not_found" # None /\ "not_pending" # None /\ "already_reversed" # None
          /\ "not_posted" # None /\ "no_match" # None
      BY SessionsAssumption DEF Errors
    <3>2. Refusal(Req(s), e) = None
      BY <1>4
    <3> HIDE DEF e, why
    <3>3. CASE Req(s).op = "approve"
      BY <3>1, <3>2, <3>3 DEF Refusal, Status
    <3>4. CASE Req(s).op \in {"reverse", "recategorize"}
      BY <3>1, <3>2, <3>4 DEF Refusal, Status
    <3> QED
      BY <1>1, <3>3, <3>4 DEF Corrections
  <2>2. m \in Months /\ at \in {"period", "probe"} /\ Req(s).op \in OpsAt(at)
    <3>1. e \in Entry
      BY <1>1, <1>2
    <3> QED
      BY <1>1, <1>2, <3>1, SessionsAssumption DEF Entry, Corrections, OpsAt
  <2> DEFINE new == [sess[s] EXCEPT !.entry = Req(s).target, !.at = at, !.month = m]
  <2> HIDE DEF at, m
  <2>3. /\ new \in Session /\ new.at = at /\ new.call = sess[s].call /\ new.month = m
        /\ new.entry = Req(s).target /\ new.share = sess[s].share /\ new.excl = sess[s].excl
        /\ new.made = sess[s].made /\ new.ins = sess[s].ins
    BY <1>1, <1>2, <2>2 DEF Session, Labels
  <2>4. sess' = [sess EXCEPT ![s] = new] /\ sess'[s] = new
    BY <1>1, <1>4
  <2> HIDE DEF new
  <2>5. Live(s)' /\ Req(s)' = Req(s)
    BY <2>2, <2>3, <2>4 DEF Live, Req
  <2>6. Serving(s)' /\ Holding(s)'
    BY <1>1, <1>4, <2>1, <2>2, <2>3, <2>4, <2>5 DEF Serving, Mon, Holding
  <2>7. Inserting(s)' /\ Locking(s)'
    BY <1>1, <2>2, <2>3, <2>4 DEF Local, Inserting, Locking, Empty
  <2>8. EntryFree(s, Req(s).target)
    BY DEF Lock
  <2> QED
    BY <1>4, <2>3, <2>4, <2>6, <2>7, <2>8, SessionStep DEF Local
<1> QED
  BY <1>3, <1>4 DEF Lock

\* A session that holds its entry and no period works on month m at label.
LEMMA HolderMoves ==
  ASSUME Inv, NEW s \in Sessions, sess[s].at \in {"probe", "period", "create"},
         NEW label \in {"probe", "period", "create", "repost"}, NEW m \in Months,
         sess' = [sess EXCEPT ![s].month = m, ![s].at = label],
         journal' = journal, period' = period,
         Req(s).op \in OpsAt(label), label = "repost" => Taken(RevRow(s))
  PROVE  Inv'
<1>1. /\ sess \in [Sessions -> Session] /\ sess[s] \in Session /\ Local(s) /\ Live(s)
      /\ Req(s) \in Calls
  BY SessionFacts DEF Live
<1>2. sess[s].ins = {} /\ Empty(s)
  BY <1>1 DEF Local, Inserting, Locking
<1> DEFINE new == [sess[s] EXCEPT !.month = m, !.at = label]
<1>3. /\ new \in Session /\ new.at = label /\ new.call = sess[s].call /\ new.month = m
      /\ new.entry = sess[s].entry /\ new.share = {} /\ new.excl = {} /\ new.made = {}
      /\ new.ins = {}
  BY <1>1, <1>2 DEF Session, Labels, Empty
<1>4. sess' = [sess EXCEPT ![s] = new] /\ sess'[s] = new
  BY <1>1
<1> HIDE DEF new
<1>5. Live(s)' /\ Req(s)' = Req(s)
  BY <1>3, <1>4 DEF Live, Req
<1>6. Serving(s)' /\ Holding(s)'
  BY <1>1, <1>3, <1>4, <1>5 DEF Local, Serving, Mon, Holding
<1>7. Inserting(s)' /\ Locking(s)'
  BY <1>3, <1>4, <1>5 DEF Inserting, Locking, Empty, Taken, RevRow
<1> QED
  BY <1>3, <1>4, <1>6, <1>7, SessionStep DEF Local

\* The month to write in is looked for without a lock.
LEMMA ProbeKeeps ==
  ASSUME Inv, NEW s \in Sessions, Probe(s)
  PROVE  Inv'
<1>1. /\ sess \in [Sessions -> Session] /\ sess[s] \in Session /\ Local(s) /\ Live(s)
      /\ sess[s].at = "probe" /\ Req(s) \in Calls
      /\ Req(s).op \in {"reverse", "recategorize"} /\ Mon(s) \in Months
  BY SessionFacts DEF Probe, At, Live, Local, Serving, OpsAt
<1>2. CASE Req(s).op = "recategorize"
  <2>1. PICK m \in Months : m = IF period[Mon(s)] = "closed" THEN Today ELSE Mon(s)
    BY <1>1, SessionsAssumption
  <2>2. PICK label \in {"repost", "period"} :
          label = IF Taken(RevRow(s)) THEN "repost" ELSE "period"
    OBVIOUS
  <2>3. /\ sess' = [sess EXCEPT ![s].month = m, ![s].at = label]
        /\ journal' = journal /\ period' = period
    BY <1>2, <2>1, <2>2 DEF Probe
  <2> QED
    BY <1>1, <1>2, <2>2, <2>3, HolderMoves DEF OpsAt, Corrections
<1>3. CASE Req(s).op = "reverse" /\ Quit(s, "no_open_period")
  BY <1>1, <1>3, QuitKeeps DEF Errors
<1>4. ASSUME Req(s).op = "reverse", Mon(s) # NMonths, sess' = [sess EXCEPT ![s].month = Mon(s) + 1],
             journal' = journal, period' = period
      PROVE  Inv'
  <2>1. PICK m \in Months : m = Mon(s) + 1
    BY <1>1, <1>4, JournalAssumption DEF Months
  <2>2. sess' = [sess EXCEPT ![s].month = m, ![s].at = "probe"]
    BY <1>1, <1>4, <2>1 DEF Session
  <2> QED
    BY <1>1, <1>4, <2>2, HolderMoves DEF OpsAt
<1>5. ASSUME Req(s).op = "reverse", Goto(s, "period"), journal' = journal, period' = period
      PROVE  Inv'
  <2>1. PICK m \in Months : m = Mon(s)
    BY <1>1
  <2>2. sess' = [sess EXCEPT ![s].month = m, ![s].at = "period"]
    BY <1>1, <1>5, <2>1 DEF Goto, Mon, Session
  <2> QED
    BY <1>1, <1>5, <2>2, HolderMoves DEF OpsAt, Corrections
<1> QED
  BY <1>1, <1>2, <1>3, <1>4, <1>5 DEF Probe

\* Session s with these locks on periods, at label.
WithLocks(s, sh, ex, md, label) ==
  [sess[s] EXCEPT !.share = sh, !.excl = ex, !.made = md, !.at = label]

\* Nobody holds what it takes, and it goes where its request goes.
MayLock(s, sh, ex, label) ==
  /\ sess[s].at \in {"period", "create", "flip"}
  /\ sh \subseteq {Mon(s)} /\ (sh # {} => period[Mon(s)] = "open" /\ ShareFree(s, Mon(s)))
  /\ \A m \in ex : ExclFree(s, m)
  /\ label = "insert" => Req(s).op \in OpsAt("insert")
  /\ label = "commit" => \/ Req(s).op = "approve"
                         \/ Req(s).op \in {"close", "reopen"} /\ sh = {} /\ Mon(s) \in ex

\* Session s takes locks on its month and goes on to insert, or to commit.
LEMMA LockMonthKeeps ==
  ASSUME Inv, NEW s \in Sessions, NEW label \in {"insert", "commit"},
         NEW sh \in SUBSET Months, NEW ex \in SUBSET Months, NEW md \in SUBSET Months,
         MayLock(s, sh, ex, label),
         sess' = [sess EXCEPT ![s] = WithLocks(s, sh, ex, md, label)],
         journal' = journal, period' = period
  PROVE  Inv'
<1>1. /\ sess \in [Sessions -> Session] /\ sess[s] \in Session /\ Local(s) /\ Live(s)
      /\ Req(s) \in Calls
  BY SessionFacts DEF Live, MayLock
<1>2. sess[s].ins = {} /\ Empty(s) /\ Mon(s) \in Months
  BY <1>1 DEF MayLock, Local, Serving, Inserting, Locking
<1> DEFINE new == WithLocks(s, sh, ex, md, label)
<1>3. /\ new \in Session /\ new.at = label /\ new.call = sess[s].call /\ new.month = sess[s].month
      /\ new.entry = sess[s].entry /\ new.share = sh /\ new.excl = ex /\ new.made = md
      /\ new.ins = {}
  BY <1>1, <1>2 DEF WithLocks, Session, Labels
<1>4. sess' = [sess EXCEPT ![s] = new] /\ sess'[s] = new
  BY <1>1
<1> HIDE DEF new
<1>5. Live(s)' /\ Req(s)' = Req(s) /\ Mon(s)' = Mon(s)
  BY <1>3, <1>4 DEF Live, Req, Mon
<1>6. Serving(s)' /\ Holding(s)'
  <2>1. Req(s).op \in OpsAt(label)
    BY DEF MayLock, OpsAt, Ops
  <2>2. sess[s].at \notin {"lookup", "lock"}
    BY DEF MayLock
  <2> QED
    BY <2>2, <1>1, <1>2, <1>3, <1>4, <1>5, <2>1 DEF Local, Serving, Holding
<1>7. Inserting(s)'
  <2>1. label = "commit" => Inserts(Req(s).op) = {}
    BY DEF MayLock, Inserts
  <2> QED
    BY <1>3, <1>4, <1>5, <2>1 DEF Inserting
<1>8. Locking(s)'
  BY <1>3, <1>4, <1>5 DEF MayLock, Locking, Empty
<1>9. /\ \A m \in new.share \ sess[s].share : ShareFree(s, m)
      /\ \A m \in new.excl \ sess[s].excl : ExclFree(s, m)
      /\ new.ins \ sess[s].ins = {}
  BY <1>3 DEF MayLock
<1> QED
  BY <1>3, <1>4, <1>6, <1>7, <1>8, <1>9, SessionStep DEF Local

\* The period is held FOR SHARE, and open.
LEMMA PeriodKeeps ==
  ASSUME Inv, NEW s \in Sessions, Period(s)
  PROVE  Inv'
<1>1. /\ sess \in [Sessions -> Session] /\ sess[s] \in Session /\ Local(s) /\ Live(s)
      /\ sess[s].at = "period" /\ Req(s) \in Calls
      /\ Req(s).op \in Corrections \cup {"post"} /\ Mon(s) \in Months
      /\ period \in [Months -> PeriodStatus]
  BY SessionFacts DEF Period, At, Live, Local, Serving, OpsAt, Inv, Types
<1>2. sess[s].share = {} /\ sess[s].excl = {} /\ sess[s].made = {}
  BY <1>1 DEF Local, Locking, Empty
<1>3. PICK m \in Months : m = Mon(s)
  BY <1>1
<1>4. CASE Quit(s, "period_closed")
  BY <1>1, <1>4, QuitKeeps DEF Errors
<1>5. ASSUME Req(s).op = "approve", Goto(s, "commit"), journal' = journal, period' = period
      PROVE  Inv'
  <2>1. sess' = [sess EXCEPT ![s] = WithLocks(s, {}, {}, {}, "commit")]
    BY <1>1, <1>2, <1>5 DEF Goto, WithLocks, Session
  <2>2. MayLock(s, {}, {}, "commit") /\ {} \in SUBSET Months
    BY <1>1, <1>5 DEF MayLock
  <2> QED
    BY <1>5, <2>1, <2>2, LockMonthKeeps
<1>6. ASSUME Req(s).op # "approve", Goto(s, "create"), journal' = journal, period' = period
      PROVE  Inv'
  <2>1. sess' = [sess EXCEPT ![s].month = m, ![s].at = "create"]
    BY <1>1, <1>3, <1>6 DEF Goto, Mon, Session
  <2> QED
    BY <1>1, <1>6, <2>1, HolderMoves DEF OpsAt, Corrections
<1>7. ASSUME NEW label \in {"insert", "commit"}, period[m] = "open", ShareFree(s, m),
             label = IF Req(s).op = "approve" THEN "commit" ELSE "insert",
             sess' = [sess EXCEPT ![s].share = @ \cup {m}, ![s].at = label],
             journal' = journal, period' = period
      PROVE  Inv'
  <2>1. sess' = [sess EXCEPT ![s] = WithLocks(s, {m}, {}, {}, label)]
    BY <1>1, <1>2, <1>7 DEF WithLocks, Session
  <2>2. Req(s).op # "approve" => Req(s).op \in OpsAt("insert")
    BY <1>1 DEF OpsAt, Corrections
  <2>3. MayLock(s, {m}, {}, label)
    BY <1>1, <1>3, <1>7, <2>2 DEF MayLock
  <2>4. {m} \in SUBSET Months /\ {} \in SUBSET Months
    OBVIOUS
  <2> QED
    BY <1>7, <2>1, <2>3, <2>4, LockMonthKeeps
<1>8. period[m] \in {"none", "open", "closed"}
  BY <1>1 DEF PeriodStatus
<1>9. CASE period[m] = "none"
  BY <1>3, <1>5, <1>6, <1>9 DEF Period
<1>10. CASE period[m] = "closed"
  BY <1>3, <1>4, <1>10 DEF Period
<1>11. CASE period[m] = "open"
  BY <1>3, <1>7, <1>11 DEF Period
<1> QED
  BY <1>8, <1>9, <1>10, <1>11

\* The missing period is inserted, or the committed one locked for update.
LEMMA CreateKeeps ==
  ASSUME Inv, NEW s \in Sessions, Create(s)
  PROVE  Inv'
<1>1. /\ sess \in [Sessions -> Session] /\ sess[s] \in Session /\ Local(s) /\ Live(s)
      /\ sess[s].at = "create" /\ Req(s) \in Calls
      /\ Req(s).op \in OpsAt("insert") /\ Mon(s) \in Months
  BY SessionFacts DEF Create, At, Live, Local, Serving, OpsAt, Corrections
<1>2. sess[s].share = {} /\ sess[s].excl = {} /\ sess[s].made = {}
  BY <1>1 DEF Local, Locking, Empty
<1>3. PICK m \in Months : m = Mon(s)
  BY <1>1
<1>4. /\ journal' = journal /\ period' = period
      /\ {m} \in SUBSET Months /\ {} \in SUBSET Months /\ "insert" # "commit"
  BY DEF Create
<1>5. CASE sess' = [sess EXCEPT ![s].made = @ \cup {m}, ![s].at = "insert"]
  <2>1. sess' = [sess EXCEPT ![s] = WithLocks(s, {}, {}, {m}, "insert")]
    BY <1>1, <1>2, <1>5 DEF WithLocks, Session
  <2>2. MayLock(s, {}, {}, "insert")
    BY <1>1 DEF MayLock
  <2> QED
    BY <1>4, <2>1, <2>2, LockMonthKeeps
<1>6. CASE ExclFree(s, m) /\ sess' = [sess EXCEPT ![s].excl = @ \cup {m}, ![s].at = "insert"]
  <2>1. sess' = [sess EXCEPT ![s] = WithLocks(s, {}, {m}, {}, "insert")]
    BY <1>1, <1>2, <1>6 DEF WithLocks, Session
  <2>2. MayLock(s, {}, {m}, "insert")
    BY <1>1, <1>6 DEF MayLock
  <2> QED
    BY <1>4, <2>1, <2>2, LockMonthKeeps
<1> QED
  BY <1>3, <1>5, <1>6 DEF Create

\* A close or a reopen holds its period for update.
LEMMA FlipKeeps ==
  ASSUME Inv, NEW s \in Sessions, Flip(s)
  PROVE  Inv'
<1>1. /\ sess \in [Sessions -> Session] /\ sess[s] \in Session /\ Local(s) /\ Live(s)
      /\ sess[s].at = "flip" /\ Req(s) \in Calls
      /\ Req(s).op \in {"close", "reopen"} /\ Mon(s) \in Months
  BY SessionFacts DEF Flip, At, Live, Local, Serving, OpsAt
<1>2. sess[s].share = {} /\ sess[s].excl = {} /\ sess[s].made = {}
  BY <1>1 DEF Local, Locking, Empty
<1>3. PICK m \in Months : m = Mon(s)
  BY <1>1
<1>4. CASE Quit(s, "not_found")
  BY <1>1, <1>4, QuitKeeps DEF Errors
<1>5. ASSUME ExclFree(s, m), sess' = [sess EXCEPT ![s].excl = @ \cup {m}, ![s].at = "commit"],
             journal' = journal, period' = period
      PROVE  Inv'
  <2>1. sess' = [sess EXCEPT ![s] = WithLocks(s, {}, {m}, {}, "commit")]
    BY <1>1, <1>2, <1>5 DEF WithLocks, Session
  <2>2. MayLock(s, {}, {m}, "commit")
    BY <1>1, <1>3, <1>5 DEF MayLock
  <2>3. {m} \in SUBSET Months /\ {} \in SUBSET Months
    OBVIOUS
  <2> QED
    BY <1>5, <2>1, <2>2, <2>3, LockMonthKeeps
<1> QED
  BY <1>3, <1>4, <1>5 DEF Flip

\* Session s with these uncommitted rows, at label; it lets its period go or not.
WithRows(s, rows, label) == [sess[s] EXCEPT !.ins = rows, !.at = label]
Unlocked(s, label) ==
  [sess[s] EXCEPT !.share = {}, !.excl = {}, !.made = {}, !.at = label]

\* Its rows are its own, free, and the ones its request inserts by then.
MayInsert(s, rows, label) ==
  /\ sess[s].at \in {"insert", "repost"} /\ Req(s).op \in {"post", "reverse", "recategorize"}
  /\ \A i \in rows : ~Taken(i)
  /\ \A i \in rows \ sess[s].ins : KeyFree(s, i)
  /\ label = "repost" => Req(s).op = "recategorize" /\ rows = {RevRow(s)}
  /\ label = "commit" => rows = {Req(s).key} \X Inserts(Req(s).op)

LEMMA RowKeeps ==
  ASSUME Inv, NEW s \in Sessions, NEW label \in {"repost", "commit"}, NEW rows \in SUBSET Ids,
         MayInsert(s, rows, label), sess' = [sess EXCEPT ![s] = WithRows(s, rows, label)],
         journal' = journal, period' = period
  PROVE  Inv'
<1>1. /\ sess \in [Sessions -> Session] /\ sess[s] \in Session /\ Local(s) /\ Live(s)
      /\ Req(s) \in Calls /\ sess[s].at \in {"insert", "repost"} /\ Mon(s) \in Months
  BY SessionFacts DEF Live, MayInsert, Local, Serving
<1> DEFINE new == WithRows(s, rows, label)
<1>2. /\ new \in Session /\ new.at = label /\ new.call = sess[s].call /\ new.month = sess[s].month
      /\ new.entry = sess[s].entry /\ new.share = sess[s].share /\ new.excl = sess[s].excl
      /\ new.made = sess[s].made /\ new.ins = rows
  BY <1>1 DEF WithRows, Session, Labels
<1>3. sess' = [sess EXCEPT ![s] = new] /\ sess'[s] = new
  BY <1>1
<1> HIDE DEF new
<1>4. Live(s)' /\ Req(s)' = Req(s) /\ Mon(s)' = Mon(s) /\ RevRow(s)' = RevRow(s)
  BY <1>2, <1>3 DEF Live, Req, Mon, RevRow
<1>5. Serving(s)' /\ Holding(s)'
  <2>1. Req(s).op \in OpsAt(label)
    BY DEF MayInsert, OpsAt, Ops
  <2> QED
    BY <1>1, <1>2, <1>3, <1>4, <2>1 DEF Local, Serving, Holding
<1>6. Inserting(s)'
  <2>1. CASE label = "repost"
    BY <1>2, <1>3, <1>4, <2>1 DEF MayInsert, Inserting, Taken
  <2>2. CASE label = "commit"
    BY <1>2, <1>3, <1>4, <2>2 DEF MayInsert, Inserting, Taken
  <2> QED
    BY <2>1, <2>2
<1>7. Locking(s)'
  <2>1. /\ Req(s).op \notin {"close", "reopen"} /\ sess[s].share \subseteq {Mon(s)}
        /\ sess[s].share # {} => period[Mon(s)] = "open"
    BY <1>1 DEF MayInsert, Local, Locking
  <2> QED
    BY <1>2, <1>3, <1>4, <2>1 DEF Locking
<1>8. /\ new.share \ sess[s].share = {} /\ new.excl \ sess[s].excl = {}
      /\ \A i \in new.ins \ sess[s].ins : KeyFree(s, i)
  BY <1>2 DEF MayInsert
<1> QED
  BY <1>2, <1>3, <1>5, <1>6, <1>7, <1>8, SessionStep DEF Local

\* What a request inserts.
LEMMA RowsOf ==
  ASSUME NEW s \in Sessions
  PROVE  /\ Req(s).op \in {"post", "reverse"} => {OwnRow(s)} = {Req(s).key} \X Inserts(Req(s).op)
         /\ Req(s).op = "recategorize" =>
              {RevRow(s), NewRow(s)} = {Req(s).key} \X Inserts(Req(s).op)
<1>1. CASE Req(s).op \in {"post", "reverse"}
  <2>1. Inserts(Req(s).op) = {""}
    BY <1>1 DEF Inserts
  <2>2. \A k : {k} \X {""} = {<<k, "">>}
    OBVIOUS
  <2> QED
    BY <1>1, <2>1, <2>2 DEF OwnRow
<1>2. CASE Req(s).op = "recategorize"
  <2>1. Inserts(Req(s).op) = {":rev", ":new"}
    BY <1>2 DEF Inserts
  <2>2. \A k : {k} \X {":rev", ":new"} = {<<k, ":rev">>, <<k, ":new">>}
    OBVIOUS
  <2> QED
    BY <1>2, <2>1, <2>2 DEF RevRow, NewRow
<1> QED
  BY <1>1, <1>2

\* A row is inserted, or the row of the session that won is answered.
LEMMA InsertKeeps ==
  ASSUME Inv, NEW s \in Sessions, Insert(s)
  PROVE  Inv'
<1>1. /\ sess \in [Sessions -> Session] /\ sess[s] \in Session /\ Local(s) /\ Live(s)
      /\ sess[s].at = "insert" /\ Req(s) \in Calls
      /\ Req(s).op \in {"post", "reverse", "recategorize"} /\ Mon(s) \in Months
  BY SessionFacts DEF Insert, At, Live, Local, Serving, OpsAt
<1>2. sess[s].ins = {} /\ RevRow(s) \in Ids /\ OwnRow(s) \in Ids
  BY <1>1, CallTypes, IdsAre DEF Local, Inserting, RevRow, OwnRow
<1>3. PICK i \in Ids : i = IF Req(s).op = "recategorize" THEN RevRow(s) ELSE OwnRow(s)
  BY <1>2
<1>4. PICK label \in {"repost", "commit"} :
        label = IF Req(s).op = "recategorize" THEN "repost" ELSE "commit"
  OBVIOUS
<1>5. ASSUME ~Taken(i), journal' = journal, period' = period,
             sess' = [sess EXCEPT ![s].ins = @ \cup {i}, ![s].at = label]
      PROVE  Inv'
  <2>1. sess' = [sess EXCEPT ![s] = WithRows(s, {i}, label)]
    BY <1>1, <1>2, <1>5 DEF WithRows, Session
  <2>2. KeyFree(s, i)
    BY <1>3 DEF Insert
  <2>3. MayInsert(s, {i}, label)
    BY <1>1, <1>3, <1>4, <1>5, <2>2, RowsOf DEF MayInsert
  <2>4. {i} \in SUBSET Ids
    OBVIOUS
  <2> QED
    BY <1>5, <2>1, <2>3, <2>4, RowKeeps
<1>6. ASSUME Req(s).op = "recategorize", Taken(RevRow(s)), journal' = journal, period' = period,
             sess' = [sess EXCEPT ![s].share = {}, ![s].excl = {}, ![s].made = {},
                                  ![s].at = "repost"]
      PROVE  Inv'
  <2> DEFINE new == Unlocked(s, "repost")
  <2>1. /\ new \in Session /\ new.at = "repost" /\ new.call = sess[s].call
        /\ new.month = sess[s].month /\ new.entry = sess[s].entry /\ new.share = {}
        /\ new.excl = {} /\ new.made = {} /\ new.ins = {}
    BY <1>1, <1>2 DEF Unlocked, Session, Labels
  <2>2. sess' = [sess EXCEPT ![s] = new] /\ sess'[s] = new
    BY <1>1, <1>6 DEF Unlocked
  <2> HIDE DEF new
  <2>3. Live(s)' /\ Req(s)' = Req(s) /\ Mon(s)' = Mon(s) /\ RevRow(s)' = RevRow(s)
    BY <2>1, <2>2 DEF Live, Req, Mon, RevRow
  <2>4. Serving(s)' /\ Holding(s)'
    BY <1>1, <1>6, <2>1, <2>2, <2>3 DEF Local, Serving, Holding, OpsAt
  <2>5. Inserting(s)' /\ Locking(s)'
    BY <1>6, <2>1, <2>2, <2>3 DEF Inserting, Locking, Taken
  <2> QED
    BY <1>6, <2>1, <2>2, <2>4, <2>5, SessionStep DEF Local
<1>7. CASE Replay(s, OwnRow(s))
  BY <1>1, <1>2, <1>7, QuitKeeps
<1>8. CASE Req(s).op = "recategorize"
  BY <1>3, <1>4, <1>5, <1>6, <1>8 DEF Insert
<1>9. CASE Req(s).op # "recategorize"
  BY <1>3, <1>4, <1>5, <1>7, <1>9 DEF Insert
<1> QED
  BY <1>8, <1>9

\* The repost is inserted beside the reversal, or both were there already.
LEMMA RepostKeeps ==
  ASSUME Inv, NEW s \in Sessions, Repost(s)
  PROVE  Inv'
<1>1. /\ sess \in [Sessions -> Session] /\ sess[s] \in Session /\ Local(s) /\ Live(s)
      /\ sess[s].at = "repost" /\ Req(s) \in Calls
      /\ Req(s).op = "recategorize" /\ Mon(s) \in Months
  BY SessionFacts DEF Repost, At, Live, Local, Serving, OpsAt
<1>2. RevRow(s) \in Ids /\ NewRow(s) \in Ids
  BY <1>1, CallTypes, IdsAre DEF RevRow, NewRow
<1>3. CASE Replay(s, NewRow(s)) \/ Quit(s, "period_closed") \/ Quit(s, "bad_lines")
  BY <1>1, <1>2, <1>3, QuitKeeps DEF Errors
<1>4. ASSUME ~Taken(NewRow(s)), journal' = journal, period' = period,
             sess' = [sess EXCEPT ![s].ins = @ \cup {NewRow(s)}, ![s].at = "commit"]
      PROVE  Inv'
  <2>1. ~Taken(RevRow(s))
    BY <1>1, <1>4, CallTypes DEF Inv, LegsTogether, Taken, RevRow, NewRow
  <2>2. sess[s].ins = {RevRow(s)}
    BY <1>1, <2>1 DEF Local, Inserting
  <2>3. KeyFree(s, NewRow(s))
    <3> SUFFICES ASSUME NEW q \in Sessions \ {s}, NewRow(s) \in sess[q].ins PROVE FALSE
      BY DEF KeyFree, Others
    <3>1. Local(q) /\ RevRow(s) \notin sess[q].ins
      BY <2>2 DEF Inv, Exclusive
    <3>2. sess[q].at = "commit" /\ sess[q].ins = {Req(q).key} \X Inserts(Req(q).op)
      BY <3>1 DEF Local, Inserting, NewRow, RevRow
    <3>3. ":new" \in Inserts(Req(q).op) /\ Req(q).key = Req(s).key
      BY <3>2 DEF NewRow
    <3>4. Inserts(Req(q).op) = {":rev", ":new"}
      BY <3>3 DEF Inserts
    <3> QED
      BY <3>1, <3>2, <3>3, <3>4 DEF RevRow
  <2>4. MayInsert(s, {RevRow(s), NewRow(s)}, "commit")
    BY <1>1, <1>4, <2>1, <2>2, <2>3, RowsOf DEF MayInsert
  <2>5. sess' = [sess EXCEPT ![s] = WithRows(s, {RevRow(s), NewRow(s)}, "commit")]
    BY <1>1, <1>4, <2>2 DEF WithRows, Session
  <2>6. {RevRow(s), NewRow(s)} \in SUBSET Ids /\ "commit" \in {"repost", "commit"}
    BY <1>2
  <2> QED
    BY <1>4, <2>4, <2>5, <2>6, RowKeeps
<1> QED
  BY <1>3, <1>4 DEF Repost

\* What a commit does to the journal: the rows inserted become visible, the entry
\* held changes its status, and every other row stays.
LEMMA CommitRows ==
  ASSUME Inv, NEW s \in Sessions, Commit(s)
  PROVE  /\ journal' \in [Ids -> Entry] /\ PairedReversals(journal')
         /\ \A x \in Ids : x \notin sess[s].ins /\ x # sess[s].entry => journal'[x] = journal[x]
         /\ \A x \in Ids : Taken(x) => Taken(x)'
         /\ \A x \in sess[s].ins : Taken(x)'
<1>1. /\ sess[s] \in Session /\ Local(s) /\ Live(s) /\ sess[s].at = "commit"
      /\ Req(s) \in Calls /\ Req(s).op \in Ops /\ journal' = Written(s)
      /\ journal \in [Ids -> Entry] /\ PairedReversals(journal)
      /\ sess[s].ins = {Req(s).key} \X Inserts(Req(s).op)
      /\ \A i \in sess[s].ins : journal[i].status = "absent"
  BY SessionFacts, CallTypes DEF Commit, At, Live, Local, Inserting, Taken, Inv, Types
<1>2. /\ Req(s).by \in Actors /\ Req(s).lines \in Lines /\ Req(s).from \in Accounts
      /\ Req(s).to \in Accounts /\ OwnRow(s) \in Ids /\ RevRow(s) \in Ids /\ NewRow(s) \in Ids
      /\ Req(s).op \in Corrections => Req(s).target \in Ids
  BY <1>1, CallTypes, IdsAre DEF OwnRow, RevRow, NewRow
<1>3. Mon(s) \in Months
  BY <1>1 DEF Local, Serving
<1>4. Req(s).op \in Corrections =>
        /\ sess[s].entry = Req(s).target
        /\ journal[Req(s).target].status = Status(Req(s).op)
  BY <1>1 DEF Local, Holding
<1>5. CASE Req(s).op = "post"
  <2> DEFINE n == NewEntry(LandingStatus(Req(s).by), Mon(s), Req(s).lines, "manual", Req(s).by)
  <2>1. sess[s].ins = {OwnRow(s)} /\ journal[OwnRow(s)].status = "absent"
    BY <1>1, <1>5, RowsOf
  <2>2. n \in Entry /\ n.reverses = None /\ n.status \in {"pending_review", "posted"}
    <3>1. LandingStatus(Req(s).by) \in {"pending_review", "posted"}
      BY DEF LandingStatus
    <3> QED
      BY <1>2, <1>3, <3>1, NewEntryType DEF EntryStatus, Sources, NewEntry
  <2>3. journal' = [journal EXCEPT ![OwnRow(s)] = n]
    BY <1>1, <1>5 DEF Written
  <2> HIDE DEF n
  <2>4. /\ journal' \in [Ids -> Entry] /\ journal'[OwnRow(s)] = n
        /\ \A x \in Ids \ {OwnRow(s)} : journal'[x] = journal[x]
    BY <1>1, <1>2, <2>2, <2>3
  <2>5. PairedReversals(journal')
    BY <1>1, <1>2, <2>1, <2>2, <2>4, GrowthKeepsPairs
  <2> QED
    BY <2>1, <2>2, <2>4, <2>5 DEF Taken
<1>6. CASE Req(s).op = "approve"
  <2>1. sess[s].ins = {}
    BY <1>1, <1>6 DEF Inserts
  <2>2. PICK i \in Ids : i = Req(s).target
    BY <1>2, <1>6 DEF Corrections
  <2>3. sess[s].entry = i /\ journal[i].status = "pending_review"
    BY <1>4, <1>6, <2>2 DEF Corrections, Status
  <2>4. /\ journal' \in [Ids -> Entry] /\ \A x \in Ids \ {i} : journal'[x] = journal[x]
        /\ journal'[i].status = "posted" /\ journal'[i].reverses = journal[i].reverses
    BY <1>1, <1>2, <1>6, <2>2 DEF Written, Entry, EntryStatus
  <2>5. journal[i].reverses = None
    BY <1>1, <2>3 DEF PairedReversals
  <2>6. PairedReversals(journal')
    BY <1>1, <2>3, <2>4, <2>5, GrowthKeepsPairs
  <2> QED
    BY <2>1, <2>3, <2>4, <2>6 DEF Taken
<1>7. CASE Req(s).op = "reverse"
  <2>1. sess[s].ins = {OwnRow(s)} /\ journal[OwnRow(s)].status = "absent"
    BY <1>1, <1>7, RowsOf
  <2>2. PICK i, r \in Ids : i = Req(s).target /\ r = OwnRow(s)
    BY <1>2, <1>7 DEF Corrections
  <2>3. sess[s].entry = i /\ journal[i].status = "posted" /\ i # r
    BY <1>4, <1>7, <2>1, <2>2 DEF Corrections, Status
  <2>4. journal' = WithReversal(journal, i, r, Mon(s), Req(s).by)
    BY <1>1, <1>7, <2>2 DEF Written
  <2>5. /\ journal' \in [Ids -> Entry] /\ Reverses(journal'[r], journal, i, Mon(s))
        /\ Marked(journal'[i], journal[i]) /\ \A x \in Ids \ {i, r} : journal'[x] = journal[x]
    BY <1>1, <1>2, <1>3, <2>3, <2>4, WithReversalRows
  <2>6. PairedReversals(journal')
    <3>1. PICK N \in SUBSET Ids : N = {}
      OBVIOUS
    <3>2. \A x \in Ids \ ({i, r} \cup N) : journal'[x] = journal[x]
      BY <2>5, <3>1
    <3>3. \A x \in N : /\ journal[x].status = "absent" /\ journal'[x].reverses = None
                       /\ journal'[x].status \in {"pending_review", "posted"}
      BY <3>1
    <3>4. i \notin N /\ r \notin N
      BY <3>1
    <3> QED
      BY SMTT(30), <1>1, <1>3, <2>1, <2>2, <2>3, <2>5, <3>2, <3>3, <3>4, ReversalKeepsPairs
  <2> QED
    BY <2>1, <2>2, <2>3, <2>5, <2>6 DEF Taken, Reverses, Marked
<1>8. CASE Req(s).op = "recategorize"
  <2>1. /\ sess[s].ins = {RevRow(s), NewRow(s)}
        /\ journal[RevRow(s)].status = "absent" /\ journal[NewRow(s)].status = "absent"
    BY <1>1, <1>8, RowsOf
  <2>2. PICK i, r, c \in Ids : i = Req(s).target /\ r = RevRow(s) /\ c = NewRow(s) /\ r # c
    BY <1>2, <1>8 DEF Corrections, RevRow, NewRow
  <2>3. sess[s].entry = i /\ journal[i].status = "posted" /\ i # r /\ i # c
    BY <1>4, <1>8, <2>1, <2>2 DEF Corrections, Status
  <2> DEFINE l == Swap(journal[i].lines, Req(s).from, Req(s).to)
             n == NewEntry("posted", Mon(s), l, "recategorize", Req(s).by)
             w == WithReversal(journal, i, r, Mon(s), Req(s).by)
  <2>4. l \in Lines
    BY <1>1, <1>2, SwapType DEF Entry
  <2>5. n \in Entry /\ n.reverses = None /\ n.status = "posted"
    BY <1>2, <1>3, <2>4, NewEntryType DEF EntryStatus, Sources, NewEntry
  <2>6. journal' = [w EXCEPT ![c] = n]
    BY <1>1, <1>8, <2>2 DEF Written
  <2>7. /\ w \in [Ids -> Entry] /\ Reverses(w[r], journal, i, Mon(s))
        /\ Marked(w[i], journal[i]) /\ \A x \in Ids \ {i, r} : w[x] = journal[x]
    BY <1>1, <1>2, <1>3, <2>3, WithReversalRows
  <2> HIDE DEF l, n, w
  <2>8. /\ journal' \in [Ids -> Entry] /\ journal'[r] = w[r] /\ journal'[i] = w[i]
        /\ journal'[c] = n /\ \A x \in Ids \ {i, r, c} : journal'[x] = journal[x]
    BY <2>2, <2>3, <2>5, <2>6, <2>7
  <2>9. PairedReversals(journal')
    <3>0. PICK N \in SUBSET Ids : N = {c}
      OBVIOUS
    <3>1. r \notin N /\ i \notin N
      BY <2>2, <2>3, <3>0
    <3>2. \A x \in N : /\ journal[x].status = "absent" /\ journal'[x].reverses = None
                         /\ journal'[x].status \in {"pending_review", "posted"}
      BY <2>1, <2>2, <2>5, <2>8, <3>0
    <3>3. \A x \in Ids \ ({i, r} \cup N) : journal'[x] = journal[x]
      BY <2>8, <3>0
    <3>4. Reverses(journal'[r], journal, i, Mon(s)) /\ Marked(journal'[i], journal[i])
      BY <2>7, <2>8
    <3> QED
      BY SMTT(30), <1>1, <1>3, <2>1, <2>2, <2>3, <2>8, <3>1, <3>2, <3>3, <3>4, ReversalKeepsPairs
  <2> QED
    BY <2>1, <2>2, <2>3, <2>5, <2>7, <2>8, <2>9 DEF Taken, Reverses, Marked
<1>9. CASE Req(s).op \in {"close", "reopen"}
  <2>1. sess[s].ins = {} /\ journal' = journal
    BY <1>1, <1>9 DEF Inserts, Written
  <2> QED
    BY <1>1, <2>1 DEF Taken
<1> QED
  BY <1>1, <1>5, <1>6, <1>7, <1>8, <1>9 DEF Ops

\* The entry a session holds is in the journal; what it inserted is not.
LEMMA HeldIsTaken ==
  ASSUME Inv, NEW s \in Sessions, NEW x \in Ids, x = sess[s].entry
  PROVE  Taken(x)
<1>1. x # None
  BY JournalAssumption
<1>2. x = Req(s).target /\ journal[x].status = Status(Req(s).op)
  BY <1>1, SessionFacts DEF Local, Holding
<1> QED
  BY <1>2 DEF Taken, Status

\* A commit writes the legs of a correction together.
LEMMA CommitKeepsLegs ==
  ASSUME Inv, NEW s \in Sessions, Commit(s)
  PROVE  LegsTogether(journal')
<1> SUFFICES ASSUME NEW k \in Keys, NEW rev \in Ids, NEW new \in Ids,
                    rev = <<k, ":rev">>, new = <<k, ":new">>
             PROVE  Taken(rev)' <=> Taken(new)'
  BY IdsAre DEF LegsTogether, Taken
<1>1. Taken(rev) <=> Taken(new)
  BY DEF Inv, LegsTogether, Taken
<1>2. \A x \in Ids \ sess[s].ins : Taken(x)' <=> Taken(x)
  BY CommitRows, HeldIsTaken DEF Taken
<1>3. sess[s].ins = {Req(s).key} \X Inserts(Req(s).op)
  BY SessionFacts DEF Commit, At, Local, Inserting
<1>4. rev \in sess[s].ins <=> new \in sess[s].ins
  <2>1. ":rev" \in Inserts(Req(s).op) <=> ":new" \in Inserts(Req(s).op)
    BY DEF Inserts
  <2> QED
    BY <1>3, <2>1
<1>5. CASE rev \in sess[s].ins
  BY <1>4, <1>5, CommitRows
<1>6. CASE rev \notin sess[s].ins
  BY <1>1, <1>2, <1>4, <1>6
<1> QED
  BY <1>5, <1>6

\* What a commit does to the periods: only a month it holds for update can close.
LEMMA CommitPeriods ==
  ASSUME Inv, NEW s \in Sessions, Commit(s)
  PROVE  /\ period' \in [Months -> PeriodStatus]
         /\ \A m \in Months \ sess[s].excl : period[m] = "open" => period'[m] = "open"
<1>1. Local(s) /\ sess[s].at = "commit" /\ period \in [Months -> PeriodStatus]
  BY SessionFacts DEF Commit, At, Inv, Types
<1>2. Req(s).op \in {"close", "reopen"} => Mon(s) \in sess[s].excl
  BY <1>1 DEF Local, Locking
<1>3. period' = [m \in Months |->
                      IF m \in sess[s].made THEN "open"
                      ELSE IF m = Mon(s) /\ Req(s).op = "close" THEN "closed"
                      ELSE IF m = Mon(s) /\ Req(s).op = "reopen" THEN "open"
                      ELSE period[m]]
  BY DEF Commit
<1> QED
  BY <1>1, <1>2, <1>3 DEF PeriodStatus

\* The commit leaves what every other session relies on.
LEMMA CommitKeeps ==
  ASSUME Inv, NEW s \in Sessions, Commit(s)
  PROVE  Inv'
<1>1. /\ sess \in [Sessions -> Session] /\ sess[s] \in Session /\ Local(s) /\ Live(s)
      /\ sess[s].at = "commit" /\ Req(s) \in Calls
  BY SessionFacts DEF Commit, At, Live
<1>2. PICK i \in Ids \cup {None} : sess' = Ended(s, "ok", i)
  <2>1. ReplayRow(s) \in Ids
    BY <1>1, CallTypes, IdsAre DEF ReplayRow, NewRow, OwnRow
  <2> QED
    BY <2>1 DEF Commit
<1> DEFINE new == [Idle EXCEPT !.at = "done", !.call = Req(s), !.answer = "ok", !.row = i]
<1>3. /\ new \in Session /\ new.at = "done" /\ new.entry = None
      /\ new.share = {} /\ new.excl = {} /\ new.made = {} /\ new.ins = {}
  BY <1>1 DEF Idle, Session, Labels
<1>4. sess' = [sess EXCEPT ![s] = new]
  BY <1>2 DEF Ended
<1> HIDE DEF new
<1>5. sess' \in [Sessions -> Session] /\ sess'[s] = new /\ \A q \in Sessions \ {s} : sess'[q] = sess[q]
  BY <1>1, <1>3, <1>4
<1>6. Types' /\ PairedReversals(journal') /\ LegsTogether(journal')
  BY <1>5, CommitRows, CommitPeriods, CommitKeepsLegs DEF Types
<1>7. Local(s)'
  BY <1>3, <1>5 DEF Local, Serving, Live, Holding, Inserting, Locking, Empty
<1>8. ASSUME NEW q \in Sessions \ {s}
      PROVE  Local(q)'
  <2>1. /\ sess'[q] = sess[q] /\ Local(q) /\ Live(q)' = Live(q) /\ Req(q)' = Req(q)
        /\ Mon(q)' = Mon(q) /\ RevRow(q)' = RevRow(q)
    BY <1>5 DEF Inv, Live, Req, Mon, RevRow
  <2>2. /\ sess[q].entry # None => sess[q].entry # sess[s].entry
        /\ sess[q].ins \cap sess[s].ins = {} /\ sess[q].share \cap sess[s].excl = {}
    BY DEF Inv, Exclusive
  <2>3. Serving(q)'
    BY <2>1 DEF Local, Serving
  <2>4. Holding(q)'
    <3>1. CASE Live(q) /\ Req(q).op \in Corrections /\ sess[q].at \notin {"lookup", "lock"}
      <4>1. PICK x \in Ids : x = Req(q).target
        BY <3>1, CallTypes, SessionFacts
      <4>2. sess[q].entry = x /\ journal[x].status = Status(Req(q).op) /\ x # None
        BY <2>1, <3>1, <4>1, JournalAssumption DEF Local, Holding
      <4>3. x \notin sess[s].ins
        BY <1>1, <4>2, HeldIsTaken DEF Local, Inserting
      <4>4. journal'[x] = journal[x]
        BY <2>2, <4>2, <4>3, CommitRows
      <4> QED
        BY <2>1, <3>1, <4>1, <4>2, <4>4 DEF Holding
    <3>2. CASE ~(Live(q) /\ Req(q).op \in Corrections /\ sess[q].at \notin {"lookup", "lock"})
      BY <2>1, <3>2 DEF Local, Holding
    <3> QED
      BY <3>1, <3>2
  <2>5. Inserting(q)'
    <3>1. sess[q] \in Session /\ sess[q].ins \subseteq Ids /\ \A x \in sess[q].ins : ~Taken(x)
      BY <2>1, SessionFacts DEF Local, Inserting, Session
    <3>2. \A x \in sess[q].ins : ~Taken(x)'
      <4> SUFFICES ASSUME NEW x \in Ids, x \in sess[q].ins PROVE journal'[x] = journal[x]
        BY <3>1 DEF Taken
      <4>1. x \notin sess[s].ins /\ x # sess[s].entry
        BY <2>2, <3>1, HeldIsTaken
      <4> QED
        BY <4>1, CommitRows
    <3>3. Live(q) /\ Req(q).op = "recategorize" => RevRow(q) \in Ids
      BY SessionFacts, CallTypes, IdsAre DEF RevRow
    <3>4. sess[q].at = "repost" => Req(q).op = "recategorize" /\ Live(q)
      BY <2>1 DEF Local, Serving, Live, OpsAt
    <3>5. sess[q].at = "repost" => (Taken(RevRow(q)) => Taken(RevRow(q))')
      <4>1. CASE sess[q].at = "repost"
        <5>1. PICK x \in Ids : x = RevRow(q)
          BY <3>3, <3>4, <4>1
        <5> QED
          BY <2>1, <5>1, CommitRows DEF Taken
      <4> QED
        BY <4>1
    <3> QED
      BY <2>1, <3>2, <3>5 DEF Local, Inserting
  <2>6. Locking(q)'
    <3>1. sess[q].share # {} => period'[Mon(q)] = "open"
      <4> SUFFICES ASSUME sess[q].share # {} PROVE period'[Mon(q)] = "open"
        OBVIOUS
      <4>1. sess[q].share \subseteq {Mon(q)} /\ period[Mon(q)] = "open" /\ sess[q].share \subseteq Months
        BY <2>1, SessionFacts DEF Local, Locking, Session
      <4>2. Mon(q) \in sess[q].share /\ Mon(q) \in Months
        BY <4>1
      <4> QED
        BY <2>2, <4>1, <4>2, CommitPeriods
    <3> QED
      BY <2>1, <3>1 DEF Local, Locking, Empty
  <2> QED
    BY <2>3, <2>4, <2>5, <2>6 DEF Local
<1>9. Exclusive'
  <2> SUFFICES ASSUME NEW p \in Sessions, NEW q \in Sessions, p # q
               PROVE  /\ sess'[p].entry # None => sess'[p].entry # sess'[q].entry
                      /\ sess'[p].ins \cap sess'[q].ins = {}
                      /\ sess'[p].share \cap sess'[q].excl = {}
    BY DEF Exclusive
  <2>1. CASE p = s \/ q = s
    BY <1>3, <1>5, <2>1
  <2>2. CASE p # s /\ q # s
    BY <1>5, <2>2 DEF Inv, Exclusive
  <2> QED
    BY <2>1, <2>2
<1> QED
  BY <1>6, <1>7, <1>8, <1>9 DEF Inv

LEMMA StepKeeps == Inv /\ [Next]_vars => Inv'
<1> SUFFICES ASSUME Inv, [Next]_vars PROVE Inv'
  OBVIOUS
<1>1. CASE \E s \in Sessions, c \in Calls : Begin(s, c)
  BY <1>1, BeginKeeps
<1>2. CASE \E s \in Sessions : Step(s)
  BY <1>2, LookupKeeps, LockKeeps, ProbeKeeps, PeriodKeeps, CreateKeeps, InsertKeeps,
     RepostKeeps, FlipKeeps, CommitKeeps DEF Step
<1>3. CASE UNCHANGED vars
  BY <1>3 DEF vars, Inv, Types, Local, Serving, Live, Req, Mon, Holding, Inserting, RevRow, Taken,
              Locking, Empty, Exclusive
<1> QED
  BY <1>1, <1>2, <1>3 DEF Next

\* Every variable keeps its type, and a transaction that has ended holds nothing.
THEOREM SessionsTypes == Spec => []TypeOK
<1>1. Inv => TypeOK
  <2> SUFFICES ASSUME Inv PROVE TypeOK
    OBVIOUS
  <2>1. ASSUME NEW s \in Sessions, sess[s].at \in {"idle", "done"}
        PROVE  /\ sess[s].entry = None /\ sess[s].ins = {}
               /\ sess[s].share \cup sess[s].excl \cup sess[s].made = {}
    <3>1. Local(s) /\ ~Live(s)
      BY <2>1 DEF Inv, Live
    <3> QED
      BY <2>1, <3>1 DEF Local, Holding, Inserting, Locking, Empty
  <2> QED
    BY <2>1 DEF Inv, Types, TypeOK
<1> QED
  BY InitInv, StepKeeps, <1>1, PTL DEF Spec

\* At every moment an entry is undone at most once and by one reversal, and the
\* month a session has checked stays open until it commits, whatever the number
\* of sessions and whatever they are asked.
THEOREM LocksHoldAlways == Spec => []LocksHold
<1>1. Inv => LocksHold
  <2> SUFFICES ASSUME Inv PROVE LocksHold
    OBVIOUS
  <2>1. ASSUME NEW s \in Sessions, sess[s].share # {} PROVE period[Mon(s)] = "open"
    BY <2>1 DEF Inv, Local, Locking
  <2> QED
    BY <2>1 DEF Inv, LocksHold, ReversalsPaired, CheckedMonthStaysOpen
<1> QED
  BY InitInv, StepKeeps, <1>1, PTL DEF Spec
-----------------------------------------------------------------------------
(* The sessions implement Books, as long as no call closes a month that has no *)
(* period row: each commit is one of its steps.                                *)

\* No call may close month m.
Unclosed(m) == \A c \in Calls : c.op = "close" => c.month # m

\* Session s is to write into its month and has made sure of it.
Writing(s) ==
  /\ Req(s).op \notin {"close", "reopen"}
  /\ sess[s].at \in {"create", "insert", "commit"} \/ (sess[s].at = "repost" /\ sess[s].ins # {})

\* What session s works on is what its request asks for, and the month it is to
\* write into takes it: the session holds it FOR SHARE, or it had no row.
Working(s) == Live(s) =>
  /\ Req(s).op \in {"post", "close", "reopen"} => Mon(s) = Req(s).month
  /\ Req(s).op = "post" /\ sess[s].at # "lookup" => Postable(Req(s).lines)
  /\ Req(s).op = "approve" /\ sess[s].at # "lock" => Mon(s) = journal[Req(s).target].month
  /\ sess[s].made \subseteq {Mon(s)} /\ (Req(s).op \in {"close", "reopen"} => sess[s].made = {})
  /\ Writing(s) => period[Mon(s)] # "closed" /\ (sess[s].share = {} => Unclosed(Mon(s)))

\* A month without a row is one that nobody closes.
RowsWait == \A m \in Months : period[m] = "none" => Unclosed(m)

WorkInv == Inv /\ (\A s \in Sessions : Working(s)) /\ RowsWait

LEMMA WorkInit ==
  ASSUME RowsReady, Init
  PROVE  WorkInv
<1>1. \A s \in Sessions : sess[s].at = "idle"
  BY DEF Init, Idle
<1>2. RowsWait
  BY DEF RowsReady, Init, RowsWait, Unclosed
<1> QED
  BY <1>1, <1>2, InitInv DEF WorkInv, Working, Live

\* A statement of session s that writes nothing yet.
LEMMA WorkStep ==
  ASSUME WorkInv, Inv', NEW s \in Sessions, NEW new, sess' = [sess EXCEPT ![s] = new],
         journal' = journal, period' = period, Working(s)'
  PROVE  WorkInv'
<1>1. \A q \in Sessions \ {s} : sess'[q] = sess[q]
  BY SessionFacts DEF WorkInv
<1>2. \A q \in Sessions \ {s} : Working(q)'
  BY <1>1 DEF WorkInv, Working, Live, Req, Mon, Writing
<1> QED
  BY <1>2 DEF WorkInv, RowsWait

\* What has ended works on nothing.
LEMMA WorkEnds ==
  ASSUME WorkInv, Inv', NEW s \in Sessions, NEW ans, NEW i, sess' = Ended(s, ans, i),
         journal' = journal, period' = period
  PROVE  WorkInv'
<1> DEFINE new == [Idle EXCEPT !.at = "done", !.call = Req(s), !.answer = ans, !.row = i]
<1>1. sess' = [sess EXCEPT ![s] = new] /\ new.at = "done"
  BY DEF Ended, Idle
<1> HIDE DEF new
<1>2. sess'[s].at = "done"
  BY <1>1, SessionFacts DEF WorkInv
<1> QED
  BY <1>1, <1>2, WorkStep DEF Working, Live

LEMMA WorkBegin ==
  ASSUME WorkInv, NEW s \in Sessions, NEW c \in Calls, Begin(s, c)
  PROVE  WorkInv'
<1>1. /\ sess \in [Sessions -> Session] /\ sess[s] \in Session /\ sess[s].at = "idle"
      /\ sess[s].made = {} /\ Inv'
  BY SessionFacts, BeginKeeps DEF WorkInv, Begin, At, Local, Locking, Empty
<1> DEFINE new == [sess[s] EXCEPT !.call = c, !.month = c.month, !.at = FirstLabel(c.op)]
<1>2. /\ sess' = [sess EXCEPT ![s] = new] /\ journal' = journal /\ period' = period
  BY DEF Begin
<1>3. /\ new.call = c /\ new.month = c.month /\ new.at = FirstLabel(c.op) /\ new.made = {}
  BY <1>1 DEF Session
<1>4. /\ FirstLabel(c.op) \in {"lookup", "lock", "flip"}
      /\ c.op = "approve" => FirstLabel(c.op) = "lock"
      /\ c.op = "post" => FirstLabel(c.op) = "lookup"
  BY DEF FirstLabel
<1> HIDE DEF new
<1>5. sess'[s] = new
  BY <1>1, <1>2
<1>6. Working(s)'
  BY <1>3, <1>4, <1>5 DEF Working, Req, Mon, Writing
<1> QED
  BY <1>1, <1>2, <1>6, WorkStep

LEMMA WorkLookup ==
  ASSUME WorkInv, NEW s \in Sessions, Lookup(s)
  PROVE  WorkInv'
<1>1. /\ sess \in [Sessions -> Session] /\ sess[s] \in Session /\ sess[s].at = "lookup" /\ Inv'
      /\ sess[s].made = {} /\ Live(s) /\ Req(s).op \in {"post", "reverse", "recategorize"}
  BY SessionFacts, LookupKeeps DEF WorkInv, Lookup, At, Live, Local, Locking, Empty, Serving, OpsAt
<1>2. CASE Replay(s, ReplayRow(s)) \/ Quit(s, "bad_lines")
  BY <1>1, <1>2, WorkEnds DEF Replay, Quit
<1>3. ASSUME Req(s).op = "post" => Postable(Req(s).lines),
             Goto(s, IF Req(s).op = "post" THEN "period" ELSE "lock"),
             journal' = journal, period' = period
      PROVE  WorkInv'
  <2>1. PICK at \in {"period", "lock"} : at = IF Req(s).op = "post" THEN "period" ELSE "lock"
    OBVIOUS
  <2> DEFINE new == [sess[s] EXCEPT !.at = at]
  <2>2. sess' = [sess EXCEPT ![s] = new]
    BY <1>3, <2>1 DEF Goto
  <2>3. new.call = sess[s].call /\ new.month = sess[s].month /\ new.at = at /\ new.made = {}
    BY <1>1 DEF Session
  <2> HIDE DEF new
  <2>4. sess'[s] = new
    BY <1>1, <2>2
  <2>5. Req(s)' = Req(s) /\ Mon(s)' = Mon(s)
    BY <2>3, <2>4 DEF Req, Mon
  <2>6. Working(s)'
    BY <1>1, <1>3, <2>3, <2>4, <2>5 DEF WorkInv, Working, Writing
  <2> QED
    BY <1>1, <1>3, <2>2, <2>6, WorkStep
<1> QED
  BY <1>2, <1>3 DEF Lookup

LEMMA WorkLock ==
  ASSUME WorkInv, NEW s \in Sessions, Lock(s)
  PROVE  WorkInv'
<1>1. /\ sess \in [Sessions -> Session] /\ sess[s] \in Session /\ sess[s].at = "lock" /\ Inv'
      /\ sess[s].made = {} /\ Live(s) /\ Req(s).op \in Corrections
  BY SessionFacts, LockKeeps DEF WorkInv, Lock, At, Live, Local, Locking, Empty, Serving, OpsAt
<1> DEFINE e   == journal[Req(s).target]
           why == Refusal(Req(s), e)
           at  == IF Req(s).op = "approve" \/ (Req(s).op = "reverse" /\ Req(s).month # None)
                  THEN "period" ELSE "probe"
           m   == IF Req(s).op # "reverse" THEN e.month
                  ELSE IF Req(s).month # None THEN Req(s).month ELSE Today
<1>2. CASE Quit(s, why)
  <2> HIDE DEF why
  <2> QED
    BY <1>1, <1>2, WorkEnds DEF Quit
<1>3. ASSUME sess' = [sess EXCEPT ![s].entry = Req(s).target, ![s].at = at, ![s].month = m],
             journal' = journal, period' = period
      PROVE  WorkInv'
  <2>1. at \in {"period", "probe"} /\ (Req(s).op = "approve" => m = journal[Req(s).target].month)
    OBVIOUS
  <2> HIDE DEF at, m
  <2> DEFINE new == [sess[s] EXCEPT !.entry = Req(s).target, !.at = at, !.month = m]
  <2>2. sess' = [sess EXCEPT ![s] = new]
    BY <1>3
  <2>3. new.call = sess[s].call /\ new.month = m /\ new.at = at /\ new.made = {}
    BY <1>1 DEF Session
  <2> HIDE DEF new
  <2>4. sess'[s] = new
    BY <1>1, <2>2
  <2>5. Req(s)' = Req(s) /\ Mon(s)' = m
    BY <2>3, <2>4 DEF Req, Mon
  <2>6. Working(s)'
    BY <1>1, <1>3, <2>1, <2>3, <2>4, <2>5 DEF Working, Writing, Corrections
  <2> QED
    BY <1>1, <1>3, <2>2, <2>6, WorkStep
<1> QED
  BY <1>2, <1>3 DEF Lock

LEMMA WorkProbe ==
  ASSUME WorkInv, NEW s \in Sessions, Probe(s)
  PROVE  WorkInv'
<1>1. /\ sess \in [Sessions -> Session] /\ sess[s] \in Session /\ sess[s].at = "probe" /\ Inv'
      /\ sess[s].made = {} /\ sess[s].ins = {} /\ Live(s) /\ Req(s).op \in {"reverse", "recategorize"}
  BY SessionFacts, ProbeKeeps
     DEF WorkInv, Probe, At, Live, Local, Locking, Empty, Serving, OpsAt, Inserting
<1>2. CASE Quit(s, "no_open_period")
  BY <1>1, <1>2, WorkEnds DEF Quit
<1>3. ASSUME NEW m, NEW at \in {"probe", "period", "repost"},
             sess' = [sess EXCEPT ![s] = [sess[s] EXCEPT !.month = m, !.at = at]],
             journal' = journal, period' = period
      PROVE  WorkInv'
  <2> DEFINE new == [sess[s] EXCEPT !.month = m, !.at = at]
  <2>1. sess' = [sess EXCEPT ![s] = new]
    BY <1>3
  <2>2. new.call = sess[s].call /\ new.at = at /\ new.made = {} /\ new.ins = {}
    BY <1>1 DEF Session
  <2> HIDE DEF new
  <2>3. sess'[s] = new
    BY <1>1, <2>1
  <2>4. Working(s)'
    BY <1>1, <2>2, <2>3 DEF Working, Writing, Req
  <2> QED
    BY <1>1, <1>3, <2>1, <2>4, WorkStep
<1>4. CASE Req(s).op = "recategorize"
  <2>1. PICK m, at : /\ m = (IF period[Mon(s)] = "closed" THEN Today ELSE Mon(s))
                     /\ at = (IF Taken(RevRow(s)) THEN "repost" ELSE "period")
    OBVIOUS
  <2>2. sess' = [sess EXCEPT ![s].month = m, ![s].at = at] /\ journal' = journal /\ period' = period
    BY <1>4, <2>1 DEF Probe
  <2>3. sess' = [sess EXCEPT ![s] = [sess[s] EXCEPT !.month = m, !.at = at]]
    BY <2>2
  <2> QED
    BY <1>3, <2>1, <2>2, <2>3
<1>5. CASE Goto(s, "period") /\ UNCHANGED <<journal, period>>
  <2>1. sess[s] = [sess[s] EXCEPT !.month = sess[s].month]
    BY <1>1 DEF Session
  <2>2. [sess[s] EXCEPT !.at = "period"] = [sess[s] EXCEPT !.month = sess[s].month, !.at = "period"]
    BY <1>1 DEF Session
  <2> QED
    BY <1>3, <1>5, <2>2 DEF Goto
<1>6. ASSUME NEW m, sess' = [sess EXCEPT ![s].month = m], UNCHANGED <<journal, period>>
      PROVE  WorkInv'
  <2>1. [sess[s] EXCEPT !.month = m] = [sess[s] EXCEPT !.month = m, !.at = "probe"]
    BY <1>1 DEF Session
  <2> QED
    BY <1>3, <1>6, <2>1
<1> QED
  BY <1>2, <1>4, <1>5, <1>6 DEF Probe

LEMMA WorkPeriod ==
  ASSUME WorkInv, NEW s \in Sessions, Period(s)
  PROVE  WorkInv'
<1>1. /\ sess \in [Sessions -> Session] /\ sess[s] \in Session /\ sess[s].at = "period" /\ Inv'
      /\ sess[s].share = {} /\ sess[s].made = {} /\ Live(s)
      /\ Req(s).op \in Corrections \cup {"post"} /\ Mon(s) \in Months /\ Working(s)
      /\ period \in [Months -> PeriodStatus]
  BY SessionFacts, PeriodKeeps
     DEF WorkInv, Period, At, Live, Local, Locking, Empty, Serving, OpsAt, Inv, Types
<1>2. CASE Quit(s, "period_closed")
  BY <1>1, <1>2, WorkEnds DEF Quit
<1>3. ASSUME NEW sh, NEW at \in {"create", "insert", "commit"},
             sess' = [sess EXCEPT ![s] = [sess[s] EXCEPT !.share = sh, !.at = at]],
             journal' = journal, period' = period,
             period[Mon(s)] # "closed", sh = {} => Unclosed(Mon(s))
      PROVE  WorkInv'
  <2> DEFINE new == [sess[s] EXCEPT !.share = sh, !.at = at]
  <2>1. sess' = [sess EXCEPT ![s] = new]
    BY <1>3
  <2>2. /\ new.call = sess[s].call /\ new.at = at /\ new.made = {} /\ new.share = sh
        /\ new.month = sess[s].month
    BY <1>1 DEF Session
  <2> HIDE DEF new
  <2>3. sess'[s] = new
    BY <1>1, <2>1
  <2>4. Req(s)' = Req(s) /\ Mon(s)' = Mon(s)
    BY <2>2, <2>3 DEF Req, Mon
  <2>5. Working(s)'
    BY <1>1, <1>3, <2>2, <2>3, <2>4 DEF Working, Writing, Unclosed
  <2> QED
    BY <1>1, <1>3, <2>1, <2>5, WorkStep
<1>4. CASE period[Mon(s)] = "none"
  <2>1. PICK at \in {"commit", "create"} : at = IF Req(s).op = "approve" THEN "commit" ELSE "create"
    OBVIOUS
  <2>2. Goto(s, at) /\ journal' = journal /\ period' = period
    BY <1>4, <2>1 DEF Period
  <2>3. [sess[s] EXCEPT !.at = at] = [sess[s] EXCEPT !.share = {}, !.at = at]
    BY <1>1 DEF Session
  <2>4. Unclosed(Mon(s))
    BY <1>1, <1>4 DEF WorkInv, RowsWait
  <2> QED
    BY <1>3, <1>4, <2>1, <2>2, <2>3, <2>4 DEF Goto
<1>5. CASE period[Mon(s)] = "open"
  <2>1. PICK at \in {"commit", "insert"} : at = IF Req(s).op = "approve" THEN "commit" ELSE "insert"
    OBVIOUS
  <2>2. /\ sess' = [sess EXCEPT ![s].share = @ \cup {Mon(s)}, ![s].at = at]
        /\ journal' = journal /\ period' = period
    BY <1>5, <2>1 DEF Period
  <2>3. sess' = [sess EXCEPT ![s] = [sess[s] EXCEPT !.share = {Mon(s)}, !.at = at]]
    BY <1>1, <2>2
  <2> QED
    BY <1>3, <1>5, <2>1, <2>2, <2>3
<1>6. CASE period[Mon(s)] = "closed"
  BY <1>2, <1>6 DEF Period
<1> QED
  BY <1>1, <1>4, <1>5, <1>6 DEF PeriodStatus

\* Session s goes on, sure of its month.
LEMMA WorkGoesOn ==
  ASSUME WorkInv, Inv', NEW s \in Sessions, Live(s), sess[s].at \notin {"lookup", "lock"}, NEW new,
         sess' = [sess EXCEPT ![s] = new], journal' = journal, period' = period,
         new.call = sess[s].call, new.month = sess[s].month, new.share = sess[s].share,
         new.at \in {"insert", "repost", "commit"}, new.made \subseteq {Mon(s)},
         Req(s).op \in {"close", "reopen"} => new.made = {},
         Req(s).op \notin {"close", "reopen"} => Writing(s)
  PROVE  WorkInv'
<1>1. sess \in [Sessions -> Session] /\ Working(s)
  BY SessionFacts DEF WorkInv
<1>2. sess'[s] = new
  BY <1>1
<1>3. Req(s)' = Req(s) /\ Mon(s)' = Mon(s)
  BY <1>2 DEF Req, Mon
<1>4. Req(s).op \notin {"close", "reopen"} =>
        period[Mon(s)] # "closed" /\ (sess[s].share = {} => Unclosed(Mon(s)))
  BY <1>1 DEF Working
<1>5. Working(s)'
  BY <1>1, <1>2, <1>3, <1>4 DEF Working, Writing, Unclosed
<1> QED
  BY <1>5, WorkStep

LEMMA WorkCreate ==
  ASSUME WorkInv, NEW s \in Sessions, Create(s)
  PROVE  WorkInv'
<1>1. /\ sess \in [Sessions -> Session] /\ sess[s] \in Session /\ sess[s].at = "create" /\ Inv'
      /\ sess[s].made = {} /\ Live(s) /\ journal' = journal /\ period' = period
      /\ Req(s).op \in {"post", "reverse", "recategorize"}
  BY SessionFacts, CreateKeeps
     DEF WorkInv, Create, At, Live, Local, Locking, Empty, Serving, OpsAt, Inserting
<1>2. Writing(s)
  BY <1>1 DEF Writing
<1>3. ASSUME NEW new, sess' = [sess EXCEPT ![s] = new],
             new.call = sess[s].call, new.month = sess[s].month, new.share = sess[s].share,
             new.at = "insert", new.made \subseteq {Mon(s)}
      PROVE  WorkInv'
  BY <1>1, <1>2, <1>3, WorkGoesOn
<1>4. CASE sess' = [sess EXCEPT ![s].made = @ \cup {Mon(s)}, ![s].at = "insert"]
  <2> DEFINE new == [sess[s] EXCEPT !.made = {Mon(s)}, !.at = "insert"]
  <2>1. sess' = [sess EXCEPT ![s] = new]
    BY <1>1, <1>4
  <2>2. /\ new.call = sess[s].call /\ new.month = sess[s].month /\ new.share = sess[s].share
        /\ new.at = "insert" /\ new.made = {Mon(s)}
    BY <1>1 DEF Session
  <2> HIDE DEF new
  <2> QED
    BY <1>3, <2>1, <2>2
<1>5. CASE sess' = [sess EXCEPT ![s].excl = @ \cup {Mon(s)}, ![s].at = "insert"]
  <2> DEFINE new == [sess[s] EXCEPT !.excl = sess[s].excl \cup {Mon(s)}, !.at = "insert"]
  <2>1. sess' = [sess EXCEPT ![s] = new]
    BY <1>1, <1>5
  <2>2. /\ new.call = sess[s].call /\ new.month = sess[s].month /\ new.share = sess[s].share
        /\ new.at = "insert" /\ new.made = {}
    BY <1>1 DEF Session
  <2> HIDE DEF new
  <2> QED
    BY <1>3, <2>1, <2>2
<1> QED
  BY <1>4, <1>5 DEF Create

LEMMA WorkFlip ==
  ASSUME WorkInv, NEW s \in Sessions, Flip(s)
  PROVE  WorkInv'
<1>1. /\ sess \in [Sessions -> Session] /\ sess[s] \in Session /\ sess[s].at = "flip" /\ Inv'
      /\ sess[s].excl = {} /\ sess[s].made = {} /\ sess[s].ins = {} /\ Live(s)
      /\ Req(s).op \in {"close", "reopen"}
  BY SessionFacts, FlipKeeps
     DEF WorkInv, Flip, At, Live, Local, Locking, Empty, Serving, OpsAt, Inserting
<1>2. CASE Quit(s, "not_found")
  BY <1>1, <1>2, WorkEnds DEF Quit
<1>3. ASSUME sess' = [sess EXCEPT ![s].excl = @ \cup {Mon(s)}, ![s].at = "commit"],
             UNCHANGED <<journal, period>>
      PROVE  WorkInv'
  <2> DEFINE new == [sess[s] EXCEPT !.excl = sess[s].excl \cup {Mon(s)}, !.at = "commit"]
  <2>1. sess' = [sess EXCEPT ![s] = new]
    BY <1>1, <1>3
  <2>2. /\ new.call = sess[s].call /\ new.month = sess[s].month /\ new.share = sess[s].share
        /\ new.at = "commit" /\ new.made = {}
    BY <1>1 DEF Session
  <2> HIDE DEF new
  <2> QED
    BY <1>1, <1>3, <2>1, <2>2, WorkGoesOn
<1> QED
  BY <1>2, <1>3 DEF Flip

LEMMA WorkInsert ==
  ASSUME WorkInv, NEW s \in Sessions, Insert(s)
  PROVE  WorkInv'
<1>1. /\ sess \in [Sessions -> Session] /\ sess[s] \in Session /\ sess[s].at = "insert" /\ Inv'
      /\ sess[s].ins = {} /\ Live(s) /\ Working(s)
      /\ Req(s).op \in {"post", "reverse", "recategorize"}
  BY SessionFacts, InsertKeeps
     DEF WorkInv, Insert, At, Live, Local, Serving, OpsAt, Inserting
<1>2. Writing(s) /\ sess[s].made \subseteq {Mon(s)}
  BY <1>1 DEF Writing, Working
<1>3. PICK i, at : /\ i = (IF Req(s).op = "recategorize" THEN RevRow(s) ELSE OwnRow(s))
                   /\ at = (IF Req(s).op = "recategorize" THEN "repost" ELSE "commit")
  OBVIOUS
<1>4. CASE Replay(s, i)
  BY <1>1, <1>4, WorkEnds DEF Replay
<1>5. ASSUME sess' = [sess EXCEPT ![s].ins = @ \cup {i}, ![s].at = at], UNCHANGED <<journal, period>>
      PROVE  WorkInv'
  <2> DEFINE new == [sess[s] EXCEPT !.ins = {i}, !.at = at]
  <2>1. sess' = [sess EXCEPT ![s] = new]
    BY <1>1, <1>5
  <2>2. /\ new.call = sess[s].call /\ new.month = sess[s].month /\ new.share = sess[s].share
        /\ new.at = at /\ new.made = sess[s].made
    BY <1>1 DEF Session
  <2> HIDE DEF new
  <2>3. at \in {"insert", "repost", "commit"}
    BY <1>3
  <2> QED
    BY <1>1, <1>2, <1>5, <2>1, <2>2, <2>3, WorkGoesOn
<1>6. ASSUME Req(s).op = "recategorize", UNCHANGED <<journal, period>>,
             sess' = [sess EXCEPT ![s].share = {}, ![s].excl = {}, ![s].made = {}, ![s].at = "repost"]
      PROVE  WorkInv'
  <2> DEFINE new == Unlocked(s, "repost")
  <2>1. sess' = [sess EXCEPT ![s] = new]
    BY <1>1, <1>6 DEF Unlocked
  <2>2. new.call = sess[s].call /\ new.at = "repost" /\ new.made = {} /\ new.ins = {}
    BY <1>1 DEF Unlocked, Session
  <2> HIDE DEF new
  <2>3. sess'[s] = new
    BY <1>1, <2>1
  <2>4. Working(s)'
    BY <1>6, <2>2, <2>3 DEF Working, Writing, Req
  <2> QED
    BY <1>1, <1>6, <2>1, <2>4, WorkStep
<1> QED
  BY <1>3, <1>4, <1>5, <1>6 DEF Insert

LEMMA WorkRepost ==
  ASSUME WorkInv, NEW s \in Sessions, Repost(s)
  PROVE  WorkInv'
<1>1. /\ sess \in [Sessions -> Session] /\ sess[s] \in Session /\ sess[s].at = "repost" /\ Inv'
      /\ Live(s) /\ Working(s) /\ Local(s) /\ Req(s).op = "recategorize" /\ Req(s) \in Calls
  BY SessionFacts, RepostKeeps
     DEF WorkInv, Repost, At, Live, Local, Serving, OpsAt, Inserting
<1>2. CASE Replay(s, NewRow(s)) \/ Quit(s, "period_closed") \/ Quit(s, "bad_lines")
  BY <1>1, <1>2, WorkEnds DEF Replay, Quit
<1>3. ASSUME ~Taken(NewRow(s)), UNCHANGED <<journal, period>>,
             sess' = [sess EXCEPT ![s].ins = @ \cup {NewRow(s)}, ![s].at = "commit"]
      PROVE  WorkInv'
  <2>1. ~Taken(RevRow(s))
    BY <1>1, <1>3, CallTypes DEF WorkInv, Inv, LegsTogether, Taken, RevRow, NewRow
  <2>2. Writing(s)
    BY <1>1, <2>1 DEF Local, Inserting, Writing
  <2>3. sess[s].made \subseteq {Mon(s)}
    BY <1>1 DEF Working
  <2> DEFINE new == [sess[s] EXCEPT !.ins = sess[s].ins \cup {NewRow(s)}, !.at = "commit"]
  <2>4. sess' = [sess EXCEPT ![s] = new]
    BY <1>1, <1>3
  <2>5. /\ new.call = sess[s].call /\ new.month = sess[s].month /\ new.share = sess[s].share
        /\ new.at = "commit" /\ new.made = sess[s].made
    BY <1>1 DEF Session
  <2> HIDE DEF new
  <2> QED
    BY <1>1, <1>3, <2>2, <2>3, <2>4, <2>5, WorkGoesOn
<1> QED
  BY <1>2, <1>3 DEF Repost

\* What a commit does to the months: a close closes the one it asked for, nobody
\* else closes any, and no row of a period goes away.
LEMMA CommitMonths ==
  ASSUME WorkInv, NEW s \in Sessions, Commit(s)
  PROVE  /\ sess[s].at = "commit" /\ Live(s) /\ Req(s) \in Calls /\ Mon(s) \in Months
         /\ Req(s).op \notin {"close", "reopen"} => period[Mon(s)] # "closed"
         /\ \A m \in Months : CASE Req(s).op = "close" /\ m = Mon(s) -> period'[m] = "closed"
                                [] Req(s).op = "reopen" /\ m = Mon(s) -> period'[m] = "open"
                                [] OTHER -> period'[m] = "closed" <=> period[m] = "closed"
         /\ \A m \in Months : period'[m] = "none" => period[m] = "none"
<1>1. /\ sess[s] \in Session /\ Local(s) /\ Live(s) /\ sess[s].at = "commit" /\ Req(s) \in Calls
      /\ Working(s)
  BY SessionFacts DEF WorkInv, Commit, At, Live
<1>2. /\ Mon(s) \in Months /\ sess[s].made \subseteq {Mon(s)}
      /\ Req(s).op \in {"close", "reopen"} => sess[s].made = {}
      /\ Req(s).op \notin {"close", "reopen"} => period[Mon(s)] # "closed"
  BY <1>1 DEF Local, Serving, Working, Writing
<1>3. \A m \in Months : period'[m] = IF m \in sess[s].made THEN "open"
                                     ELSE IF m = Mon(s) /\ Req(s).op = "close" THEN "closed"
                                     ELSE IF m = Mon(s) /\ Req(s).op = "reopen" THEN "open"
                                     ELSE period[m]
  BY DEF Commit
<1>4. CASE Req(s).op = "close"
  BY <1>1, <1>2, <1>3, <1>4
<1>5. CASE Req(s).op = "reopen"
  BY <1>1, <1>2, <1>3, <1>5
<1>6. CASE Req(s).op \notin {"close", "reopen"}
  BY <1>1, <1>2, <1>3, <1>6
<1> QED
  BY <1>4, <1>5, <1>6

LEMMA WorkCommit ==
  ASSUME WorkInv, NEW s \in Sessions, Commit(s)
  PROVE  WorkInv'
<1>1. sess \in [Sessions -> Session] /\ Inv /\ Inv' /\ Local(s) /\ sess[s].at = "commit"
  BY SessionFacts, CommitKeeps DEF WorkInv, Commit, At
<1>2. sess'[s].at = "done" /\ \A q \in Sessions \ {s} : sess'[q] = sess[q]
  BY <1>1 DEF Commit, Ended, Idle
<1>3. ASSUME NEW q \in Sessions \ {s}, Live(q)
      PROVE  Working(q)'
  <2>1. /\ Working(q) /\ Local(q) /\ Req(q) \in Calls /\ sess'[q] = sess[q] /\ Local(q)'
        /\ Req(q)' = Req(q) /\ Mon(q)' = Mon(q)
    BY <1>1, <1>2, <1>3, SessionFacts DEF WorkInv, Inv, Req, Mon
  <2>2. ASSUME Req(q).op = "approve", sess[q].at # "lock"
        PROVE  journal'[Req(q).target].month = journal[Req(q).target].month
    <3>1. PICK x \in Ids : x = Req(q).target
      BY <2>1, <2>2, CallTypes DEF Corrections
    <3>2. sess[q].at # "lookup"
      BY <1>3, <2>1, <2>2 DEF Local, Serving, OpsAt
    <3>3. sess[q].entry = x
      BY <1>3, <2>1, <2>2, <3>1, <3>2 DEF Local, Holding, Corrections
    <3>4. x # sess[s].entry
      BY <1>1, <3>3, JournalAssumption DEF Inv, Exclusive
    <3>5. x \notin sess[s].ins
      BY <1>1, <3>3, HeldIsTaken DEF Local, Inserting
    <3> QED
      BY <1>1, <3>1, <3>4, <3>5, CommitRows
  <2>3. ASSUME Writing(q)
        PROVE  period'[Mon(q)] # "closed"
    <3>1. Mon(q) \in Months
      BY <1>3, <2>1, <2>3 DEF Writing, Local, Serving
    <3>2. CASE sess[q].share # {}
      BY <2>1, <3>2 DEF Local, Locking
    <3>3. CASE sess[q].share = {}
      <4>1. Unclosed(Mon(q)) /\ period[Mon(q)] # "closed"
        BY <1>3, <2>1, <2>3, <3>3 DEF Working
      <4>2. /\ Req(s) \in Calls /\ Working(s) /\ Live(s)
        BY CommitMonths DEF WorkInv
      <4>3. ~(Req(s).op = "close" /\ Mon(q) = Mon(s))
        BY <4>1, <4>2 DEF Unclosed, Working
      <4>4. \/ period'[Mon(q)] = "open"
            \/ period'[Mon(q)] = "closed" <=> period[Mon(q)] = "closed"
        BY <3>1, <4>3, CommitMonths
      <4> QED
        BY <4>1, <4>4
    <3> QED
      BY <3>2, <3>3
  <2>4. Live(q)' = Live(q) /\ Writing(q)' = Writing(q)
    BY <2>1 DEF Live, Writing
  <2> QED
    BY <1>3, <2>1, <2>2, <2>3, <2>4 DEF Working, Unclosed
<1>4. ASSUME NEW q \in Sessions
      PROVE  Working(q)'
  <2>1. CASE q = s \/ ~Live(q)
    BY <1>2, <2>1 DEF Working, Live
  <2> QED
    BY <1>3, <2>1
<1>5. RowsWait'
  BY CommitMonths DEF WorkInv, RowsWait, Unclosed
<1> QED
  BY <1>1, <1>4, <1>5 DEF WorkInv

LEMMA WorkKeeps == WorkInv /\ [Next]_vars => WorkInv'
<1> SUFFICES ASSUME WorkInv, [Next]_vars PROVE WorkInv'
  OBVIOUS
<1>1. CASE \E s \in Sessions, c \in Calls : Begin(s, c)
  BY <1>1, WorkBegin
<1>2. CASE \E s \in Sessions : Step(s)
  BY <1>2, WorkLookup, WorkLock, WorkProbe, WorkPeriod, WorkCreate, WorkInsert, WorkRepost,
     WorkFlip, WorkCommit DEF Step
<1>3. CASE UNCHANGED vars
  <2>1. Inv'
    BY <1>3, StepKeeps DEF WorkInv
  <2> QED
    BY <1>3, <2>1 DEF vars, WorkInv, Working, Live, Req, Mon, Writing, RowsWait, Unclosed
<1> QED
  BY <1>1, <1>2, <1>3 DEF Next

-----------------------------------------------------------------------------
(* Each commit is a step of Books *)

\* The operators of Journal mean the same inside the instance.
LEMMA SameOperators ==
  /\ Abstract!Ids = Ids /\ Abstract!Months = Months /\ Abstract!Lines = Lines
  /\ \A l : Abstract!Mirror(l) = Mirror(l) /\ (Abstract!Balanced(l) <=> Balanced(l))
  /\ \A l, f, t : Abstract!Swap(l, f, t) = Swap(l, f, t)
<1>1. Abstract!Ids = Ids /\ Abstract!Months = Months /\ Abstract!Lines = Lines
  BY DEF Abstract!Ids, Ids, Abstract!Months, Months, Abstract!Lines, Lines
<1>2. ASSUME NEW l PROVE Abstract!Mirror(l) = Mirror(l)
  BY DEF Abstract!Mirror, Mirror
<1>3. ASSUME NEW l PROVE Abstract!Balanced(l) <=> Balanced(l)
  BY Zenon DEF Abstract!Balanced, Balanced, Abstract!SumFunction, SumFunction,
               Abstract!SumFunctionOnSet, SumFunctionOnSet,
               Abstract!FoldFunctionOnSet, FoldFunctionOnSet,
               Abstract!MapThenFoldSet, MapThenFoldSet
<1>4. ASSUME NEW l, NEW f, NEW t PROVE Abstract!Swap(l, f, t) = Swap(l, f, t)
  BY DEF Abstract!Swap, Swap
<1>5. QED
  BY <1>1, <1>2, <1>3, <1>4

\* What Books sees of a row.
BookRow(e) ==
  [state |-> BookState[e.status], month |-> e.month, lines |-> e.lines,
   reverses |-> e.reverses]

\* What Books sees of the journal is what it sees of each row.
LEMMA BookRowsAt ==
  ASSUME NEW j \in [Ids -> Entry]
  PROVE  /\ BookRows(j) \in [Ids -> Abstract!Row]
         /\ \A i \in Ids : BookRows(j)[i] = BookRow(j[i])
<1>1. \A st \in EntryStatus : BookState[st] \in Abstract!RowState
  BY DEF BookState, EntryStatus, Abstract!RowState
<1>2. \A i \in Ids : BookRow(j[i]) \in Abstract!Row
  BY <1>1, SameOperators DEF BookRow, Entry, Abstract!Row
<1>3. BookRows(j) = [i \in Ids |-> BookRow(j[i])]
  BY DEF BookRows, BookRow
<1>4. QED
  BY <1>2, <1>3

\* What Books sees of the rows a step writes.
LEMMA BookRowFields ==
  /\ \A e \in Entry :
       /\ BookRow(e).month = e.month /\ BookRow(e).lines = e.lines
       /\ BookRow(e).reverses = e.reverses
       /\ e.status = "absent" => BookRow(e).state = "absent"
       /\ e.status = "pending_review" => BookRow(e).state = "held"
       /\ e.status = "posted" => BookRow(e).state = "live"
       /\ e.status = "reversed" => BookRow(e).state = "cancelled"
  /\ \A e \in Entry : \A st, m, l, i :
       (BookRow(e).state = st /\ e.month = m /\ e.lines = l /\ e.reverses = i)
         => BookRow(e) = Abstract!NewRow(st, m, l, i)
  BY DEF BookRow, BookState, Entry, EntryStatus, Abstract!NewRow

\* What Books sees of a reversal.
LEMMA CancelledRows ==
  ASSUME NEW j \in [Ids -> Entry], NEW n \in [Ids -> Entry], NEW i \in Ids, NEW r \in Ids,
         NEW m \in Months, j[i].status = "posted", j[r].status = "absent",
         Reverses(n[r], j, i, m), Marked(n[i], j[i])
  PROVE  /\ BookRows(j)[i].state = "live" /\ BookRows(j)[r].state = "absent"
         /\ BookRows(n)[r] # BookRows(j)[r] /\ BookRows(n)[i] # BookRows(j)[i]
         /\ BookRows(n)[r] = Abstract!NewRow("live", m, Abstract!Mirror(BookRows(j)[i].lines), i)
         /\ BookRows(n)[i] = [BookRows(j)[i] EXCEPT !.state = "cancelled"]
<1>1. /\ BookRows(j)[i] = BookRow(j[i]) /\ BookRows(j)[r] = BookRow(j[r])
      /\ BookRows(n)[i] = BookRow(n[i]) /\ BookRows(n)[r] = BookRow(n[r])
      /\ j[i] \in Entry /\ j[r] \in Entry /\ n[i] \in Entry /\ n[r] \in Entry
  BY BookRowsAt
<1>2. /\ n[r].status = "posted" /\ n[r].month = m /\ n[r].reverses = i
      /\ n[r].lines = Mirror(j[i].lines)
      /\ n[i].status = "reversed" /\ n[i].month = j[i].month
      /\ n[i].lines = j[i].lines /\ n[i].reverses = j[i].reverses
  BY DEF Reverses, Marked
<1>3. /\ BookRow(j[i]).state = "live" /\ BookRow(j[r]).state = "absent"
      /\ BookRow(n[r]).state = "live" /\ BookRow(n[i]).state = "cancelled"
  BY <1>1, <1>2, BookRowFields
<1>4. BookRow(n[i]) = [BookRow(j[i]) EXCEPT !.state = "cancelled"]
  BY <1>2, <1>3 DEF BookRow
<1>5. BookRow(n[r]) = Abstract!NewRow("live", m, Abstract!Mirror(BookRow(j[i]).lines), i)
  BY <1>1, <1>2, <1>3, SameOperators DEF BookRow, Abstract!NewRow
<1>6. QED
  BY ZenonT(40), <1>1, <1>3, <1>4, <1>5

\* Every journal the sessions may start from is a state Books may start from.
LEMMA BooksInit == Init => Abstract!Init
<1> SUFFICES ASSUME Init PROVE Abstract!Init
  OBVIOUS
<1> DEFINE R == BookRows(journal)
<1>1. journal \in [Ids -> Entry] /\ PairedReversals(journal)
  BY SessionsAssumption DEF Init
<1>2. \A i \in Ids : R[i] = BookRow(journal[i]) /\ journal[i] \in Entry
  BY <1>1, BookRowsAt
<1>3. \A i \in Ids :
        /\ R[i].lines = journal[i].lines /\ R[i].reverses = journal[i].reverses
        /\ R[i].state = "absent" <=> journal[i].status = "absent"
        /\ R[i].state = "held" <=> journal[i].status = "pending_review"
        /\ R[i].state = "cancelled" <=> journal[i].status = "reversed"
  <2> SUFFICES ASSUME NEW i \in Ids, NEW e \in Entry, e = journal[i]
               PROVE  /\ BookRow(e).lines = e.lines /\ BookRow(e).reverses = e.reverses
                      /\ BookRow(e).state = "absent" <=> e.status = "absent"
                      /\ BookRow(e).state = "held" <=> e.status = "pending_review"
                      /\ BookRow(e).state = "cancelled" <=> e.status = "reversed"
    BY <1>2
  <2> QED
    BY DEF BookRow, BookState, Entry, EntryStatus
<1> HIDE DEF R
<1>4. \A r \in Ids : journal[r].reverses \in Ids \cup {None}
  BY <1>1 DEF Entry
<1>5. ASSUME NEW r \in Ids, R[r].state # "absent", R[r].reverses # None
      PROVE  /\ R[r].state # "held" /\ R[R[r].reverses].state = "cancelled"
             /\ R[r].lines = Mirror(R[R[r].reverses].lines)
  <2>1. PICK i \in Ids : i = journal[r].reverses
    BY <1>3, <1>4, <1>5
  <2> QED
    BY <1>1, <1>3, <1>5, <2>1 DEF PairedReversals
<1>6. ASSUME NEW i \in Ids, R[i].state = "cancelled"
      PROVE  \E r \in Ids : R[r].state # "absent" /\ R[r].reverses = i
  BY <1>1, <1>3, <1>6 DEF PairedReversals
<1>7. ASSUME NEW r \in Ids, NEW q \in Ids, R[r].state # "absent", R[q].state # "absent",
             R[r].reverses # None, R[r].reverses = R[q].reverses
      PROVE  r = q
  BY <1>1, <1>3, <1>7 DEF PairedReversals
<1>8. Abstract!Paired
  BY <1>5, <1>6, <1>7, SameOperators DEF Abstract!Paired, Abstract!Used, R
<1> QED
  BY <1>1, <1>8, BookRowsAt, SameOperators DEF Abstract!Init

\* What is known when session s commits a write to the journal, and what of it
\* Books sees besides the rows.
LEMMA CommitFacts ==
  ASSUME WorkInv, NEW s \in Sessions, Commit(s), Req(s).op \notin {"close", "reopen"}
  PROVE  /\ journal \in [Ids -> Entry] /\ journal' \in [Ids -> Entry] /\ journal' = Written(s)
         /\ Local(s) /\ Working(s) /\ Live(s) /\ sess[s].at = "commit" /\ Req(s) \in Calls
         /\ Mon(s) \in Months /\ period[Mon(s)] # "closed"
         /\ \A i \in sess[s].ins : journal[i].status = "absent"
         /\ {m \in Months : period'[m] = "closed"} = {m \in Months : period[m] = "closed"}
         /\ Req(s).op \in Corrections =>
              /\ sess[s].entry = Req(s).target
              /\ journal[Req(s).target].status = Status(Req(s).op)
<1>1. /\ Local(s) /\ Working(s) /\ Live(s) /\ sess[s].at = "commit" /\ Req(s) \in Calls
      /\ journal \in [Ids -> Entry] /\ journal' \in [Ids -> Entry] /\ Inv
  BY SessionFacts, CommitMonths, CommitRows DEF WorkInv, Inv, Types
<1>2. \A i \in sess[s].ins : journal[i].status = "absent"
  BY <1>1 DEF Local, Inserting, Taken
<1>3. Req(s).op \in Corrections =>
        sess[s].entry = Req(s).target /\ journal[Req(s).target].status = Status(Req(s).op)
  BY <1>1 DEF Local, Holding
<1>4. {m \in Months : period'[m] = "closed"} = {m \in Months : period[m] = "closed"}
  BY CommitMonths
<1> QED
  BY <1>1, <1>2, <1>3, <1>4, CommitMonths DEF Commit

\* The commit of a post is an entry of Books.
LEMMA PostIsEnter ==
  ASSUME WorkInv, NEW s \in Sessions, Commit(s), Req(s).op = "post"
  PROVE  Abstract!Next
<1> DEFINE R == BookRows(journal)
           Q == BookRows(journal')
           st == LandingStatus(Req(s).by)
           n == NewEntry(st, Mon(s), Req(s).lines, "manual", Req(s).by)
<1>1. /\ journal \in [Ids -> Entry] /\ journal' \in [Ids -> Entry] /\ Req(s) \in Calls
      /\ Mon(s) \in Months /\ period[Mon(s)] # "closed"
      /\ {m \in Months : period'[m] = "closed"} = {m \in Months : period[m] = "closed"}
      /\ Balanced(Req(s).lines)
  BY CommitFacts DEF Working, Postable
<1>2. PICK c \in Ids : c = OwnRow(s)
  BY <1>1, CallTypes, IdsAre DEF OwnRow
<1>3. journal[c].status = "absent"
  BY <1>2, CommitFacts, RowsOf DEF Local, Inserting
<1>4. st \in {"pending_review", "posted"} /\ Req(s).lines \in Lines /\ Req(s).by \in Actors
  BY <1>1, CallTypes DEF LandingStatus
<1>5. /\ n \in Entry /\ n.status = st /\ n.month = Mon(s) /\ n.reverses = None
      /\ n.lines = Req(s).lines
  BY <1>1, <1>4, NewEntryType DEF NewEntry, EntryStatus, Sources
<1>6. journal' = [journal EXCEPT ![c] = n]
  BY <1>2, CommitFacts DEF Written
<1> HIDE DEF n, st
<1>7. journal'[c] = n /\ \A x \in Ids \ {c} : journal'[x] = journal[x]
  BY <1>1, <1>6
<1>8. /\ R \in [Ids -> Abstract!Row] /\ Q \in [Ids -> Abstract!Row]
      /\ \A x \in Ids : R[x] = BookRow(journal[x]) /\ Q[x] = BookRow(journal'[x])
  BY <1>1, BookRowsAt
<1>9. /\ R[c].state = "absent" /\ Q[c].state \in {"held", "live"} /\ Q[c].month = Mon(s)
      /\ Q[c].lines = Req(s).lines
      /\ Q[c] = Abstract!NewRow(Q[c].state, Q[c].month, Q[c].lines, None)
  <2>1. journal[c] \in Entry
    BY <1>1
  <2> QED
    BY <1>3, <1>4, <1>5, <1>7, <1>8, <2>1, BookRowFields
<1>10. Q = [R EXCEPT ![c] = Abstract!NewRow(Q[c].state, Q[c].month, Q[c].lines, None)]
  BY <1>7, <1>8, <1>9
<1>11. Abstract!Enter(c) /\ c \in Abstract!Changed
  BY <1>1, <1>4, <1>9, <1>10, SameOperators
     DEF Abstract!Enter, Abstract!Changed, Abstract!Free, Abstract!Used, Abstract!Takes
<1> QED
  BY <1>11 DEF Abstract!Next

\* The commit of an approval is a confirmation of Books.
LEMMA ApproveIsConfirm ==
  ASSUME WorkInv, NEW s \in Sessions, Commit(s), Req(s).op = "approve"
  PROVE  Abstract!Next
<1> DEFINE R == BookRows(journal)
           Q == BookRows(journal')
<1>1. /\ journal \in [Ids -> Entry] /\ journal' \in [Ids -> Entry] /\ Req(s) \in Calls
      /\ period[Mon(s)] # "closed" /\ Mon(s) = journal[Req(s).target].month
      /\ {m \in Months : period'[m] = "closed"} = {m \in Months : period[m] = "closed"}
  BY CommitFacts DEF Working
<1>2. PICK i \in Ids : i = Req(s).target
  BY <1>1, CallTypes DEF Corrections
<1>3. journal[i] \in Entry /\ journal[i].status = "pending_review"
  BY <1>1, <1>2, CommitFacts DEF Corrections, Status
<1>4. journal' = [journal EXCEPT ![i].status = "posted", ![i].approvedBy = Req(s).by]
  BY <1>2, CommitFacts DEF Written
<1>5. /\ journal'[i] \in Entry /\ journal'[i].status = "posted"
      /\ journal'[i].month = journal[i].month /\ journal'[i].lines = journal[i].lines
      /\ journal'[i].reverses = journal[i].reverses
      /\ \A x \in Ids \ {i} : journal'[x] = journal[x]
  BY <1>1, <1>3, <1>4 DEF Entry
<1>6. /\ R \in [Ids -> Abstract!Row] /\ Q \in [Ids -> Abstract!Row]
      /\ \A x \in Ids : R[x] = BookRow(journal[x]) /\ Q[x] = BookRow(journal'[x])
  BY <1>1, BookRowsAt
<1>7. /\ R[i].state = "held" /\ Q[i].state = "live" /\ R[i].month = journal[i].month
      /\ Q[i] = [R[i] EXCEPT !.state = "live"]
  BY <1>3, <1>5, <1>6, BookRowFields DEF BookRow
<1>8. Q = [R EXCEPT ![i] = [R[i] EXCEPT !.state = "live"]]
  BY <1>5, <1>6, <1>7
<1>9. Q = [R EXCEPT ![i].state = "live"]
  BY <1>8
<1>10. journal[i].month \in Months
  BY <1>3 DEF Entry
<1>11. Abstract!Takes(R[i].month)
  BY <1>1, <1>2, <1>7, <1>10, SameOperators DEF Abstract!Takes
<1>12. i \in Abstract!Changed
  BY <1>7, SameOperators DEF Abstract!Changed
<1>13. Abstract!Confirm(i)
  BY <1>1, <1>7, <1>9, <1>11 DEF Abstract!Confirm
<1> QED
  BY <1>12, <1>13, SameOperators DEF Abstract!Next

\* The commit of a reversal is a cancellation of Books.
LEMMA ReverseIsCancel ==
  ASSUME WorkInv, NEW s \in Sessions, Commit(s), Req(s).op = "reverse"
  PROVE  Abstract!Next
<1> DEFINE R == BookRows(journal)
           Q == BookRows(journal')
           m == Mon(s)
<1>1. /\ journal \in [Ids -> Entry] /\ journal' \in [Ids -> Entry] /\ Req(s) \in Calls
      /\ m \in Months /\ period[m] # "closed" /\ Req(s).by \in Actors
      /\ {q \in Months : period'[q] = "closed"} = {q \in Months : period[q] = "closed"}
  BY CommitFacts, CallTypes
<1>2. PICK i, r \in Ids : i = Req(s).target /\ r = OwnRow(s)
  BY <1>1, CallTypes, IdsAre DEF Corrections, OwnRow
<1>3. journal[i].status = "posted" /\ journal[r].status = "absent"
  <2>1. sess[s].ins = {r}
    BY <1>2, CommitFacts, RowsOf DEF Local, Inserting
  <2> QED
    BY <1>2, <2>1, CommitFacts DEF Corrections, Status
<1>4. journal' = WithReversal(journal, i, r, m, Req(s).by) /\ i # r
  BY <1>2, <1>3, CommitFacts DEF Written
<1>5. /\ Reverses(journal'[r], journal, i, m) /\ Marked(journal'[i], journal[i])
      /\ \A x \in Ids \ {i, r} : journal'[x] = journal[x]
  BY <1>1, <1>4, WithReversalRows
<1> DEFINE e == Abstract!NewRow("live", m, Abstract!Mirror(R[i].lines), i)
           d == [R[i] EXCEPT !.state = "cancelled"]
<1>6. /\ R \in [Ids -> Abstract!Row] /\ Q \in [Ids -> Abstract!Row]
      /\ \A x \in Ids \ {i, r} : Q[x] = R[x]
  BY <1>1, <1>5, BookRowsAt
<1>7. /\ R[i].state = "live" /\ R[r].state = "absent"
      /\ Q[r] # R[r] /\ Q[i] # R[i] /\ Q[r] = e /\ Q[i] = d
  BY <1>1, <1>3, <1>5, CancelledRows
<1>8. Q = [[R EXCEPT ![r] = e] EXCEPT ![i] = d]
  BY <1>4, <1>6, <1>7
<1>9. Q = Abstract!Cancelled(i, r, m)
  BY <1>4, <1>8 DEF Abstract!Cancelled
<1>10. i \in Abstract!Changed /\ r \in Abstract!Changed
  BY <1>7, SameOperators DEF Abstract!Changed
<1>11. Abstract!Takes(m) /\ Abstract!Free(r)
  BY <1>1, <1>7, SameOperators DEF Abstract!Takes, Abstract!Free, Abstract!Used
<1> HIDE DEF m
<1>12. Abstract!Cancel(i, r, m)
  BY <1>1, <1>7, <1>9, <1>11 DEF Abstract!Cancel
<1> QED
  BY <1>1, <1>10, <1>12, SameOperators DEF Abstract!Next

\* The commit of a recategorisation is a correction of Books.
LEMMA RecategorizeIsCorrect ==
  ASSUME WorkInv, NEW s \in Sessions, Commit(s), Req(s).op = "recategorize"
  PROVE  Abstract!Next
<1>1. /\ journal \in [Ids -> Entry] /\ journal' \in [Ids -> Entry] /\ Req(s) \in Calls
      /\ Mon(s) \in Months /\ period[Mon(s)] # "closed" /\ Req(s).by \in Actors
      /\ Req(s).from \in Accounts /\ Req(s).to \in Accounts
      /\ {q \in Months : period'[q] = "closed"} = {q \in Months : period[q] = "closed"}
  BY CommitFacts, CallTypes
<1>2. PICK i, r, c \in Ids : i = Req(s).target /\ r = RevRow(s) /\ c = NewRow(s) /\ r # c
  <2>1. RevRow(s) \in Ids /\ NewRow(s) \in Ids /\ RevRow(s) # NewRow(s)
    BY <1>1, CallTypes, IdsAre DEF RevRow, NewRow
  <2>2. Req(s).target \in Ids
    BY <1>1, CallTypes DEF Corrections
  <2> QED
    BY <2>1, <2>2
<1>3. PICK m \in Months, f, t \in Accounts : m = Mon(s) /\ f = Req(s).from /\ t = Req(s).to
  BY <1>1
<1>4. /\ journal[i].status = "posted" /\ journal[r].status = "absent"
      /\ journal[c].status = "absent" /\ i # r /\ i # c
  <2>1. sess[s].ins = {r, c}
    BY <1>2, CommitFacts, RowsOf DEF Local, Inserting
  <2> QED
    BY <1>2, <2>1, CommitFacts DEF Corrections, Status
<1> DEFINE l == Swap(journal[i].lines, f, t)
           new == NewEntry("posted", m, l, "recategorize", Req(s).by)
           w == WithReversal(journal, i, r, m, Req(s).by)
<1>5. journal' = [w EXCEPT ![c] = new]
  BY <1>2, <1>3, CommitFacts DEF Written
<1>6. new \in Entry /\ new.status = "posted" /\ new.month = m /\ new.lines = l /\ new.reverses = None
  <2>1. l \in Lines
    BY <1>1, SwapType DEF Entry
  <2> QED
    BY <1>1, <2>1, NewEntryType DEF NewEntry, EntryStatus, Sources
<1>7. /\ w \in [Ids -> Entry] /\ Reverses(w[r], journal, i, m) /\ Marked(w[i], journal[i])
      /\ \A x \in Ids \ {i, r} : w[x] = journal[x]
  BY <1>1, <1>4, WithReversalRows
<1> HIDE DEF l, new, w
<1>8. /\ journal'[c] = new /\ journal'[r] = w[r] /\ journal'[i] = w[i]
      /\ \A x \in Ids \ {i, r, c} : journal'[x] = journal[x]
  BY <1>2, <1>4, <1>5, <1>7
<1> DEFINE R == BookRows(journal)
           Q == BookRows(journal')
           e == Abstract!NewRow("live", m, Abstract!Mirror(R[i].lines), i)
           d == [R[i] EXCEPT !.state = "cancelled"]
           n == Abstract!NewRow("live", m, Abstract!Swap(R[i].lines, f, t), None)
<1>9. /\ R \in [Ids -> Abstract!Row] /\ Q \in [Ids -> Abstract!Row]
      /\ \A x \in Ids : R[x] = BookRow(journal[x]) /\ Q[x] = BookRow(journal'[x])
      /\ \A x \in Ids \ {i, r, c} : Q[x] = R[x]
  BY <1>1, <1>8, BookRowsAt
<1>10. /\ R[i].state = "live" /\ R[r].state = "absent"
       /\ Q[r] # R[r] /\ Q[i] # R[i] /\ Q[r] = e /\ Q[i] = d
  BY <1>1, <1>4, <1>7, <1>8, CancelledRows
<1>11. R[c].state = "absent" /\ Q[c].state = "live" /\ Q[c] = n
  <2>1. /\ journal[c] \in Entry /\ journal[i] \in Entry
        /\ R[c] = BookRow(journal[c]) /\ R[i] = BookRow(journal[i]) /\ Q[c] = BookRow(new)
    BY <1>1, <1>8, <1>9
  <2>2. R[c].state = "absent" /\ Q[c].state = "live" /\ R[i].lines = journal[i].lines
    BY <1>4, <1>6, <2>1, BookRowFields
  <2>3. Q[c] = n
    BY <1>6, <2>1, <2>2, SameOperators, BookRowFields DEF l
  <2> QED
    BY <2>2, <2>3
<1> HIDE DEF e, d, n, R, Q
<1>12. Q = [[[R EXCEPT ![r] = e] EXCEPT ![i] = d] EXCEPT ![c] = n]
  BY <1>2, <1>4, <1>9, <1>10, <1>11
<1>13. Q = [Abstract!Cancelled(i, r, m) EXCEPT ![c] = n]
  <2>1. [[R EXCEPT ![r] = e] EXCEPT ![i] = d] = Abstract!Cancelled(i, r, m)
    BY <1>4 DEF Abstract!Cancelled, R, e, d
  <2> QED
    BY <1>12, <2>1
<1>14. i \in Abstract!Changed /\ r \in Abstract!Changed /\ c \in Abstract!Changed
  BY <1>10, <1>11, SameOperators DEF Abstract!Changed, R, Q
<1>15. Abstract!Takes(m) /\ Abstract!Free(r) /\ Abstract!Free(c)
  BY <1>1, <1>3, <1>10, <1>11, SameOperators DEF Abstract!Takes, Abstract!Free, Abstract!Used, R
<1>16. Abstract!Correct(i, r, c, m, f, t)
  BY <1>1, <1>2, <1>10, <1>13, <1>15 DEF Abstract!Correct, n, R, Q
<1>17. m \in Abstract!Months
  BY SameOperators
<1> QED
  BY <1>14, <1>16, <1>17, SameOperators DEF Abstract!Next

\* The commit of a close or of a reopening.
LEMMA FlipIsCloseOrOpen ==
  ASSUME WorkInv, NEW s \in Sessions, Commit(s), Req(s).op \in {"close", "reopen"}
  PROVE  Abstract!Next
<1>1. BookRows(journal)' = BookRows(journal) /\ Mon(s) \in Abstract!Months
  BY CommitMonths, SameOperators DEF Commit, Written
<1>2. CASE Req(s).op = "close"
  <2>1. {m \in Months : period'[m] = "closed"} = {m \in Months : period[m] = "closed"} \cup {Mon(s)}
    BY <1>2, CommitMonths
  <2> QED
    BY <1>1, <2>1 DEF Abstract!Next, Abstract!CloseMonth
<1>3. CASE Req(s).op = "reopen"
  <2>1. {m \in Months : period'[m] = "closed"} = {m \in Months : period[m] = "closed"} \ {Mon(s)}
    BY <1>3, CommitMonths
  <2> QED
    BY <1>1, <2>1 DEF Abstract!Next, Abstract!OpenMonth
<1> QED
  BY <1>2, <1>3

\* Every step of the sessions is a step of Books, if it is a commit, or leaves
\* Books alone.
LEMMA BooksStep == WorkInv /\ [Next]_vars => [Abstract!Next]_(Abstract!vars)
<1> SUFFICES ASSUME WorkInv, [Next]_vars PROVE Abstract!Next \/ UNCHANGED Abstract!vars
  OBVIOUS
<1>1. ASSUME NEW s \in Sessions, Commit(s)
      PROVE  Abstract!Next
  <2>1. Req(s).op \in Ops
    BY <1>1, CommitMonths, CallTypes
  <2> QED
    BY <1>1, <2>1, PostIsEnter, ApproveIsConfirm, ReverseIsCancel, RecategorizeIsCorrect,
       FlipIsCloseOrOpen DEF Ops
<1>2. ASSUME NEW s \in Sessions, Lookup(s) \/ Lock(s) \/ Probe(s) \/ Period(s) \/ Create(s)
                                 \/ Insert(s) \/ Repost(s) \/ Flip(s)
      PROVE  UNCHANGED <<journal, period>>
  BY <1>2 DEF Lookup, Lock, Probe, Period, Create, Insert, Repost, Flip, Quit, Replay
<1>3. ASSUME (\E s \in Sessions, c \in Calls : Begin(s, c)) \/ UNCHANGED vars
      PROVE  UNCHANGED <<journal, period>>
  BY <1>3 DEF Begin, vars
<1>4. ASSUME UNCHANGED <<journal, period>>
      PROVE  UNCHANGED Abstract!vars
  BY <1>4 DEF Abstract!vars, BookRows
<1> QED
  BY <1>1, <1>2, <1>3, <1>4 DEF Next, Step

\* The concurrent sessions implement Books, whatever their number and whatever they
\* are asked, as long as no call closes a month that has no row of a period.
THEOREM SessionsImplementBooks == ASSUME RowsReady PROVE Spec => ImplementsBooks
<1>1. Init => WorkInv
  BY WorkInit
<1> QED
  BY <1>1, WorkKeeps, BooksInit, BooksStep, PTL DEF Spec, ImplementsBooks, Abstract!Spec

\* What a commit does to a row: nothing, or it is new in the session's month, or it
\* is approved in that month, or it is marked as reversed.
LEMMA CommitLands ==
  ASSUME WorkInv, NEW s \in Sessions, Commit(s), Req(s).op \notin {"close", "reopen"},
         NEW x \in Ids, journal'[x] # journal[x]
  PROVE  \/ journal[x].status = "absent" /\ journal'[x].month = Mon(s)
         \/ journal[x].month = Mon(s) /\ journal'[x].month = Mon(s)
         \/ journal[x].status = "posted" /\ Marked(journal'[x], journal[x])
<1>1. /\ journal \in [Ids -> Entry] /\ journal' = Written(s) /\ Working(s) /\ Req(s) \in Calls
      /\ Mon(s) \in Months /\ Req(s).by \in Actors /\ Req(s).lines \in Lines
      /\ sess[s].at = "commit" /\ Live(s)
      /\ OwnRow(s) \in Ids /\ RevRow(s) \in Ids /\ NewRow(s) \in Ids /\ RevRow(s) # NewRow(s)
  BY CommitFacts, CallTypes, IdsAre DEF OwnRow, RevRow, NewRow
<1>2. /\ sess[s].ins = {Req(s).key} \X Inserts(Req(s).op)
      /\ \A i \in sess[s].ins : journal[i].status = "absent"
  BY CommitFacts DEF Local, Inserting
<1>3. Req(s).op \in Corrections =>
        Req(s).target \in Ids /\ journal[Req(s).target].status = Status(Req(s).op)
  BY <1>1, CommitFacts, CallTypes
<1>4. CASE Req(s).op = "post"
  <2>1. journal[OwnRow(s)].status = "absent"
    BY <1>2, <1>4, RowsOf
  <2>2. journal' = [journal EXCEPT ![OwnRow(s)] = NewEntry(LandingStatus(Req(s).by), Mon(s), Req(s).lines,
                                                           "manual", Req(s).by)]
    BY <1>1, <1>4 DEF Written
  <2>3. x = OwnRow(s) /\ journal'[x].month = Mon(s)
    BY <1>1, <2>2 DEF NewEntry
  <2> QED
    BY <2>1, <2>3
<1>5. CASE Req(s).op = "approve"
  <2>1. PICK i \in Ids : i = Req(s).target
    BY <1>3, <1>5 DEF Corrections
  <2>2. journal' = [journal EXCEPT ![i].status = "posted", ![i].approvedBy = Req(s).by]
    BY <1>1, <1>5, <2>1 DEF Written
  <2>3. Mon(s) = journal[i].month /\ journal[i] \in Entry
    BY <1>1, <1>5, <2>1 DEF Working
  <2>4. x = i /\ journal'[i].month = journal[i].month
    BY <1>1, <2>2, <2>3 DEF Entry
  <2> QED
    BY <2>3, <2>4
<1>6. CASE Req(s).op = "reverse"
  <2>1. PICK i, r \in Ids : i = Req(s).target /\ r = OwnRow(s)
    BY <1>1, <1>3, <1>6 DEF Corrections
  <2>2. journal[r].status = "absent" /\ journal[i].status = "posted"
    BY <1>2, <1>3, <1>6, <2>1, RowsOf DEF Corrections, Status
  <2>3. journal' = WithReversal(journal, i, r, Mon(s), Req(s).by) /\ i # r
    BY <1>1, <1>6, <2>1, <2>2 DEF Written
  <2>4. /\ Reverses(journal'[r], journal, i, Mon(s)) /\ Marked(journal'[i], journal[i])
        /\ x \in {i, r}
    BY <1>1, <2>3, WithReversalRows
  <2> QED
    BY <2>2, <2>4 DEF Reverses
<1>7. CASE Req(s).op = "recategorize"
  <2>1. PICK i, r, c \in Ids : i = Req(s).target /\ r = RevRow(s) /\ c = NewRow(s) /\ r # c
    BY <1>1, <1>3, <1>7 DEF Corrections
  <2>2. journal[r].status = "absent" /\ journal[c].status = "absent" /\ journal[i].status = "posted"
    BY <1>2, <1>3, <1>7, <2>1, RowsOf DEF Corrections, Status
  <2> DEFINE w == WithReversal(journal, i, r, Mon(s), Req(s).by)
             l == Swap(journal[i].lines, Req(s).from, Req(s).to)
  <2>3. journal' = [w EXCEPT ![c] = NewEntry("posted", Mon(s), l, "recategorize", Req(s).by)]
    BY <1>1, <1>7, <2>1 DEF Written
  <2>4. i # r /\ i # c
    BY <2>2
  <2>5. /\ w \in [Ids -> Entry] /\ Reverses(w[r], journal, i, Mon(s)) /\ Marked(w[i], journal[i])
        /\ \A y \in Ids \ {i, r} : w[y] = journal[y]
    BY <1>1, <2>4, WithReversalRows
  <2> HIDE DEF w, l
  <2>6. /\ journal'[c].month = Mon(s) /\ journal'[r] = w[r] /\ journal'[i] = w[i]
        /\ \A y \in Ids \ {i, r, c} : journal'[y] = journal[y]
    BY <2>1, <2>3, <2>4, <2>5 DEF NewEntry
  <2> QED
    BY <2>2, <2>5, <2>6 DEF Reverses
<1> QED
  BY <1>1, <1>4, <1>5, <1>6, <1>7, CallTypes DEF Ops

\* While a month stays closed its books do not change, however the sessions
\* interleave, as long as no call closes a month that has no row of a period.
THEOREM SessionsFreezeClosedBooks == ASSUME RowsReady PROVE Spec => ClosedBooksFrozen
<1>1. ASSUME WorkInv, NEW s \in Sessions, Commit(s), NEW m \in Months,
             period[m] = "closed", period'[m] = "closed"
      PROVE  BooksOf(journal', m) = BooksOf(journal, m)
  <2>1. CASE Req(s).op \in {"close", "reopen"}
    BY <1>1, <2>1 DEF Commit, Written
  <2>2. CASE Req(s).op \notin {"close", "reopen"}
    <3>1. m # Mon(s)
      BY <1>1, <2>2, CommitMonths
    <3>2. \A x \in Ids :
            /\ (InBooks(journal[x]) /\ journal[x].month = m)
                 <=> (InBooks(journal'[x]) /\ journal'[x].month = m)
            /\ (InBooks(journal[x]) /\ journal[x].month = m) => journal[x].lines = journal'[x].lines
      BY <1>1, <2>2, <3>1, CommitLands DEF InBooks, Marked
    <3> QED
      BY <3>2, SameBooks
  <2> QED
    BY <2>1, <2>2
<1>2. ASSUME NEW s \in Sessions, Lookup(s) \/ Lock(s) \/ Probe(s) \/ Period(s) \/ Create(s)
                                 \/ Insert(s) \/ Repost(s) \/ Flip(s)
      PROVE  UNCHANGED journal
  BY <1>2 DEF Lookup, Lock, Probe, Period, Create, Insert, Repost, Flip, Quit, Replay
<1>3. ASSUME (\E s \in Sessions, c \in Calls : Begin(s, c)) \/ UNCHANGED vars
      PROVE  UNCHANGED journal
  BY <1>3 DEF Begin, vars
<1> DEFINE Frozen == \A m \in Months : (period[m] = "closed" /\ period'[m] = "closed")
                                         => BooksOf(journal', m) = BooksOf(journal, m)
<1>4. WorkInv /\ [Next]_vars => [Frozen]_vars
  BY <1>1, <1>2, <1>3 DEF Next, Step
<1>5. Init => WorkInv
  BY WorkInit
<1> QED
  BY <1>4, <1>5, WorkKeeps, PTL DEF Spec, ClosedBooksFrozen
=============================================================================
