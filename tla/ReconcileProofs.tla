-------------------------- MODULE ReconcileProofs --------------------------
(***************************************************************************)
(* Matches pair lines with entries one to one, a locked statement keeps    *)
(* them, and it ties as long as nothing outside of it is reversed or       *)
(* deleted, for any number of sessions, lines, entries and amounts.  Two   *)
(* locks carry the argument: the statement has one holder, so a match or   *)
(* an unmatch that found it open finds it open when it commits, and a lock *)
(* sums matches that nobody else can add to; and the share that a new      *)
(* match takes of its line keeps the line from being deleted under it.     *)
(* Calls take their locks in one order, but for the unmatch: ranked by the *)
(* place where it stands, a call waits only for calls of a lower rank.     *)
(***************************************************************************)
EXTENDS Reconcile, TLAPS

Session   == [at : Labels, call : Calls \cup {None}, frees : BOOLEAN,
              gone : SUBSET Lines]
StatementRow == [status : {"open", "locked"}, opening : Int, closing : Balances]

Types ==
  /\ entry \in [Entries -> EntryStatus] /\ lines \subseteq Lines /\ stmt \in StatementRow
  /\ matches \subseteq Match /\ sess \in [Sessions -> Session]

Live(s) == sess[s].at \notin {"idle", "done"}

CallsAreKnown == \A s \in Sessions : Live(s) => Req(s) \in Calls

\* Where a call may stand, by what it does.
Placed(op, at) ==
  /\ op = "match"   => at \in {"begin", "read", "insert", "commit"}
  /\ op = "unmatch" => at \in {"begin", "held", "commit"}
  /\ op = "lock"    => at \in {"begin", "sum", "commit"}
  /\ op \in {"reopen", "open"} => at \in {"begin", "commit"}
  /\ op = "reverse" => at \in {"begin", "unlock", "free", "commit"}
  /\ op = "discard" => at \in {"begin", "cascade", "commit"}

CallsAreInPlace == \A s \in Sessions :
  /\ Live(s) => Placed(Req(s).op, sess[s].at)
  /\ sess[s].frees = TRUE => Serves(s, "reverse") /\ sess[s].at \in {"free", "commit"}
  /\ At(s, "begin") => sess[s].gone = {}

StmtFree(s) == \A q \in Others(s) : ~HoldsStmt(q)

OneHolder == \A s, q \in Sessions : (HoldsStmt(s) /\ HoldsStmt(q)) => s = q

OneDeleter == \A s, q \in Sessions, l \in Lines : (Deletes(s, l) /\ Deletes(q, l)) => s = q

\* What a match has made sure of on its way to the commit.
MatchFits(s) == Serves(s, "match") =>
  /\ sess[s].at \in {"insert", "commit"} => Movement[Req(s).entry] = Amount[Req(s).line]
  /\ At(s, "commit") =>
       /\ Req(s).line \in lines
       /\ \A m \in matches : m.line # Req(s).line /\ m.entry # Req(s).entry
       /\ \A q \in Sessions : ~Deletes(q, Req(s).line)

\* The statement that a match, an unmatch or a lock holds is open.
FoundOpen(s) ==
  \/ (Serves(s, "match") \/ Serves(s, "lock")) /\ ~At(s, "begin")
  \/ Serves(s, "unmatch") /\ At(s, "commit")

HoldersFindOpen == \A s \in Sessions : FoundOpen(s) => stmt.status = "open"

Undisturbed == lines = Lines /\ \A e \in Entries : entry[e] # "reversed"

\* What is locked, or about to be, ties.
LocksTie ==
  Undisturbed =>
    /\ stmt.status = "locked" => Ties(matches)
    /\ \A s \in Sessions : Serves(s, "lock") /\ At(s, "commit") => Ties(matches)

Inv == /\ Types /\ CallsAreKnown /\ CallsAreInPlace /\ OneHolder /\ OneDeleter /\ HoldersFindOpen
       /\ (\A s \in Sessions : MatchFits(s)) /\ OneToOne /\ LocksTie

LEMMA InitInv == Init => Inv
<1> SUFFICES ASSUME Init PROVE Inv
  OBVIOUS
<1>1. Types
  BY ReconcileAssumption DEF Init, Types, Session, StatementRow, Idle, Labels, EntryStatus
<1>2. \A s \in Sessions : sess[s].at = "idle" /\ sess[s].frees = FALSE
  BY DEF Init, Idle
<1>3. matches = {} /\ stmt.status = "open"
  BY DEF Init
<1> QED
  BY <1>1, <1>2, <1>3 DEF Inv, Live, CallsAreKnown, CallsAreInPlace, OneHolder, OneDeleter, HoldersFindOpen,
     FoundOpen, MatchFits, OneToOne, LocksTie, HoldsStmt, Deletes, Serves, At

\* A statement of session s that writes nothing yet.
LEMMA SessionStep ==
  ASSUME Inv, NEW s \in Sessions, NEW new \in Session,
         sess' = [sess EXCEPT ![s] = new], UNCHANGED Tables,
         Live(s)' => Req(s)' \in Calls,
         Live(s)' => Placed(Req(s).op, sess[s].at)',
         sess'[s].frees = TRUE => Serves(s, "reverse")' /\ sess'[s].at \in {"free", "commit"},
         At(s, "begin")' => sess'[s].gone = {},
         HoldsStmt(s)' => HoldsStmt(s) \/ StmtFree(s),
         FoundOpen(s)' => stmt.status = "open",
         MatchFits(s)',
         \A l \in Lines : Deletes(s, l)' => Deletes(s, l) \/ \A q \in Others(s) : ~SharesLine(q, l) /\ ~Deletes(q, l),
         Undisturbed /\ Serves(s, "lock")' /\ At(s, "commit")' => Ties(matches)
  PROVE  Inv'
<1>1. sess \in [Sessions -> Session]
  BY DEF Inv, Types
<1>2. /\ sess'[s] = new
      /\ \A q \in Sessions \ {s} : sess'[q] = sess[q]
  BY <1>1
<1>3. /\ entry' = entry /\ lines' = lines /\ stmt' = stmt /\ matches' = matches
      /\ lines \subseteq Lines
  BY DEF Tables, Inv, Types
<1>4. Types'
  BY <1>1, <1>3 DEF Inv, Types
<1>5. CallsAreKnown'
  BY <1>2 DEF Inv, CallsAreKnown, Live, Req
<1>6. CallsAreInPlace'
  BY <1>2 DEF Inv, CallsAreInPlace, Live, Serves, At, Req
<1>7. OneHolder'
  <2>1. \A q \in Sessions \ {s} : HoldsStmt(q)' => HoldsStmt(q)
    BY <1>2 DEF HoldsStmt, Serves, At, Req
  <2>2. \A q \in Sessions \ {s} : HoldsStmt(s)' /\ HoldsStmt(q)' => FALSE
    BY <2>1 DEF Inv, OneHolder, StmtFree, Others
  <2> QED
    BY <2>1, <2>2 DEF Inv, OneHolder
<1>12. OneDeleter'
  <2>1. \A q \in Sessions \ {s}, l \in Lines : Deletes(q, l)' => Deletes(q, l)
    BY <1>2 DEF Deletes, Serves, At, Req
  <2>2. \A q \in Sessions \ {s}, l \in Lines : ~(Deletes(s, l)' /\ Deletes(q, l)')
    BY <2>1 DEF Inv, OneDeleter, Others
  <2> QED
    BY <2>1, <2>2 DEF Inv, OneDeleter
<1>8. HoldersFindOpen'
  BY <1>2, <1>3 DEF Inv, HoldersFindOpen, FoundOpen, Serves, At, Req
<1>9. ASSUME NEW q \in Sessions PROVE MatchFits(q)'
  <2>1. CASE q = s
    BY <2>1
  <2>2. CASE q # s
    <3>1. sess'[q] = sess[q] /\ MatchFits(q)
      BY <1>2, <2>2 DEF Inv
    <3>2. CASE ~(Serves(q, "match") /\ At(q, "commit"))
      BY <1>3, <3>1, <3>2 DEF MatchFits, Serves, At, Req
    <3>3. CASE Serves(q, "match") /\ At(q, "commit")
      <4>1. PICK l \in Lines : l = Req(q).line
        BY <1>3, <3>1, <3>3 DEF MatchFits
      <4>2. \A r \in Sessions : ~Deletes(r, l)
        BY <3>1, <3>3, <4>1 DEF MatchFits
      <4>3. SharesLine(q, l) /\ q \in Others(s)
        BY <2>2, <3>3, <4>1 DEF SharesLine, Others
      <4>4. ~Deletes(s, l)'
        BY <4>2, <4>3
      <4>5. \A r \in Sessions \ {s} : Deletes(r, l)' => Deletes(r, l)
        BY <1>2 DEF Deletes, Serves, At, Req
      <4>6. \A r \in Sessions : ~Deletes(r, l)'
        BY <4>2, <4>4, <4>5
      <4>7. (Req(q).line)' = l
        BY <3>1, <4>1 DEF Req
      <4>8. \A r \in Sessions : ~Deletes(r, Req(q).line)'
        BY <4>6, <4>7 DEF Deletes
      <4> QED
        BY <1>3, <3>1, <4>8 DEF MatchFits, Serves, At, Req
    <3> QED
      BY <3>2, <3>3
  <2> QED
    BY <2>1, <2>2
<1>10. OneToOne'
  BY <1>3 DEF Inv, OneToOne
<1>11. LocksTie'
  BY <1>2, <1>3 DEF Inv, LocksTie, Undisturbed, Ties, Serves, At, Req
<1> QED
  BY <1>4, <1>5, <1>6, <1>7, <1>8, <1>9, <1>10, <1>11, <1>12 DEF Inv

LEMMA QuitKeeps ==
  ASSUME Inv, NEW s \in Sessions, Quit(s)
  PROVE  Inv'
<1>1. sess \in [Sessions -> Session] /\ UNCHANGED Tables
  BY DEF Inv, Types, Quit
<1> DEFINE new == [Idle EXCEPT !.at = "done"]
<1>2. new \in Session /\ new.at = "done" /\ new.frees = FALSE
  BY DEF Session, Idle, Labels
<1>3. sess' = [sess EXCEPT ![s] = new]
  BY DEF Quit
<1>4. sess'[s].at = "done" /\ sess'[s].frees = FALSE
  BY <1>1, <1>2, <1>3
<1> HIDE DEF new
<1> QED
  BY <1>1, <1>2, <1>3, <1>4, SessionStep DEF Live, HoldsStmt, FoundOpen, Serves, At, MatchFits, Deletes

\* Session s has passed a statement of its call, and now stands at label.
LEMMA GotoKeeps ==
  ASSUME Inv, NEW s \in Sessions, NEW label \in Labels \ {"idle", "done", "begin"},
         Live(s), Goto(s, label), UNCHANGED Tables, Placed(Req(s).op, label),
         sess[s].frees = TRUE => label = "commit",
         \/ Req(s).op \in {"reverse", "discard"} \/ label = "held"
         \/ HoldsStmt(s) \/ StmtFree(s),
         Req(s).op \in {"match", "unmatch", "lock"} /\ label # "held" => stmt.status = "open",
         Req(s).op = "match" =>
           /\ label \in {"insert", "commit"} => Movement[Req(s).entry] = Amount[Req(s).line]
           /\ label = "commit" =>
                /\ Req(s).line \in lines
                /\ \A m \in matches : m.line # Req(s).line /\ m.entry # Req(s).entry
                /\ \A q \in Sessions : ~Deletes(q, Req(s).line),
         Req(s).op = "discard" =>
           \/ ~At(s, "begin")
           \/ \A q \in Others(s), l \in Staged : ~SharesLine(q, l) /\ ~Deletes(q, l),
         Req(s).op = "lock" /\ label = "commit" /\ Undisturbed => Ties(matches)
  PROVE  Inv'
<1>1. /\ sess \in [Sessions -> Session] /\ Req(s) \in Calls
      /\ sess[s].frees = TRUE => Req(s).op = "reverse"
  BY DEF Inv, Types, CallsAreKnown, CallsAreInPlace, Serves
<1> DEFINE new == [sess[s] EXCEPT !.at = label]
<1>2. new \in Session /\ new.at = label /\ new.call = sess[s].call /\ new.frees = sess[s].frees
  BY <1>1 DEF Session
<1>3. sess' = [sess EXCEPT ![s] = new]
  BY DEF Goto
<1>4. sess'[s] = new /\ \A q \in Sessions \ {s} : sess'[q] = sess[q]
  BY <1>1, <1>3
<1>5. /\ entry' = entry /\ lines' = lines /\ stmt' = stmt /\ matches' = matches
  BY DEF Tables
<1> HIDE DEF new
<1>6. Live(s)' /\ Req(s)' = Req(s)
  BY <1>2, <1>4 DEF Live, Req
<1>7. /\ sess'[s].frees = TRUE => Serves(s, "reverse")' /\ sess'[s].at \in {"free", "commit"}
      /\ Placed(Req(s).op, sess[s].at)' /\ ~At(s, "begin")'
  BY <1>1, <1>2, <1>4, <1>6 DEF Serves, Req, At, Live, Placed
<1>8. HoldsStmt(s)' => HoldsStmt(s) \/ StmtFree(s)
  <2>1. sess[s].at \notin {"idle", "done"}
    BY DEF Live
  <2>2. CASE Req(s).op \in {"reverse", "discard"}
    BY <1>2, <1>4, <1>6, <2>2 DEF HoldsStmt, Serves
  <2>3. CASE label = "held" /\ Req(s).op \notin {"reverse", "discard"}
    <3>1. Req(s).op \notin {"match", "lock", "reopen", "open"} /\ sess[s].frees # TRUE
      BY <1>1, <2>3 DEF Placed
    <3> QED
      BY <1>1, <1>2, <1>4, <1>6, <2>3, <3>1 DEF HoldsStmt, Serves, At, Session
  <2> QED
    BY <2>2, <2>3
<1>9. FoundOpen(s)' => stmt.status = "open"
  BY <1>2, <1>4, <1>6 DEF FoundOpen, Serves, At, Placed
<1>10. MatchFits(s)'
  <2>1. CASE Req(s).op = "match"
    <3>1. label = "commit" => \A q \in Sessions : ~Deletes(q, Req(s).line)'
      <4>1. PICK l : l = Req(s).line
        OBVIOUS
      <4>2. \A q \in Sessions : Deletes(q, l)' => Deletes(q, l)
        BY <1>1, <1>2, <1>4, <1>6, <2>1 DEF Deletes, Serves, At, Req
      <4>3. (Req(s).line)' = l
        BY <1>6, <4>1
      <4>4. label = "commit" => \A q \in Sessions : ~Deletes(q, l)'
        BY <2>1, <4>1, <4>2
      <4> QED
        BY <4>3, <4>4 DEF Deletes
    <3> QED
      BY <1>2, <1>4, <1>5, <1>6, <2>1, <3>1 DEF MatchFits, At
  <2>2. CASE Req(s).op # "match"
    BY <1>6, <2>2 DEF MatchFits, Serves
  <2> QED
    BY <2>1, <2>2
<1>11. \A l \in Lines : Deletes(s, l)' =>
         Deletes(s, l) \/ \A q \in Others(s) : ~SharesLine(q, l) /\ ~Deletes(q, l)
  BY <1>2, <1>4, <1>6 DEF Deletes, Serves, At, Live
<1>12. Undisturbed /\ Serves(s, "lock")' /\ At(s, "commit")' => Ties(matches)
  BY <1>2, <1>4, <1>6 DEF Serves, At
<1> QED
  BY <1>1, <1>2, <1>3, <1>6, <1>7, <1>8, <1>9, <1>10, <1>11, <1>12, SessionStep

\* A session begins its call, or is ready for the next.
LEMMA BeginKeeps ==
  ASSUME Inv, NEW s \in Sessions, Again(s) \/ \E c \in Calls : Begin(s, c)
  PROVE  Inv'
<1>1. PICK at \in {"idle", "begin"}, call \in Calls \cup {None} :
        /\ sess' = [sess EXCEPT ![s] = [at |-> at, call |-> call, frees |-> FALSE, gone |-> {}]]
        /\ at = "begin" => call \in Calls
        /\ UNCHANGED Tables
  BY ZenonT(40) DEF Again, Begin, Idle
<1> DEFINE new == [at |-> at, call |-> call, frees |-> FALSE, gone |-> {}]
<1>2. /\ new \in Session /\ new.at = at /\ new.call = call /\ new.frees = FALSE
      /\ new.gone = {}
  BY DEF Session, Labels
<1>3. sess' = [sess EXCEPT ![s] = new] /\ sess \in [Sessions -> Session]
  BY <1>1 DEF Inv, Types
<1> HIDE DEF new
<1>4. sess'[s] = new
  BY <1>3
<1>5. Live(s)' => Req(s)' \in Calls
  BY <1>1, <1>2, <1>4 DEF Live, Req
<1>6. sess'[s].frees # TRUE /\ ~HoldsStmt(s)'
  BY <1>2, <1>4 DEF HoldsStmt, Serves, At
<1>7. ~FoundOpen(s)' /\ sess'[s].gone = {} /\ (Live(s)' => Placed(Req(s).op, sess[s].at)')
  BY <1>1, <1>2, <1>4 DEF FoundOpen, Serves, At, Live, Placed
<1>8. MatchFits(s)' /\ (\A l \in Lines : ~Deletes(s, l)') /\ ~At(s, "commit")'
  BY <1>1, <1>2, <1>4 DEF MatchFits, Deletes, Serves, At
<1> QED
  BY <1>1, <1>2, <1>3, <1>5, <1>6, <1>7, <1>8, SessionStep

\* A session that waits for nobody and is about to take the statement finds it free.
LEMMA WaitedOut ==
  ASSUME NEW s \in Sessions, ~Waits(s), WantsStmt(s)
  PROVE  StmtFree(s)
BY DEF Waits, WaitsFor, StmtFree

LEMMA MatchKeeps ==
  ASSUME Inv, NEW s \in Sessions, ~Waits(s), MatchLocks(s) \/ MatchReads(s) \/ MatchInserts(s)
  PROVE  Inv'
<1>1. Live(s) /\ Req(s).op = "match" /\ sess[s].frees # TRUE
  BY DEF MatchLocks, MatchReads, MatchInserts, Serves, Live, Inv, CallsAreInPlace
<1>2. CASE Quit(s)
  BY <1>2, QuitKeeps
<1>3. CASE MatchLocks(s) /\ ~Quit(s)
  <2>1. stmt.status = "open" /\ StmtFree(s) /\ Goto(s, "read") /\ UNCHANGED Tables
    BY <1>1, <1>3, WaitedOut DEF MatchLocks, WantsStmt, Inv, Types, StatementRow
  <2> QED
    BY <1>1, <2>1, GotoKeeps DEF Labels, Placed
<1>4. CASE (MatchReads(s) \/ MatchInserts(s)) /\ ~Quit(s)
  <2>1. HoldsStmt(s) /\ stmt.status = "open"
    BY <1>4 DEF MatchReads, MatchInserts, Serves, At, HoldsStmt, Inv, HoldersFindOpen, FoundOpen
  <2>2. CASE MatchReads(s)
    <3>1. Movement[Req(s).entry] = Amount[Req(s).line] /\ Goto(s, "insert") /\ UNCHANGED Tables
      BY <1>4, <2>2 DEF MatchReads
    <3> QED
      BY <1>1, <2>1, <3>1, GotoKeeps DEF Labels, Placed
  <2>3. CASE MatchInserts(s)
    <3>1. /\ Req(s).line \in lines /\ Goto(s, "commit") /\ UNCHANGED Tables
          /\ Clash(s) = {} /\ At(s, "insert")
      BY <1>4, <2>3 DEF MatchInserts
    <3>5. \A m \in matches : m.line # Req(s).line /\ m.entry # Req(s).entry
      BY <3>1 DEF Clash
    <3>6. \A q \in Others(s) : ~Deletes(q, Req(s).line)
      BY <3>1 DEF Waits, WaitsFor
    <3>2. Movement[Req(s).entry] = Amount[Req(s).line]
      BY <2>3 DEF MatchInserts, Inv, MatchFits, At
    <3>3. ~Deletes(s, Req(s).line)
      BY <2>3 DEF MatchInserts, Deletes, Serves
    <3>4. \A q \in Sessions : ~Deletes(q, Req(s).line)
      BY <3>3, <3>6 DEF Others
    <3> QED
      BY <1>1, <2>1, <3>1, <3>2, <3>4, <3>5, GotoKeeps DEF Labels, Placed
  <2> QED
    BY <1>4, <2>2, <2>3
<1> QED
  BY <1>2, <1>3, <1>4

\* The calls that change the statement itself, and the unmatch.
LEMMA StatementKeeps ==
  ASSUME Inv, NEW s \in Sessions, ~Waits(s),
         \/ UnmatchLocks(s) \/ Unmatch(s)
         \/ LockLocks(s) \/ LockSums(s) \/ Reopen(s) \/ OpenSession(s)
  PROVE  Inv'
<1>1. CASE Quit(s)
  BY <1>1, QuitKeeps
<1>2. stmt.status \in {"open", "locked"} /\ (sess[s].frees = TRUE => Req(s).op = "reverse")
  BY DEF Inv, Types, StatementRow, CallsAreInPlace, Serves
<1>3. CASE UnmatchLocks(s) /\ ~Quit(s)
  <2>1. Goto(s, "held") /\ UNCHANGED Tables /\ Live(s) /\ Req(s).op = "unmatch"
    BY <1>3 DEF UnmatchLocks, Serves, Live
  <2> QED
    BY <1>2, <2>1, GotoKeeps DEF Labels, Placed
<1>4. CASE Unmatch(s) /\ ~Quit(s)
  <2>1. /\ stmt.status = "open" /\ StmtFree(s) /\ Goto(s, "commit") /\ UNCHANGED Tables
        /\ Live(s) /\ Req(s).op = "unmatch"
    BY <1>2, <1>4, WaitedOut DEF Unmatch, WantsStmt, Serves, Live
  <2> QED
    BY <1>2, <2>1, GotoKeeps DEF Labels, Placed
<1>5. CASE LockLocks(s) /\ ~Quit(s)
  <2>1. /\ stmt.status = "open" /\ StmtFree(s) /\ Goto(s, "sum") /\ UNCHANGED Tables
        /\ Live(s) /\ Req(s).op = "lock"
    BY <1>2, <1>5, WaitedOut DEF LockLocks, WantsStmt, Serves, Live
  <2> QED
    BY <1>2, <2>1, GotoKeeps DEF Labels, Placed
<1>6. CASE LockSums(s) /\ ~Quit(s)
  <2>1. /\ HoldsStmt(s) /\ Goto(s, "commit") /\ UNCHANGED Tables /\ Live(s) /\ Req(s).op = "lock"
        /\ Ties(matches)
    BY <1>6 DEF LockSums, Serves, Live, HoldsStmt, At
  <2>2. stmt.status = "open"
    BY <1>6 DEF LockSums, At, Inv, HoldersFindOpen, FoundOpen
  <2> QED
    BY <1>2, <2>1, <2>2, GotoKeeps DEF Labels, Placed
<1>7. CASE (Reopen(s) \/ OpenSession(s)) /\ ~Quit(s)
  <2>1. /\ Goto(s, "commit") /\ UNCHANGED Tables /\ Live(s) /\ WantsStmt(s)
        /\ Req(s).op \in {"reopen", "open"}
    BY <1>2, <1>7 DEF Reopen, OpenSession, WantsStmt, Serves, Live
  <2> QED
    BY <1>2, <2>1, WaitedOut, GotoKeeps DEF Labels, Placed
<1> QED
  BY <1>1, <1>3, <1>4, <1>5, <1>6, <1>7

LEMMA OutsideKeeps ==
  ASSUME Inv, NEW s \in Sessions, ~Waits(s),
         \/ ReverseLocks(s) \/ ReverseUnlocks(s) \/ ReverseFrees(s)
         \/ Discard(s) \/ DiscardCascades(s) \/ DiscardEnds(s)
  PROVE  Inv'
<1>1. CASE Quit(s)
  BY <1>1, QuitKeeps
<1>2. CASE ReverseLocks(s) /\ ~Quit(s)
  <2>1. Goto(s, "unlock") /\ UNCHANGED Tables /\ Live(s) /\ Req(s).op = "reverse" /\ At(s, "begin")
    BY <1>2 DEF ReverseLocks, Serves, Live
  <2>2. sess[s].frees # TRUE
    BY <2>1 DEF Inv, CallsAreInPlace, At
  <2> QED
    BY <2>1, <2>2, GotoKeeps DEF Labels, Placed
<1>3. CASE ReverseFrees(s)
  <2>1. Goto(s, "commit") /\ UNCHANGED Tables /\ Live(s) /\ Req(s).op = "reverse"
    BY <1>3 DEF ReverseFrees, Serves, Live
  <2> QED
    BY <2>1, GotoKeeps DEF Labels, Placed
<1>4. CASE Discard(s)
  <2>1. /\ Goto(s, "cascade") /\ UNCHANGED Tables /\ Live(s) /\ Req(s).op = "discard"
        /\ At(s, "begin")
    BY <1>4 DEF Discard, Serves, Live
  <2>2. \A q \in Others(s), l \in Staged : ~SharesLine(q, l) /\ ~Deletes(q, l)
    BY <2>1 DEF Waits, WaitsFor
  <2>3. sess[s].frees # TRUE
    BY <2>1 DEF Inv, CallsAreInPlace, At
  <2> QED
    BY <2>1, <2>2, <2>3, GotoKeeps DEF Labels, Placed
<1>6. CASE DiscardEnds(s)
  <2>1. /\ Goto(s, "commit") /\ UNCHANGED Tables /\ Live(s) /\ Req(s).op = "discard"
        /\ ~At(s, "begin")
    BY <1>6 DEF DiscardEnds, Serves, Live, At
  <2> QED
    BY <2>1, GotoKeeps DEF Labels, Placed
<1>7. CASE DiscardCascades(s)
  <2>1. /\ sess \in [Sessions -> Session] /\ Live(s) /\ Req(s) \in Calls /\ matches \subseteq Match
        /\ Req(s).op = "discard" /\ At(s, "cascade") /\ Cascade(s) # {} /\ UNCHANGED Tables
        /\ sess[s].frees # TRUE
    BY <1>7 DEF DiscardCascades, Serves, Live, At, Inv, Types, CallsAreKnown, CallsAreInPlace
  <2>2. PICK l \in Lines : sess' = [sess EXCEPT ![s].gone = @ \cup {l}]
    <3> DEFINE m == CHOOSE n \in Cascade(s) : TRUE
    <3>1. m \in Cascade(s)
      BY <2>1
    <3>2. m.line \in Lines
      BY <2>1, <3>1 DEF Cascade, Match
    <3> QED
      BY <1>7, <3>2 DEF DiscardCascades
  <2> DEFINE new == [sess[s] EXCEPT !.gone = @ \cup {l}]
  <2>3. new \in Session /\ new.at = "cascade" /\ new.call = sess[s].call /\ new.frees = sess[s].frees
    BY <2>1 DEF Session, At
  <2>4. sess' = [sess EXCEPT ![s] = new]
    BY <2>2
  <2> HIDE DEF new
  <2>5. sess'[s] = new /\ Req(s)' = Req(s) /\ At(s, "cascade")'
    BY <2>1, <2>3, <2>4 DEF Req, At
  <2>6. ~FoundOpen(s)' /\ ~HoldsStmt(s)' /\ ~At(s, "begin")' /\ ~Serves(s, "lock")'
    BY <2>1, <2>3, <2>5 DEF FoundOpen, HoldsStmt, Serves, At
  <2>7. MatchFits(s)' /\ \A k \in Lines : Deletes(s, k)' => Deletes(s, k)
    BY <2>1, <2>5 DEF MatchFits, Deletes, Serves, At
  <2>8. Live(s)' => Req(s)' \in Calls /\ Placed(Req(s).op, sess[s].at)'
    BY <2>1, <2>3, <2>5 DEF Placed
  <2> QED
    BY <2>1, <2>3, <2>4, <2>5, <2>6, <2>7, <2>8, SessionStep
<1>5. CASE ReverseUnlocks(s)
  <2>1. /\ sess \in [Sessions -> Session] /\ Live(s) /\ Req(s) \in Calls
        /\ Req(s).op = "reverse" /\ UNCHANGED Tables
    BY <1>5 DEF ReverseUnlocks, Serves, Live, Inv, Types, CallsAreKnown
  <2>2. PICK hit \in BOOLEAN : /\ sess' = [sess EXCEPT ![s].at = "free", ![s].frees = hit]
                               /\ hit = TRUE => StmtFree(s)
    <3>1. HitsLocked(s) \in BOOLEAN /\ (HitsLocked(s) => WantsStmt(s))
      BY <1>5 DEF ReverseUnlocks, HitsLocked, WantsStmt
    <3> QED
      BY <1>5, <3>1, WaitedOut DEF ReverseUnlocks
  <2> DEFINE new == [sess[s] EXCEPT !.at = "free", !.frees = hit]
  <2>3. new \in Session /\ new.at = "free" /\ new.call = sess[s].call /\ new.frees = hit
    BY <2>1 DEF Session, Labels
  <2>4. sess' = [sess EXCEPT ![s] = new]
    BY <2>2
  <2> HIDE DEF new
  <2>5. sess'[s] = new /\ Req(s)' = Req(s)
    BY <2>1, <2>3, <2>4 DEF Req
  <2>6. Serves(s, "reverse")'
    BY <2>1, <2>3, <2>5 DEF Serves
  <2>7. ~Serves(s, "match")' /\ ~FoundOpen(s)' /\ ~Serves(s, "lock")' /\ At(s, "free")'
    BY <2>1, <2>3, <2>5 DEF FoundOpen, Serves, At
  <2>8. HoldsStmt(s)' => StmtFree(s)
    BY <2>1, <2>2, <2>3, <2>5 DEF HoldsStmt, Serves
  <2>9. MatchFits(s)' /\ \A l \in Lines : ~Deletes(s, l)'
    BY <2>1, <2>5, <2>7 DEF MatchFits, Deletes, Serves
  <2>10. /\ Live(s)' => Req(s)' \in Calls /\ Placed(Req(s).op, sess[s].at)'
         /\ ~At(s, "begin")' /\ ~At(s, "commit")' /\ sess'[s].at = "free"
    BY <2>1, <2>3, <2>5, <2>7 DEF Placed, At
  <2> QED
    BY <2>1, <2>3, <2>4, <2>6, <2>7, <2>8, <2>9, <2>10, SessionStep
<1> QED
  BY <1>1, <1>2, <1>3, <1>4, <1>5, <1>6, <1>7

\* What a commit writes, call by call.
LEMMA CommitWrites ==
  ASSUME Inv, NEW s \in Sessions, Commit(s)
  PROVE  /\ Req(s) \in Calls /\ Live(s)
         /\ Req(s).op # "reverse" => entry' = entry
         /\ Req(s).op = "reverse" => entry' = [entry EXCEPT ![Req(s).entry] = "reversed"]
         /\ Req(s).op # "discard" => lines' = lines
         /\ Req(s).op = "discard" => lines' = lines \ Staged
         /\ Req(s).op \in {"lock", "reopen", "open"} => matches' = matches
         /\ Req(s).op = "match" =>
              matches' = matches \cup {Target(s)}
         /\ Req(s).op = "unmatch" => matches' \subseteq matches
         /\ Req(s).op = "reverse" => matches' = {x \in matches : x.entry # Req(s).entry}
         /\ Req(s).op = "discard" => matches' = {x \in matches : x.line \notin Staged}
         /\ Req(s).op = "lock" => stmt' = [stmt EXCEPT !.status = "locked"]
         /\ Req(s).op = "reopen" => stmt' = [stmt EXCEPT !.status = "open"]
         /\ Req(s).op = "open" =>
              \/ stmt.status = "open" /\ stmt' = [stmt EXCEPT !.closing = Req(s).closing]
              \/ stmt' = stmt
         /\ Req(s).op = "reverse" => stmt' = stmt \/ stmt' = [stmt EXCEPT !.status = "open"]
         /\ Req(s).op \in {"match", "unmatch", "discard"} => stmt' = stmt
<1>1. Live(s) /\ Req(s) \in Calls /\ Req(s).op \in Ops
  BY ReconcileAssumption DEF Commit, At, Live, Inv, CallsAreKnown, Call
<1>2. sess[s].frees \in BOOLEAN /\ (sess[s].frees = TRUE => Req(s).op = "reverse")
  BY DEF Inv, Types, Session, CallsAreInPlace, Serves
<1>3. /\ Req(s).op # "reverse" => entry' = entry
      /\ Req(s).op = "reverse" => entry' = [entry EXCEPT ![Req(s).entry] = "reversed"]
      /\ Req(s).op # "discard" => lines' = lines
      /\ Req(s).op = "discard" => lines' = lines \ Staged
  BY DEF Commit
<1>4. /\ Req(s).op \in {"lock", "reopen", "open"} => matches' = matches
      /\ Req(s).op = "match" =>
           matches' = matches \cup {Target(s)}
      /\ Req(s).op = "unmatch" => matches' \subseteq matches
      /\ Req(s).op = "reverse" => matches' = {x \in matches : x.entry # Req(s).entry}
      /\ Req(s).op = "discard" => matches' = {x \in matches : x.line \notin Staged}
  BY DEF Commit
<1>5. CASE sess[s].frees = TRUE
  BY <1>1, <1>2, <1>3, <1>4, <1>5 DEF Commit
<1>6. CASE sess[s].frees = FALSE
  <2>1. stmt' = CASE Req(s).op = "lock"   -> [stmt EXCEPT !.status = "locked"]
                  [] Req(s).op = "reopen" -> [stmt EXCEPT !.status = "open"]
                  [] Req(s).op = "open" /\ stmt.status = "open" ->
                       [stmt EXCEPT !.closing = Req(s).closing]
                  [] OTHER -> stmt
    BY <1>6 DEF Commit
  <2> QED
    BY <1>1, <1>3, <1>4, <2>1
<1> QED
  BY <1>2, <1>5, <1>6

\* A match or an unmatch that commits finds the statement open, and whoever
\* writes the statement or adds a match holds it, so that nobody else does.
LEMMA CommitAlone ==
  ASSUME Inv, NEW s \in Sessions, Commit(s)
  PROVE  /\ Req(s).op \in {"match", "unmatch"} => stmt.status = "open"
         /\ Req(s).op \in {"match", "unmatch", "lock", "reopen", "open"} =>
              \A q \in Sessions \ {s} : ~HoldsStmt(q)
<1>1. Live(s) /\ ~At(s, "begin") /\ At(s, "commit")
  BY DEF Commit, At, Live
<1>2. Req(s).op \in {"match", "unmatch", "lock", "reopen", "open"} => HoldsStmt(s)
  BY <1>1 DEF HoldsStmt, Serves, Live
<1>3. Req(s).op \in {"match", "unmatch"} => stmt.status = "open"
  BY <1>1 DEF Inv, HoldersFindOpen, FoundOpen, Serves, Live
<1> QED
  BY <1>2, <1>3 DEF Inv, OneHolder

LEMMA CommitTypes ==
  ASSUME Inv, NEW s \in Sessions, Commit(s)
  PROVE  Types' /\ OneToOne'
<1>1. /\ Types /\ Req(s) \in Call
      /\ Req(s).op = "match" => Req(s).line \in Lines
      /\ Req(s).op \in {"match", "reverse"} => Req(s).entry \in Entries
  BY CommitWrites, ReconcileAssumption DEF Inv
<1>2. Req(s).op \in Ops /\ Req(s).closing \in Balances
  BY <1>1 DEF Call
<1>3. entry' \in [Entries -> EntryStatus] /\ lines' \subseteq lines /\ lines' \subseteq Lines
  BY <1>1, <1>2, CommitWrites DEF Types, EntryStatus, Ops
<1>4. stmt' \in StatementRow
  BY <1>1, <1>2, CommitWrites DEF Types, StatementRow, Ops
<1>5. matches' \subseteq Match
  BY <1>1, <1>2, CommitWrites DEF Types, Match, Ops, Target
<1>6. sess' \in [Sessions -> Session]
  <2>1. [Idle EXCEPT !.at = "done"] \in Session
    BY DEF Idle, Session, Labels
  <2> QED
    BY <1>1, <2>1 DEF Commit, Types
<1>7. OneToOne'
  <2>1. CASE Req(s).op = "match"
    <3> DEFINE pair == Target(s)
    <3>1. matches' = matches \cup {pair} /\ lines' = lines
      BY <2>1, CommitWrites
    <3>2. /\ Movement[Req(s).entry] = Amount[Req(s).line] /\ Req(s).line \in lines
          /\ \A m \in matches : m.line # Req(s).line /\ m.entry # Req(s).entry
      <4>1. Serves(s, "match") /\ At(s, "commit") /\ MatchFits(s)
        BY <2>1 DEF Commit, At, Serves, Inv
      <4> QED
        BY <4>1 DEF MatchFits, At
    <3>3. pair.line = Req(s).line /\ pair.entry = Req(s).entry
      BY DEF Target
    <3> HIDE DEF pair
    <3> QED
      BY <3>1, <3>2, <3>3 DEF Inv, OneToOne
  <2>2. CASE Req(s).op = "discard"
    BY <2>2, CommitWrites DEF Inv, OneToOne
  <2>3. CASE Req(s).op \notin {"match", "discard"}
    <3>1. matches' \subseteq matches /\ lines' = lines
      BY <1>2, <2>3, CommitWrites DEF Ops
    <3> QED
      BY <3>1 DEF Inv, OneToOne
  <2> QED
    BY <2>1, <2>2, <2>3
<1> QED
  BY <1>3, <1>4, <1>5, <1>6, <1>7 DEF Types

LEMMA CommitKeeps ==
  ASSUME Inv, NEW s \in Sessions, Commit(s)
  PROVE  Inv'
<1>1. /\ sess' = [sess EXCEPT ![s] = [Idle EXCEPT !.at = "done"]] /\ sess \in [Sessions -> Session]
      /\ Req(s) \in Call
  BY CommitWrites, ReconcileAssumption DEF Commit, Inv, Types
<1>2. /\ sess'[s].at = "done" /\ sess'[s].frees = FALSE
      /\ \A q \in Sessions \ {s} : sess'[q] = sess[q]
  BY <1>1 DEF Idle
<1>3. Req(s).op \in Ops
  BY <1>1 DEF Call
<1>4. Types' /\ OneToOne'
  BY CommitTypes
<1>5. CallsAreKnown'
  BY <1>2 DEF Inv, CallsAreKnown, Live, Req
<1>6. CallsAreInPlace'
  BY <1>2 DEF Inv, CallsAreInPlace, Live, Serves, At, Req
<1>7. /\ ~HoldsStmt(s)'
      /\ \A q \in Sessions \ {s} : HoldsStmt(q)' => HoldsStmt(q)
  BY <1>2 DEF HoldsStmt, Serves, At, Req
<1>8. OneHolder'
  BY <1>7 DEF Inv, OneHolder
<1>12. OneDeleter'
  BY <1>2 DEF Inv, OneDeleter, Deletes, Serves, At, Req
<1>9. HoldersFindOpen'
  <2> SUFFICES ASSUME NEW q \in Sessions \ {s}, FoundOpen(q)'
               PROVE  stmt'.status = "open"
    BY <1>2 DEF HoldersFindOpen, FoundOpen, Serves
  <2>1. stmt.status = "open" /\ HoldsStmt(q)
    BY <1>2 DEF Inv, HoldersFindOpen, FoundOpen, Serves, At, Req, HoldsStmt
  <2>2. Req(s).op # "lock"
    BY <2>1, CommitAlone
  <2>3. stmt \in StatementRow
    BY DEF Inv, Types
  <2> QED
    BY <1>3, <2>1, <2>2, <2>3, CommitWrites DEF Ops, StatementRow
<1>10. ASSUME NEW q \in Sessions PROVE MatchFits(q)'
  <2>1. CASE q = s
    BY <1>2, <2>1 DEF MatchFits, Serves
  <2>2. CASE q # s
    <3>1. sess'[q] = sess[q] /\ MatchFits(q)
      BY <1>2, <2>2 DEF Inv
    <3>2. CASE ~(Serves(q, "match") /\ At(q, "commit"))
      BY <3>1, <3>2 DEF MatchFits, Serves, At, Req
    <3>3. CASE Serves(q, "match") /\ At(q, "commit")
      <4>1. PICK l \in lines : l = Req(q).line
        BY <3>1, <3>3 DEF MatchFits
      <4>2. \A r \in Sessions : ~Deletes(r, l)
        BY <3>1, <3>3, <4>1 DEF MatchFits
      <4>3. \A r \in Sessions : ~Deletes(r, l)'
        BY <1>2, <4>2 DEF Deletes, Serves, At, Req
      <4>4. l \in lines'
        <5>1. Req(s).op = "discard" => l \notin Staged
          BY <4>2 DEF Deletes, Serves, Commit, At
        <5> QED
          BY <4>1, <5>1, CommitWrites
      <4>5. HoldsStmt(q)
        BY <3>3 DEF HoldsStmt, At
      <4>6. matches' \subseteq matches
        <5>1. Req(s).op # "match"
          BY <2>2, <4>5, CommitAlone
        <5> QED
          BY <1>3, <5>1, CommitWrites DEF Ops
      <4>7. Req(q)' = Req(q) /\ (Req(q).line)' = l
        BY <3>1, <4>1 DEF Req
      <4>8. \A r \in Sessions : ~Deletes(r, Req(q).line)'
        BY <4>3, <4>7 DEF Deletes
      <4> QED
        BY <3>1, <3>3, <4>1, <4>4, <4>6, <4>7, <4>8 DEF MatchFits, Serves, At
    <3> QED
      BY <3>2, <3>3
  <2> QED
    BY <2>1, <2>2
<1>11. LocksTie'
  <2> SUFFICES ASSUME Undisturbed'
               PROVE  /\ stmt'.status = "locked" => Ties(matches)'
                      /\ \A q \in Sessions : (Serves(q, "lock") /\ At(q, "commit"))' => Ties(matches)'
    BY DEF LocksTie
  <2>1. Req(s).op # "reverse"
    <3>1. entry \in [Entries -> EntryStatus] /\ (Req(s).op = "reverse" => Req(s).entry \in Entries)
      BY CommitWrites, ReconcileAssumption DEF Inv, Types
    <3> QED
      BY <3>1, CommitWrites DEF Undisturbed
  <2>2. Undisturbed /\ (Req(s).op = "discard" => matches' = matches)
    <3>1. lines \subseteq Lines /\ lines' = Lines /\ Staged \subseteq Lines
      BY ReconcileAssumption DEF Inv, Types, Undisturbed
    <3>2. lines = Lines /\ (Req(s).op = "discard" => Staged = {})
      BY <3>1, CommitWrites
    <3> QED
      BY <2>1, <3>2, CommitWrites DEF Undisturbed
  <2>3. stmt \in StatementRow
    BY DEF Inv, Types
  <2>4. \A q \in Sessions : (Serves(q, "lock") /\ At(q, "commit"))' =>
           q # s /\ Serves(q, "lock") /\ At(q, "commit") /\ HoldsStmt(q)
    BY <1>2 DEF Serves, At, Req, HoldsStmt
  <2>5. CASE Req(s).op \in {"match", "unmatch"}
    BY <2>4, <2>5, CommitAlone, CommitWrites
  <2>6. CASE Req(s).op = "lock"
    <3>1. Ties(matches)
      BY <2>2, <2>6 DEF Inv, LocksTie, Commit, Serves, At
    <3>2. matches' = matches /\ stmt'.opening = stmt.opening /\ stmt'.closing = stmt.closing
      BY <2>3, <2>6, CommitWrites DEF StatementRow
    <3> QED
      BY <3>1, <3>2 DEF Ties
  <2>7. CASE Req(s).op \in {"reopen", "open"} /\ stmt' # stmt
    <3>1. stmt'.status = "open"
      BY <2>3, <2>7, CommitWrites DEF StatementRow
    <3> QED
      BY <2>4, <2>7, <3>1, CommitAlone
  <2>8. CASE Req(s).op \in {"reopen", "open", "discard"} /\ stmt' = stmt
    <3>1. matches' = matches /\ stmt' = stmt
      BY <2>2, <2>8, CommitWrites
    <3>2. Ties(matches) => Ties(matches)'
      BY <3>1 DEF Ties
    <3> QED
      BY <2>2, <2>4, <3>1, <3>2 DEF Inv, LocksTie
  <2> QED
    BY <1>3, <2>1, <2>5, <2>6, <2>7, <2>8, CommitWrites DEF Ops
<1> QED
  BY <1>4, <1>5, <1>6, <1>8, <1>9, <1>10, <1>11, <1>12 DEF Inv

LEMMA StepKeeps == Inv /\ [Next]_vars => Inv'
<1> SUFFICES ASSUME Inv, [Next]_vars PROVE Inv'
  OBVIOUS
<1>1. CASE Next
  BY <1>1, BeginKeeps, MatchKeeps, StatementKeeps, OutsideKeeps, CommitKeeps, QuitKeeps
     DEF Next, Step, Statement, DeadlockVictim
<1>2. CASE UNCHANGED vars
  BY <1>2 DEF vars, Inv, Types, CallsAreKnown, Live, Req, CallsAreInPlace, OneHolder, OneDeleter,
     HoldsStmt, HoldersFindOpen, FoundOpen, MatchFits, Deletes, Serves, At, OneToOne, LocksTie, Undisturbed, Ties
<1> QED
  BY <1>1, <1>2

\* Every variable keeps its type, and the statement never has two holders.
THEOREM TypesHold == Spec => []TypeOK
<1>1. Inv => TypeOK
  BY DEF Inv, Types, Session, StatementRow, CallsAreInPlace, OneHolder, TypeOK
<1> QED
  BY InitInv, StepKeeps, <1>1, PTL DEF Spec

\* For any number of sessions and calls in any order: a line clears one entry at
\* most and an entry one line, for the same amount, and no match outlives its line.
THEOREM MatchesAreOneToOne == Spec => []OneToOne
<1>1. Inv => OneToOne
  BY DEF Inv
<1> QED
  BY InitInv, StepKeeps, <1>1, PTL DEF Spec

\* A locked statement ties to the cent, whatever raced its lock, until an entry
\* is reversed or a line deleted.
THEOREM LocksTieUndisturbed == Spec => []UndisturbedTies
<1>1. Inv => UndisturbedTies
  BY DEF Inv, LocksTie, Undisturbed, UndisturbedTies, LockedTies
<1> QED
  BY InitInv, StepKeeps, <1>1, PTL DEF Spec

\* A statement that stays locked loses a match only with its line or its entry,
\* and gains none.
THEOREM LockedStatementsStay == Spec => LockedKeepsMatches
<1> DEFINE Stays == (stmt.status = "locked" /\ stmt'.status = "locked") =>
     /\ matches' \subseteq matches
     /\ \A m \in matches \ matches' : m.line \notin lines' \/ entry'[m.entry] = "reversed"
<1>1. Inv /\ [Next]_vars => [Stays]_vars
  <2> SUFFICES ASSUME Inv, Next, stmt.status = "locked" PROVE Stays
    OBVIOUS
  <2>1. CASE matches' = matches
    BY <2>1
  <2>2. CASE matches' # matches
    <3>1. PICK s \in Sessions : Commit(s)
      <4>1. \A s \in Sessions : Quit(s) => UNCHANGED Tables
        BY DEF Quit
      <4> QED
        BY <2>2, <4>1 DEF Next, Step, Statement, DeadlockVictim, Begin, Again, MatchLocks, MatchReads,
           MatchInserts, UnmatchLocks, Unmatch, LockLocks, LockSums, Reopen, OpenSession,
           ReverseLocks, ReverseUnlocks, ReverseFrees, Discard, DiscardCascades, DiscardEnds, Tables
    <3>2. Req(s).op \in {"reverse", "discard"}
      <4>1. Req(s).op \in Ops
        BY <3>1, CommitWrites, ReconcileAssumption DEF Call
      <4> QED
        BY <2>2, <3>1, <4>1, CommitWrites, CommitAlone DEF Ops
    <3>3. CASE Req(s).op = "discard"
      BY <3>1, <3>3, CommitWrites
    <3>4. CASE Req(s).op = "reverse"
      <4>1. entry \in [Entries -> EntryStatus] /\ matches \subseteq Match
        BY DEF Inv, Types
      <4> QED
        BY <3>1, <3>4, <4>1, CommitWrites DEF Match
    <3> QED
      BY <3>2, <3>3, <3>4
  <2> QED
    BY <2>1, <2>2
<1> QED
  BY InitInv, StepKeeps, <1>1, PTL DEF Spec, LockedKeepsMatches

-----------------------------------------------------------------------------
(* Waiting *)

Rank(at) == CASE at = "commit"         -> 0
              [] at = "cascade"        -> 1
              [] at = "free"           -> 2
              [] at = "unlock"         -> 3
              [] at = "insert"         -> 4
              [] at \in {"read", "sum"} -> 5
              [] OTHER                 -> 6

\* But for an unmatch that holds its match, a call waits for lower ranks only.
LEMMA WaitsGoDown ==
  ASSUME Inv, NEW p \in Sessions, NEW q \in Others(p), WaitsFor(p, q),
         ~At(p, "held"), ~At(q, "held")
  PROVE  Rank(sess[q].at) < Rank(sess[p].at)
<1>1. /\ q \in Sessions /\ q # p /\ stmt \in StatementRow
      /\ sess[p] \in Session /\ sess[q] \in Session
  BY DEF Others, Inv, Types
<1>2. /\ Live(q) => Placed(Req(q).op, sess[q].at) /\ Req(q).op \in Ops
      /\ Live(p) => Placed(Req(p).op, sess[p].at) /\ Req(p).op \in Ops
      /\ sess[q].frees = TRUE => sess[q].at \in {"free", "commit"}
      /\ At(q, "begin") => sess[q].gone = {}
  BY <1>1, ReconcileAssumption DEF Inv, CallsAreKnown, CallsAreInPlace, Call
<1>3. \A m \in matches : Removes(q, m) => sess[q].at \in {"cascade", "commit"}
  BY <1>1, <1>2 DEF Removes, Serves, At, Live, Placed
<1>4. \A m \in matches : HoldsMatch(q, m) => Removes(q, m)
  BY DEF HoldsMatch
<1>5. \A l \in Lines : Deletes(q, l) => sess[q].at \in {"cascade", "commit"}
  BY <1>2 DEF Deletes, Serves, At, Live, Placed
<1>6. \A e : HoldsEntry(q, e) => sess[q].at \in {"unlock", "free", "commit"}
  BY <1>2 DEF HoldsEntry, Serves, At, Live, Placed
<1>7. /\ \A e : SharesEntry(q, e) => sess[q].at = "commit"
      /\ \A l : SharesLine(q, l) => sess[q].at = "commit"
  BY DEF SharesEntry, SharesLine, At
<1>8. /\ HoldsStmt(q) => sess[q].at \in {"read", "insert", "sum", "free", "commit"}
      /\ HoldsStmt(q) /\ stmt.status = "locked" => sess[q].at \in {"free", "commit"}
  <2>1. CASE sess[q].frees = TRUE
    BY <1>2, <2>1
  <2>2. CASE sess[q].frees # TRUE /\ HoldsStmt(q)
    <3>1. Live(q) /\ ~At(q, "begin") /\ Req(q).op \in {"match", "unmatch", "lock", "reopen", "open"}
      BY <1>1, <2>2 DEF HoldsStmt, Serves, At, Live, Session
    <3>2. stmt.status = "locked" => Req(q).op \in {"reopen", "open"}
      BY <1>1, <2>2, <3>1 DEF HoldsStmt, Serves, At, Live, Session, Inv, HoldersFindOpen, FoundOpen
    <3> QED
      BY <1>2, <3>1, <3>2 DEF Placed, At
  <2> QED
    BY <1>1, <2>1, <2>2 DEF HoldsStmt, Session
<1>9. CASE WantsStmt(p) /\ HoldsStmt(q)
  <2>1. At(p, "begin") \/ (At(p, "unlock") /\ stmt.status = "locked")
    BY <1>9 DEF WantsStmt, HitsLocked
  <2> QED
    BY <1>8, <1>9, <2>1 DEF At, Rank
<1>10. CASE \E m \in matches : WantsMatch(p, m) /\ HoldsMatch(q, m)
  <2>1. PICK m \in matches : WantsMatch(p, m) /\ Removes(q, m)
    BY <1>4, <1>10
  <2>2. CASE At(p, "begin") \/ At(p, "free")
    BY <1>3, <2>1, <2>2 DEF At, Rank
  <2>3. CASE At(p, "cascade") /\ m \in Cascade(p)
    <3>1. Serves(p, "discard") /\ m.line \in Staged /\ m.line \in Lines
      BY <1>1, <1>2, <2>3, ReconcileAssumption DEF Cascade, Serves, At, Live, Placed, Ops
    <3>2. Deletes(p, m.line)
      BY <2>3, <3>1 DEF Deletes, At
    <3>3. ~Deletes(q, m.line)
      BY <1>1, <3>1, <3>2 DEF Inv, OneDeleter
    <3>4. ~(Serves(q, "discard") /\ m.line \in sess[q].gone)
      BY <1>2, <3>1, <3>3 DEF Deletes
    <3>5. sess[q].at = "commit"
      BY <2>1, <3>4 DEF Removes, At
    <3> QED
      BY <2>3, <3>5 DEF At, Rank
  <2> QED
    BY <2>1, <2>2, <2>3 DEF WantsMatch
<1>11. CASE At(p, "insert") /\ sess[q].at \in {"cascade", "unlock", "free", "commit"}
  BY <1>11 DEF At, Rank
<1>12. CASE At(p, "begin") /\ sess[q].at \in {"cascade", "unlock", "free", "commit"}
  BY <1>12 DEF At, Rank
<1>13. Clash(p) \subseteq matches /\ Staged \subseteq Lines
  BY ReconcileAssumption DEF Clash
<1>14. CASE /\ At(p, "insert")
            /\ IF Clash(p) # {} THEN \E m \in Clash(p) : Removes(q, m)
               ELSE HoldsEntry(q, Req(p).entry) \/ Deletes(q, Req(p).line)
  <2>1. Deletes(q, Req(p).line) => sess[q].at \in {"cascade", "commit"}
    BY <1>2 DEF Deletes, Serves, At, Live, Placed
  <2> QED
    BY <1>3, <1>6, <1>11, <1>13, <1>14, <2>1
<1>15. CASE /\ At(p, "begin") /\ Req(p).op = "reverse"
            /\ HoldsEntry(q, Req(p).entry) \/ SharesEntry(q, Req(p).entry)
  BY <1>6, <1>7, <1>12, <1>15
<1>16. CASE /\ At(p, "begin") /\ Req(p).op = "discard"
            /\ \E l \in Staged : SharesLine(q, l) \/ Deletes(q, l)
  BY <1>5, <1>7, <1>12, <1>13, <1>16
<1> QED
  BY <1>9, <1>10, <1>14, <1>15, <1>16 DEF WaitsFor

\* Whoever waits for one another in a cycle waits, in the end, for an unmatch
\* that holds its match: the calls that are reached from a call and rank below
\* it do not reach it again without one.
THEOREM CyclesNeedAnUnmatch == Spec => []CyclesPassAnUnmatch
<1>1. Inv => CyclesPassAnUnmatch
  <2> SUFFICES ASSUME Inv, NEW s \in Sessions, InCycle(s),
                      \A q \in Sessions : Serves(q, "unmatch") /\ At(q, "held") => ~LeadTo(s, q)
               PROVE  FALSE
    BY DEF CyclesPassAnUnmatch
  <2> DEFINE Reached == {p \in Sessions : LeadTo(s, p)}
             Below == {p \in Reached : Rank(sess[p].at) < Rank(sess[s].at)}
  <2>1. s \in Reached
    BY DEF InCycle
  <2>2. \A p \in Reached : ~At(p, "held")
    <3> SUFFICES ASSUME NEW p \in Reached, At(p, "held") PROVE FALSE
      OBVIOUS
    <3>1. Live(p) /\ Req(p).op \in Ops /\ Placed(Req(p).op, "held")
      BY ReconcileAssumption DEF At, Live, Inv, CallsAreKnown, CallsAreInPlace, Call
    <3>2. Serves(p, "unmatch")
      BY <3>1 DEF Placed, Ops, Serves, Live
    <3> QED
      BY <3>2
  <2>3. ASSUME NEW p \in Reached, NEW r \in Others(p), WaitsFor(p, r)
        PROVE  r \in Reached
    <3>1. r \in Sessions
      BY DEF Others
    <3>2. ASSUME NEW C \in SUBSET Sessions,
                 \A x \in C \cup {s} : \A y \in Others(x) : WaitsFor(x, y) => y \in C
          PROVE  r \in C
      <4>1. p \in C
        BY <3>2 DEF LeadTo
      <4> QED
        BY <2>3, <3>2, <4>1
    <3> QED
      BY <3>1, <3>2 DEF LeadTo
  <2>4. ASSUME NEW p \in Below \cup {s}, NEW r \in Others(p), WaitsFor(p, r)
        PROVE  r \in Below
    <3>1. p \in Reached /\ r \in Reached
      BY <2>1, <2>3, <2>4
    <3>2. Rank(sess[r].at) < Rank(sess[p].at)
      BY <2>2, <2>4, <3>1, WaitsGoDown
    <3>3. Rank(sess[p].at) \in Int /\ Rank(sess[r].at) \in Int /\ Rank(sess[s].at) \in Int
      BY DEF Rank
    <3> QED
      BY <3>1, <3>2, <3>3
  <2>5. Below \in SUBSET Sessions
    OBVIOUS
  <2> HIDE DEF Below
  <2>6. s \in Below
    BY <2>4, <2>5 DEF InCycle, LeadTo
  <2>7. Rank(sess[s].at) \in Int
    BY DEF Rank
  <2> QED
    BY <2>6, <2>7 DEF Below
<1> QED
  BY InitInv, StepKeeps, <1>1, PTL DEF Spec
=============================================================================
