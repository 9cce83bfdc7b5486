------------------------------- MODULE Reconcile -------------------------------
(***************************************************************************)
(* The reconciliation of one bank account with one statement: matches of   *)
(* statement lines with journal entries, the lock that says the statement  *)
(* ties, and what can undo it from outside, the reversal of a matched      *)
(* entry and the discarding of staged lines.  Every call is one READ       *)
(* COMMITTED transaction, cut at the statements that wait or that read     *)
(* what another call may change; its writes appear when it commits.        *)
(* The locks a call holds, and whom it waits for, follow from where it     *)
(* stands; of the calls that wait for one another in a cycle, the database *)
(* aborts one.                                                             *)
(***************************************************************************)
EXTENDS Integers, FiniteSetsExt

CONSTANTS Sessions,  \* database sessions
          Lines,     \* import_rows
          Staged,    \* the lines of a batch that is not committed yet
          Entries,   \* journal_entries
          Amount,    \* line -> its signed amount
          Movement,  \* entry -> what it moves on the reconciled account
          Balances,  \* the balances a statement may state
          Calls,     \* the requests a session may serve
          None

Ops  == {"match", "unmatch", "lock", "reopen", "open", "reverse", "discard"}
Call == [op : Ops, line : Lines \cup {None}, entry : Entries \cup {None}, closing : Balances]

ASSUME ReconcileAssumption ==
  /\ Staged \subseteq Lines
  /\ Amount \in [Lines -> Int] /\ Movement \in [Entries -> Int]
  /\ Balances \subseteq Int
  /\ Calls \subseteq Call
  /\ \A c \in Calls : /\ c.op = "match" => c.line \in Lines
                      /\ c.op \in {"match", "reverse"} => c.entry \in Entries
  /\ None \notin Calls

VARIABLES entry,    \* journal_entries.status
          lines,    \* the import_rows that exist
          stmt,     \* the reconciliation_sessions row
          matches,  \* the reconciliation_matches that are not reopened
          sess      \* the database sessions

vars == <<entry, lines, stmt, matches, sess>>

EntryStatus == {"pending_review", "posted", "reversed"}
Labels == {"idle", "begin", "read", "insert", "held", "sum", "unlock", "free", "cascade",
           "commit", "done"}
Match  == [line : Lines, entry : Entries]

\* frees: the call is a reversal that unlocks the statement.
\* gone:  the lines whose matches the call, a discard, has deleted.
Idle == [at |-> "idle", call |-> None, frees |-> FALSE, gone |-> {}]

Init ==
  /\ entry \in [Entries -> {"pending_review", "posted"}]
  /\ lines = Lines
  /\ stmt \in [status : {"open"}, opening : {0}, closing : Balances]
  /\ matches = {}
  /\ sess = [s \in Sessions |-> Idle]

-----------------------------------------------------------------------------
(* Locks *)

Req(s) == sess[s].call
At(s, label) == sess[s].at = label
Serves(s, op) == sess[s].at \notin {"idle", "done"} /\ Req(s).op = op
Others(s) == Sessions \ {s}

Goto(s, label) == sess' = [sess EXCEPT ![s].at = label]
Tables == <<entry, lines, stmt, matches>>
Quit(s) == sess' = [sess EXCEPT ![s] = [Idle EXCEPT !.at = "done"]] /\ UNCHANGED Tables

Target(s) == [line |-> Req(s).line, entry |-> Req(s).entry]

\* FOR UPDATE of the statement, or its UPDATE.
HoldsStmt(q) ==
  \/ /\ \E op \in {"match", "lock", "reopen", "open"} : Serves(q, op)
     /\ ~At(q, "begin")
  \/ Serves(q, "unmatch") /\ At(q, "commit")
  \/ sess[q].frees

\* A reversal holds its entry from its first statement on; the foreign key of
\* a new match shares the entry and the line until it commits.
HoldsEntry(q, e)  == Serves(q, "reverse") /\ ~At(q, "begin") /\ Req(q).entry = e
SharesEntry(q, e) == Serves(q, "match") /\ At(q, "commit") /\ Req(q).entry = e
SharesLine(q, l)  == Serves(q, "match") /\ At(q, "commit") /\ Req(q).line = l
Deletes(q, l)     == Serves(q, "discard") /\ ~At(q, "begin") /\ l \in Staged

\* The matches a call has deleted or reopened, and the one an unmatch holds
\* while it waits for the statement.
Removes(q, m) ==
  \/ Serves(q, "unmatch") /\ At(q, "commit") /\ m = Target(q)
  \/ Serves(q, "reverse") /\ At(q, "commit") /\ m.entry = Req(q).entry
  \/ Serves(q, "discard") /\ m.line \in sess[q].gone

HoldsMatch(q, m) ==
  \/ Removes(q, m)
  \/ Serves(q, "unmatch") /\ At(q, "held") /\ m = Target(q)

-----------------------------------------------------------------------------
(* Waits *)

\* The reversal's trigger takes a statement that is committed as locked and has
\* a match of the entry; one that is committed as open it passes over.
\* Wrong: it takes the statement of the account, matched and locked or not.
HitsAny(s) == s \in Sessions

HitsLocked(s) == stmt.status = "locked" /\ \E m \in matches : m.entry = Req(s).entry

\* Wrong: a match reads the status of the statement without locking it.
WantsStmtUnlessMatch(s) ==
  \/ At(s, "begin") /\ Req(s).op \in {"lock", "open"}
  \/ At(s, "begin") /\ Req(s).op = "reopen" /\ stmt.status = "locked"
  \/ At(s, "held")
  \/ At(s, "unlock") /\ HitsLocked(s)

WantsStmt(s) ==
  \/ At(s, "begin") /\ Req(s).op \in {"match", "lock", "open"}
  \/ At(s, "begin") /\ Req(s).op = "reopen" /\ stmt.status = "locked"
  \/ At(s, "held")
  \/ At(s, "unlock") /\ HitsLocked(s)

\* The live matches of the line, or else of the entry, of a match to insert.
Clash(s) ==
  LET ofLine == {m \in matches : m.line = Req(s).line}
  IN  IF ofLine # {} THEN ofLine ELSE {m \in matches : m.entry = Req(s).entry}

\* The matches of the staged lines that a discard has still to delete.
Cascade(s) == {m \in matches : m.line \in Staged \ sess[s].gone}

WantsMatch(s, m) ==
  \/ At(s, "begin") /\ Req(s).op = "unmatch" /\ m = Target(s)
  \/ At(s, "free") /\ m.entry = Req(s).entry
  \/ At(s, "cascade") /\ m \in Cascade(s) /\ m = CHOOSE n \in Cascade(s) : TRUE

\* The next statement of s waits for q.  An insert waits for whoever removes a
\* match in its way, and its foreign keys for a reversal and for a delete.
WaitsFor(s, q) ==
  \/ WantsStmt(s) /\ HoldsStmt(q)
  \/ \E m \in matches : WantsMatch(s, m) /\ HoldsMatch(q, m)
  \/ /\ At(s, "insert")
     /\ IF Clash(s) # {} THEN \E m \in Clash(s) : Removes(q, m)
        ELSE HoldsEntry(q, Req(s).entry) \/ Deletes(q, Req(s).line)
  \/ /\ At(s, "begin") /\ Req(s).op = "reverse"
     /\ HoldsEntry(q, Req(s).entry) \/ SharesEntry(q, Req(s).entry)
  \/ /\ At(s, "begin") /\ Req(s).op = "discard"
     /\ \E l \in Staged : SharesLine(q, l) \/ Deletes(q, l)

Waits(s) == \E q \in Others(s) : WaitsFor(s, q)

\* The waits lead from s to q: q is in every set that they do not lead out of.
LeadTo(s, q) ==
  \A C \in SUBSET Sessions :
    (\A p \in C \cup {s} : \A r \in Others(p) : WaitsFor(p, r) => r \in C) => q \in C

InCycle(s) == LeadTo(s, s)

Cleared(ms) == MapThenSumSet(LAMBDA m : Amount[m.line], ms)

Ties(ms) == stmt.opening + Cleared(ms) = stmt.closing

-----------------------------------------------------------------------------
(* Statements *)

Begin(s, c) ==
  /\ At(s, "idle")
  /\ sess' = [sess EXCEPT ![s] = [Idle EXCEPT !.at = "begin", !.call = c]]
  /\ UNCHANGED Tables

MatchLocks(s) ==
  /\ Serves(s, "match") /\ At(s, "begin")
  /\ IF stmt.status = "locked" THEN Quit(s) ELSE Goto(s, "read") /\ UNCHANGED Tables

\* The line and the entry are read without a lock.
MatchReads(s) ==
  LET l == Req(s).line
      e == Req(s).entry
  IN  /\ Serves(s, "match") /\ At(s, "read")
      /\ IF /\ l \in lines /\ entry[e] # "reversed"
            /\ Amount[l] # 0 /\ Movement[e] = Amount[l]
         THEN Goto(s, "insert") /\ UNCHANGED Tables
         ELSE Quit(s)

\* Wrong: the partial unique indexes are left out.
MatchInsertsTwice(s) ==
  /\ Serves(s, "match") /\ At(s, "insert")
  /\ IF Req(s).line \in lines THEN Goto(s, "commit") /\ UNCHANGED Tables ELSE Quit(s)

\* The foreign keys only ask whether the line and the entry are still there.
MatchInserts(s) ==
  /\ Serves(s, "match") /\ At(s, "insert")
  /\ IF Req(s).line \in lines /\ Clash(s) = {}
     THEN Goto(s, "commit") /\ UNCHANGED Tables
     ELSE Quit(s)

\* FOR UPDATE OF m, s locks the match and then the statement.
UnmatchLocks(s) ==
  /\ Serves(s, "unmatch") /\ At(s, "begin")
  /\ IF Target(s) \notin matches THEN Quit(s) ELSE Goto(s, "held") /\ UNCHANGED Tables

Unmatch(s) ==
  /\ Serves(s, "unmatch") /\ At(s, "held")
  /\ IF stmt.status = "locked" THEN Quit(s) ELSE Goto(s, "commit") /\ UNCHANGED Tables

LockLocks(s) ==
  /\ Serves(s, "lock") /\ At(s, "begin")
  /\ IF stmt.status = "locked" THEN Quit(s) ELSE Goto(s, "sum") /\ UNCHANGED Tables

\* Wrong: the difference is not looked at.
LockSumsNothing(s) ==
  /\ Serves(s, "lock") /\ At(s, "sum")
  /\ Goto(s, "commit") /\ UNCHANGED Tables

LockSums(s) ==
  /\ Serves(s, "lock") /\ At(s, "sum")
  /\ IF Ties(matches) THEN Goto(s, "commit") /\ UNCHANGED Tables ELSE Quit(s)

Reopen(s) ==
  /\ Serves(s, "reopen") /\ At(s, "begin")
  /\ IF stmt.status = "open" THEN Quit(s) ELSE Goto(s, "commit") /\ UNCHANGED Tables

OpenSession(s) ==
  /\ Serves(s, "open") /\ At(s, "begin")
  /\ Goto(s, "commit") /\ UNCHANGED Tables

\* reverse_journal_entry; its trigger then runs two statements.
ReverseLocks(s) ==
  /\ Serves(s, "reverse") /\ At(s, "begin")
  /\ IF entry[Req(s).entry] # "posted" THEN Quit(s) ELSE Goto(s, "unlock") /\ UNCHANGED Tables

ReverseUnlocks(s) ==
  /\ Serves(s, "reverse") /\ At(s, "unlock")
  /\ sess' = [sess EXCEPT ![s].at = "free", ![s].frees = HitsLocked(s)]
  /\ UNCHANGED Tables

ReverseFrees(s) ==
  /\ Serves(s, "reverse") /\ At(s, "free")
  /\ Goto(s, "commit") /\ UNCHANGED Tables

\* discard_import_batch, and add_import_rows when it stages the batch anew: the
\* staged lines are deleted, and then the delete cascades to their matches.
Discard(s) ==
  /\ Serves(s, "discard") /\ At(s, "begin")
  /\ Goto(s, "cascade") /\ UNCHANGED Tables

DiscardCascades(s) ==
  /\ Serves(s, "discard") /\ At(s, "cascade") /\ Cascade(s) # {}
  /\ sess' = [sess EXCEPT ![s].gone = @ \cup {(CHOOSE m \in Cascade(s) : TRUE).line}]
  /\ UNCHANGED Tables

DiscardEnds(s) ==
  /\ Serves(s, "discard") /\ At(s, "cascade") /\ Cascade(s) = {}
  /\ Goto(s, "commit") /\ UNCHANGED Tables

Commit(s) ==
  LET c == Req(s)
  IN  /\ At(s, "commit")
      /\ entry' = IF c.op = "reverse" THEN [entry EXCEPT ![c.entry] = "reversed"] ELSE entry
      /\ lines' = IF c.op = "discard" THEN lines \ Staged ELSE lines
      /\ matches' = CASE c.op = "match"   -> matches \cup {Target(s)}
                      [] c.op = "unmatch" -> matches \ {Target(s)}
                      [] c.op = "reverse" -> {x \in matches : x.entry # c.entry}
                      [] c.op = "discard" -> {x \in matches : x.line \notin Staged}
                      [] OTHER            -> matches
      /\ stmt' = CASE c.op = "lock"   -> [stmt EXCEPT !.status = "locked"]
                   [] c.op = "reopen" \/ sess[s].frees -> [stmt EXCEPT !.status = "open"]
                   [] c.op = "open" /\ stmt.status = "open" -> [stmt EXCEPT !.closing = c.closing]
                   [] OTHER -> stmt
      /\ sess' = [sess EXCEPT ![s] = [Idle EXCEPT !.at = "done"]]

\* The connection serves its next request.
Again(s) == At(s, "done") /\ sess' = [sess EXCEPT ![s] = Idle] /\ UNCHANGED Tables

\* The database aborts a call of a cycle, any of them, with an error.
DeadlockVictim(s) == InCycle(s) /\ Quit(s)

Statement(s) ==
  \/ MatchLocks(s) \/ MatchReads(s) \/ MatchInserts(s) \/ UnmatchLocks(s) \/ Unmatch(s)
  \/ LockLocks(s) \/ LockSums(s) \/ Reopen(s) \/ OpenSession(s)
  \/ ReverseLocks(s) \/ ReverseUnlocks(s) \/ ReverseFrees(s)
  \/ Discard(s) \/ DiscardCascades(s) \/ DiscardEnds(s) \/ Commit(s)

Step(s) == ~Waits(s) /\ Statement(s)

Next ==
  \/ \E s \in Sessions, c \in Calls : Begin(s, c)
  \/ \E s \in Sessions : Step(s) \/ DeadlockVictim(s) \/ Again(s)

Spec == Init /\ [][Next]_vars

-----------------------------------------------------------------------------
(* Properties *)

\* Every variable has its type, only a reversal frees the statement, and at
\* most one call holds it.
TypeOK ==
  /\ entry \in [Entries -> EntryStatus]
  /\ lines \subseteq Lines
  /\ stmt \in [status : {"open", "locked"}, opening : Int, closing : Balances]
  /\ matches \subseteq Match
  /\ sess \in [Sessions -> [at : Labels, call : Calls \cup {None}, frees : BOOLEAN,
                            gone : SUBSET Lines]]
  /\ \A s \in Sessions : sess[s].frees => Serves(s, "reverse")
  /\ \A s, q \in Sessions : (HoldsStmt(s) /\ HoldsStmt(q)) => s = q

\* A line clears at most one entry and an entry at most one line, whatever the
\* order of matches, unmatches and reversals, and always for the same amount.
OneToOne ==
  \A m, n \in matches :
    /\ (m.line = n.line \/ m.entry = n.entry) => m = n
    /\ Amount[m.line] = Movement[m.entry] /\ m.line \in lines

\* While a statement stays locked its matches stay, but for a line that is
\* deleted or an entry that is reversed: no match or unmatch that was in flight
\* when the lock was taken lands after it ("a concurrent lock() serializes with
\* an in-flight match").
LockedKeepsMatches ==
  [][(stmt.status = "locked" /\ stmt'.status = "locked") =>
       /\ matches' \subseteq matches
       /\ \A m \in matches \ matches' : m.line \notin lines' \/ entry'[m.entry] = "reversed"]_vars

\* A locked statement ties to the cent: opening + cleared = closing.
LockedTies == stmt.status = "locked" => Ties(matches)

\* It does whatever matches, unmatches, reopens and restated balances race the
\* lock, as long as no entry was reversed and no line deleted.
UndisturbedTies ==
  (lines = Lines /\ \A e \in Entries : entry[e] # "reversed") => LockedTies

\* Calls wait for one another in a cycle only by way of an unmatch: it holds its
\* match and waits for the statement, where every other call that takes both
\* takes the statement first.
CyclesPassAnUnmatch ==
  \A s \in Sessions : InCycle(s) =>
    \E q \in Sessions : Serves(q, "unmatch") /\ At(q, "held") /\ LeadTo(s, q)

\* Known to fail: no call is aborted as the victim of a deadlock.  An unmatch
\* and the reversal of the entry it unmatches, on a locked statement, wait for
\* one another.
NoCycle == \A s \in Sessions : ~InCycle(s)
=============================================================================
