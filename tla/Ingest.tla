-------------------------------- MODULE Ingest --------------------------------
(***************************************************************************)
(* Bank transactions on their way into the books of one bank account: a    *)
(* Plaid feed (runPlaidSync, plaid_ingest_transactions) and imported       *)
(* statement rows (commit_import_batch), which share the cross-source      *)
(* content index.  Both RPCs are one transaction under one advisory lock   *)
(* of the account, so each is one action; the sync loop around them is     *)
(* not, and several syncs may run at once.                                 *)
(*                                                                         *)
(* A content is what identifies a transaction economically: its date,      *)
(* signed amount and description.  The feed is external: from a cursor it  *)
(* reports what has changed since, in its present state, and announces its *)
(* changes at least once.  A page holds one transaction; a longer page     *)
(* only widens what one refusal takes with it.  The hundred pages after    *)
(* which the loop gives up are not reached.                                *)
(***************************************************************************)
EXTENDS Integers, FiniteSets

CONSTANTS Tids,        \* Plaid transaction ids
          Contents,
          Blank,       \* the contents with amount zero
          Months,
          MonthOf,     \* content -> the month of its date
          Rows,        \* imported statement rows
          RowContent,  \* row -> its content
          Workers,     \* invocations of the sync loop
          MayClose,    \* bound: the months that may be closed
          MayCrash,    \* whether an invocation may die between two calls
          MaxChanges,  \* bound: changes the bank makes
          MaxEdits,    \* bound: recategorisations and reversals by users
          Gone,        \* a transaction the bank has withdrawn
          None

ASSUME IngestAssumption ==
  /\ Blank \subseteq Contents
  /\ MonthOf \in [Contents -> Months]
  /\ RowContent \in [Rows -> Contents]
  /\ MayClose \subseteq Months
  /\ MayCrash \in BOOLEAN
  /\ MaxChanges \in Nat /\ MaxEdits \in Nat
  /\ Gone \notin Contents \cup {None}

\* Idempotency keys: ext:plaid:<tid>, ext:plaid:v:<tid>:<content>, import:<content>.
AddKey(t)        == <<t, None>>
VersionKey(t, c) == <<t, c>>
RowKey(c)        == <<None, c>>
Keys == (Tids \cup {None}) \X (Contents \cup {None})

\* An entry is the one a key posted, or its n-th repost by recategorisation.
Ids == Keys \X (0 .. MaxEdits)
First(k) == <<k, 0>>

\* Who reversed an entry: a user, or the feed for a transaction, with the key
\* ext:plaid:rev:<tid>:<entry> or ext:plaid:rm:<tid>:<entry>.
Undoers  == {<<"user", None>>} \cup ({"rev", "rm"} \X Tids)
Undoings == Undoers \cup {None}

Told    == Contents \cup {None, Gone}
Txn     == [content : Contents, entry : Ids, reversed : BOOLEAN, removed : BOOLEAN]
NoPage  == [tid |-> None, was |-> None, is |-> None, more |-> FALSE]
Page    == [tid : Tids, was : Told, is : Told, more : BOOLEAN] \cup {NoPage}
Labels  == {"idle", "fetch", "ingest", "advance", "last"}
Source(i) == IF i[1][1] = None THEN "csv" ELSE "plaid"

ASSUME NoneAssumption == None \notin Contents \cup Tids \cup Undoers \cup Txn

VARIABLES atBank,   \* what the bank now says of each transaction
          changes,  \* the bank's changes so far
          due,      \* a webhook of the feed is on its way
          status,   \* external_connections.status
          cursor,   \* external_connections.sync_cursor: what the feed has told us
          sync,     \* the running sync loops
          txn,      \* bank_transactions
          entries,  \* journal_entries, without their reversals
          index,    \* ingest_content_index
          rows,     \* import_rows.status
          closed,   \* the closed months
          edits     \* the users' edits so far

bank  == <<atBank, changes>>
feed  == <<atBank, changes, due, status>>
books == <<txn, entries, index, rows, closed, edits>>
vars  == <<atBank, changes, due, status, cursor, sync, txn, entries, index, rows, closed, edits>>

NoEntry == [content |-> None, undo |-> None]
Resting == [at |-> "idle", by |-> "user", cursor |-> [t \in Tids |-> None], page |-> NoPage]

Init ==
  /\ atBank = [t \in Tids |-> None] /\ changes = 0
  /\ due = FALSE /\ status = "active"
  /\ cursor = [t \in Tids |-> None]
  /\ sync = [w \in Workers |-> Resting]
  /\ txn = [t \in Tids |-> None]
  /\ entries = [i \in Ids |-> NoEntry]
  /\ index = {}
  /\ rows = [r \in Rows |-> "ready"]
  /\ closed = {} /\ edits = 0

-----------------------------------------------------------------------------
(* The journal and the content index *)

Exists(i) == entries[i].content # None
Live(i)   == Exists(i) /\ entries[i].undo = None

\* post_journal_entry returns the row of a key that is taken, whatever its status.
CanPost(k, c) == Exists(First(k)) \/ (c \notin Blank /\ MonthOf[c] \notin closed)

WithPost(e, k, c) ==
  IF Exists(First(k)) THEN e ELSE [e EXCEPT ![First(k)] = [content |-> c, undo |-> None]]

\* reverse_journal_entry replays its own key and refuses an entry that another
\* call has reversed; without a date it rolls to an open month.
CanReverse(i, u, datedOpen) == entries[i].undo = u \/ (Live(i) /\ datedOpen)

Undone(e, i, u) == [e EXCEPT ![i].undo = u]

\* The index rows left when entry i is reversed.
Pruned(i) == {x \in index : x.entry # i}

Indexed(c, i) == [content |-> c, source |-> Source(i), entry |-> i]

\* Wrong: nobody looks across the sources.
NoDups(c, src) == {}

Dups(c, src) == {x.entry : x \in {x \in index : x.content = c /\ x.source # src /\ Live(x.entry)}}

-----------------------------------------------------------------------------
(* The bank and its feed (external) *)

BankSays(t, v) ==
  /\ changes < MaxChanges
  /\ atBank' = [atBank EXCEPT ![t] = v] /\ changes' = changes + 1
  /\ due' = TRUE
  /\ UNCHANGED <<status, cursor, sync>> /\ UNCHANGED books

BankAdds(t)    == atBank[t] = None /\ \E c \in Contents : BankSays(t, c)
BankChanges(t) == atBank[t] \in Contents /\ \E c \in Contents \ {atBank[t]} : BankSays(t, c)
BankDrops(t)   == atBank[t] \in Contents /\ BankSays(t, Gone)

\* What a caller whose cursor stands at v has still to be told.
News(v) == {t \in Tids : v[t] # atBank[t]}

-----------------------------------------------------------------------------
(* runPlaidSync *)

At(w, label) == sync[w].at = label
Goto(w, label) == sync' = [sync EXCEPT ![w].at = label]
P(w) == sync[w].page

Begins(w, who) ==
  sync' = [sync EXCEPT ![w] = [at |-> "fetch", by |-> who, cursor |-> cursor, page |-> NoPage]]

\* plaid-webhook: one sync per delivery, which may be delivered again; whatever
\* comes of it the answer is 200, and an inactive connection is ignored.
Webhook(w) ==
  /\ At(w, "idle") /\ due /\ due' \in BOOLEAN
  /\ IF status = "active" THEN Begins(w, "plaid") ELSE UNCHANGED sync
  /\ UNCHANGED bank /\ UNCHANGED <<status, cursor>> /\ UNCHANGED books

\* plaid-sync, when a user asks for it.
SyncNow(w) ==
  /\ At(w, "idle") /\ status = "active" /\ Begins(w, "user")
  /\ UNCHANGED feed /\ UNCHANGED cursor /\ UNCHANGED books

\* plaid-exchange, when a user links the item anew.
Relink(w) ==
  /\ At(w, "idle") /\ status' = "active" /\ Begins(w, "user")
  /\ UNCHANGED bank /\ UNCHANGED <<due, cursor>> /\ UNCHANGED books

\* Wrong: the loop ends with its first page.
FetchOne(w) ==
  /\ At(w, "fetch")
  /\ \E t \in News(sync[w].cursor) :
       sync' = [sync EXCEPT ![w].at = "ingest",
                            ![w].page = [tid |-> t, was |-> sync[w].cursor[t], is |-> atBank[t],
                                         more |-> FALSE]]
  /\ UNCHANGED feed /\ UNCHANGED cursor /\ UNCHANGED books

\* The page says whether there are more after it; one without news only has a cursor.
Fetch(w) ==
  LET v == sync[w].cursor
  IN  /\ At(w, "fetch")
      /\ \/ News(v) = {} /\ sync' = [sync EXCEPT ![w].at = "last"]
         \/ \E t \in News(v) :
              sync' = [sync EXCEPT ![w].at = "ingest",
                                   ![w].page = [tid |-> t, was |-> v[t], is |-> atBank[t],
                                                more |-> News(v) # {t}]]
      /\ UNCHANGED feed /\ UNCHANGED cursor /\ UNCHANGED books

\* plaid_set_cursor, after a page that was ingested.
Advance(w) ==
  LET p == P(w)
      v == [sync[w].cursor EXCEPT ![p.tid] = p.is]
  IN  /\ At(w, "advance")
      /\ cursor' = v
      /\ sync' = [sync EXCEPT ![w] = IF p.more THEN [@ EXCEPT !.at = "fetch", !.cursor = v, !.page = NoPage]
                                     ELSE Resting]
      /\ UNCHANGED feed /\ UNCHANGED books

\* The cursor of a page without news is stored, too, though another sync may have
\* gone further since.
AdvanceLast(w) ==
  /\ At(w, "last")
  /\ cursor' = sync[w].cursor /\ sync' = [sync EXCEPT ![w] = Resting]
  /\ UNCHANGED feed /\ UNCHANGED books

Crash(w) ==
  /\ MayCrash /\ ~At(w, "idle")
  /\ sync' = [sync EXCEPT ![w] = Resting]
  /\ UNCHANGED feed /\ UNCHANGED cursor /\ UNCHANGED books

-----------------------------------------------------------------------------
(* plaid_ingest_transactions *)

Added(p)    == p.was = None /\ p.is \in Contents
Modified(p) == p.was \in Contents /\ p.is \in Contents
Removed(p)  == p.is = Gone

Bound(t, c, i) == [txn EXCEPT ![t] = [content |-> c, entry |-> i, reversed |-> FALSE, removed |-> FALSE]]

Unseen(p)  == Modified(p) /\ txn[p.tid] = None
Same(p)    == Modified(p) /\ txn[p.tid] # None /\ txn[p.tid].content = p.is
Changed(p) == Modified(p) /\ txn[p.tid] # None /\ txn[p.tid].content # p.is
Dropped(p) == Removed(p) /\ txn[p.tid] # None /\ ~txn[p.tid].removed

\* An exception in the middle of a page takes the whole page back.
Refused(p) ==
  LET t == p.tid
      c == p.is
      undoable(tag, datedOpen) == txn[t].reversed \/ CanReverse(txn[t].entry, <<tag, t>>, datedOpen)
  IN  \/ /\ Added(p) /\ txn[t] = None /\ c \notin Blank
         /\ Dups(c, "plaid") = {} /\ ~CanPost(AddKey(t), c)
      \/ Unseen(p) /\ c \notin Blank /\ ~CanPost(AddKey(t), c)
      \/ /\ Changed(p)
         /\ ~(undoable("rev", MonthOf[c] \notin closed) /\ CanPost(VersionKey(t, c), c))
      \/ Dropped(p) /\ ~undoable("rm", TRUE)

\* The page p is ingested by w: the transaction's rows are in the books.
Ingesting(w) == At(w, "ingest") /\ ~Refused(P(w)) /\ Goto(w, "advance")

OtherBooks == UNCHANGED feed /\ UNCHANGED <<cursor, rows, closed, edits>>

Skip(w) ==
  LET p == P(w)
  IN  /\ Ingesting(w)
      /\ \/ Added(p) /\ (txn[p.tid] # None \/ p.is \in Blank)
         \/ Unseen(p) /\ p.is \in Blank
         \/ Removed(p) /\ ~Dropped(p)
      /\ UNCHANGED <<txn, entries, index>> /\ OtherBooks

IngestDup(w) ==
  LET p == P(w)
  IN  /\ Ingesting(w) /\ Added(p) /\ txn[p.tid] = None /\ p.is \notin Blank
      /\ \E i \in Dups(p.is, "plaid") : txn' = Bound(p.tid, p.is, i)
      /\ UNCHANGED <<entries, index>> /\ OtherBooks

IngestNew(w) ==
  LET p == P(w)
      k == AddKey(p.tid)
  IN  /\ Ingesting(w) /\ txn[p.tid] = None /\ p.is \notin Blank
      /\ Unseen(p) \/ (Added(p) /\ Dups(p.is, "plaid") = {})
      /\ txn' = Bound(p.tid, p.is, First(k))
      /\ entries' = WithPost(entries, k, p.is)
      /\ index' = index \cup {Indexed(p.is, First(k))}
      /\ OtherBooks

IngestSame(w) ==
  /\ Ingesting(w) /\ Same(P(w))
  /\ txn' = [txn EXCEPT ![P(w).tid].removed = FALSE]
  /\ UNCHANGED <<entries, index>> /\ OtherBooks

\* Wrong: the fresh version is posted and the old one stays.
IngestChangedOnly(w) ==
  LET p == P(w)
      t == p.tid
      v == VersionKey(t, p.is)
  IN  /\ Ingesting(w) /\ Changed(p)
      /\ txn' = Bound(t, p.is, First(v))
      /\ entries' = WithPost(entries, v, p.is)
      /\ index' = index \cup {Indexed(p.is, First(v))}
      /\ OtherBooks

IngestChanged(w) ==
  LET p    == P(w)
      t    == p.tid
      v    == VersionKey(t, p.is)
      i    == txn[t].entry
      undo == ~txn[t].reversed
  IN  /\ Ingesting(w) /\ Changed(p)
      /\ txn' = Bound(t, p.is, First(v))
      /\ entries' = WithPost(IF undo THEN Undone(entries, i, <<"rev", t>>) ELSE entries, v, p.is)
      /\ index' = (IF undo THEN Pruned(i) ELSE index) \cup {Indexed(p.is, First(v))}
      /\ OtherBooks

\* Wrong: the row is marked and its entry stays in the books.
IngestRemovedOnly(w) ==
  LET t == P(w).tid
  IN  /\ Ingesting(w) /\ Dropped(P(w))
      /\ txn' = [txn EXCEPT ![t].removed = TRUE]
      /\ UNCHANGED <<entries, index>>
      /\ OtherBooks

IngestRemoved(w) ==
  LET t == P(w).tid
      i == txn[t].entry
  IN  /\ Ingesting(w) /\ Dropped(P(w))
      /\ txn' = [txn EXCEPT ![t].reversed = TRUE, ![t].removed = TRUE]
      /\ IF txn[t].reversed THEN UNCHANGED <<entries, index>>
         ELSE entries' = Undone(entries, i, <<"rm", t>>) /\ index' = Pruned(i)
      /\ OtherBooks

\* Wrong: the error is not looked at and the loop goes on.
RefuseUnseen(w) ==
  /\ At(w, "ingest") /\ Refused(P(w)) /\ Goto(w, "advance")
  /\ UNCHANGED feed /\ UNCHANGED cursor /\ UNCHANGED books

\* The call throws: the loop ends, and the cursor stays where it was.  What a user
\* asked for leaves the connection in error, and no webhook is heard after that.
Refuse(w) ==
  /\ At(w, "ingest") /\ Refused(P(w))
  /\ sync' = [sync EXCEPT ![w] = Resting]
  /\ status' = IF sync[w].by = "user" THEN "error" ELSE status
  /\ UNCHANGED bank /\ UNCHANGED <<due, cursor>> /\ UNCHANGED books

-----------------------------------------------------------------------------
(* commit_import_batch, one row of a batch *)

CommitRow(r) ==
  LET c == RowContent[r]
      i == First(RowKey(c))
      land(st) == rows' = [rows EXCEPT ![r] = st]
  IN  /\ rows[r] = "ready"
      /\ \/ c \in Blank /\ land("error") /\ UNCHANGED <<entries, index>>
         \/ /\ c \notin Blank /\ (Exists(i) \/ Dups(c, "csv") # {})
            /\ land("skipped") /\ UNCHANGED <<entries, index>>
         \/ /\ c \notin Blank /\ ~Exists(i) /\ Dups(c, "csv") = {}
            /\ IF MonthOf[c] \in closed THEN land("error") /\ UNCHANGED <<entries, index>>
               ELSE /\ land("posted")
                    /\ entries' = WithPost(entries, RowKey(c), c)
                    /\ index' = index \cup {Indexed(c, i)}
      /\ UNCHANGED feed /\ UNCHANGED <<cursor, sync, txn, closed, edits>>

-----------------------------------------------------------------------------
(* The users *)

UserUndoes(i) ==
  /\ edits < MaxEdits /\ Live(i) /\ edits' = edits + 1
  /\ index' = Pruned(i)
  /\ UNCHANGED feed /\ UNCHANGED <<cursor, sync, txn, rows, closed>>

Reverse(i) == UserUndoes(i) /\ entries' = Undone(entries, i, <<"user", None>>)

\* The reversal and the repost, which is not recorded in the content index.
Recategorize(i) ==
  /\ UserUndoes(i)
  /\ entries' = [Undone(entries, i, <<"user", None>>)
                   EXCEPT ![<<i[1], i[2] + 1>>] = [content |-> entries[i].content, undo |-> None]]

Close(m) ==
  /\ m \in MayClose \ closed
  /\ closed' = closed \cup {m}
  /\ UNCHANGED feed /\ UNCHANGED <<cursor, sync, txn, entries, index, rows, edits>>

Reopen(m) ==
  /\ m \in closed
  /\ closed' = closed \ {m}
  /\ UNCHANGED feed /\ UNCHANGED <<cursor, sync, txn, entries, index, rows, edits>>

-----------------------------------------------------------------------------
SyncStep(w) ==
  \/ Fetch(w) \/ Skip(w) \/ IngestDup(w) \/ IngestNew(w) \/ IngestSame(w)
  \/ IngestChanged(w) \/ IngestRemoved(w) \/ Refuse(w) \/ Advance(w) \/ AdvanceLast(w)

Next ==
  \/ \E t \in Tids : BankAdds(t) \/ BankChanges(t) \/ BankDrops(t)
  \/ \E w \in Workers : Webhook(w) \/ SyncNow(w) \/ Relink(w) \/ SyncStep(w) \/ Crash(w)
  \/ \E r \in Rows : CommitRow(r)
  \/ \E i \in Ids : Reverse(i) \/ Recategorize(i)
  \/ \E m \in Months : Close(m) \/ Reopen(m)

Spec == Init /\ [][Next]_vars

\* A sync that has begun runs to its end.  Nothing makes one begin.
FairSpec == Spec /\ \A w \in Workers : WF_vars(SyncStep(w))

-----------------------------------------------------------------------------
(* Properties *)

\* Every variable has its type; an index row belongs to an entry that exists,
\* and a bank_transactions row is bound to one.
TypeOK ==
  /\ atBank \in [Tids -> Told] /\ changes \in 0 .. MaxChanges
  /\ due \in BOOLEAN /\ status \in {"active", "error"} /\ cursor \in [Tids -> Told]
  /\ sync \in [Workers -> [at : Labels, by : {"plaid", "user"}, cursor : [Tids -> Told], page : Page]]
  /\ txn \in [Tids -> Txn \cup {None}]
  /\ entries \in [Ids -> [content : Contents \cup {None}, undo : Undoings]]
  /\ index \subseteq [content : Contents, source : {"csv", "plaid"}, entry : Ids]
  /\ rows \in [Rows -> {"ready", "posted", "skipped", "error"}]
  /\ closed \subseteq Months /\ edits \in 0 .. MaxEdits
  /\ \A x \in index : Exists(x.entry)
  /\ \A t \in Tids : txn[t] # None => Exists(txn[t].entry)

LiveOf(k) == {i \in Ids : i[1] = k /\ Live(i)}

\* A transaction the feed has withdrawn stays out of the books: an old page that
\* arrives late brings nothing back ("overlapping cursor page adds NOTHING").
RemovedStaysOut ==
  [][\A t \in Tids : (txn[t] # None /\ txn[t].removed) => txn'[t] = txn[t]]_vars

\* What the feed has put into the books of transaction t and not taken back, by
\* whichever source's entry t is bound to.
Counted(t) ==
  {i \in Ids : Live(i) /\ (i[1][1] = t \/ (txn[t] # None /\ i[1] = txn[t].entry[1]))}

\* However pages are replayed, crossed or stale, and whatever users reverse or
\* recategorise, a bank transaction never counts twice ("No duplicate").
CountsOnce == \A t \in Tids : Cardinality(Counted(t)) <= 1

\* An added transaction and an imported row with the same content do not both
\* post and stay, in either order and after removals and re-deliveries.
FirstPostsDeduplicated ==
  \A t \in Tids, c \in Contents :
    (Live(First(AddKey(t))) /\ Live(First(RowKey(c)))) => entries[First(AddKey(t))].content # c

\* One real transaction that reaches the account from two sources is in the
\* books once ("is SKIPPED (not posted again)").
NoCrossSourceDouble ==
  \A i, j \in Ids : (Live(i) /\ Live(j) /\ Source(i) = "csv" /\ Source(j) = "plaid")
                      => entries[i].content # entries[j].content

\* The cursor passes no transaction that the books have not taken: whatever syncs
\* cross, die or are refused, a page is stored after it was ingested ("The cursor is
\* advanced ONLY after a page ingests cleanly").
CursorNeverAhead == \A t \in Tids : cursor[t] \in Contents \ Blank => txn[t] # None

\* Two transactions of the feed never share an entry: they have ids of their own,
\* and the feed "never collapses its own distinct rows".
OwnEntries == \A t, u \in Tids : t # u => Counted(t) \cap Counted(u) = {}

CaughtUp == News(cursor) = {}

\* The imported entry a transaction was recognised in, taken back by another one
\* that was recognised in it too.
TakenByAnother(t) == txn[t] # None /\
  \E u \in Tids \ {t}, tag \in {"rev", "rm"} : entries[txn[t].entry].undo = <<tag, u>>

\* A user has reversed or recategorised the entry of t.
Corrected(t) == txn[t] # None /\ entries[txn[t].entry].undo = <<"user", None>>

\* As long as webhooks keep coming the feed never stays stuck ("the next SYNC
\* webhook re-pulls from the last good cursor").
KeepsCatchingUp ==
  []<><<\E w \in Workers : Webhook(w)>>_vars => []<>CaughtUp
=============================================================================
