----------------------------- MODULE IngestProofs -----------------------------
(***************************************************************************)
(* A bank transaction counts once, for any number of transactions, rows,   *)
(* months, syncs and edits.  The invariant says whose entries are in the   *)
(* books: of a key at most one is live, of a transaction only those of the *)
(* key it is bound to, and an entry the feed has undone has no repost.     *)
(* The cursor passes nothing that is not in the books, and of a feed whose *)
(* syncs do not overlap the books say what they were told last.            *)
(***************************************************************************)
EXTENDS MCFeed, FiniteSetTheorems, TLAPS

\* The loop around the RPCs: a page that is being ingested is a transaction's.
LoopOK ==
  /\ atBank \in [Tids -> Told] /\ changes \in 0 .. MaxChanges
  /\ due \in BOOLEAN /\ status \in {"active", "error"} /\ cursor \in [Tids -> Told]
  /\ sync \in [Workers -> [at : Labels, by : {"plaid", "user"}, cursor : [Tids -> Told], page : Page]]
  /\ rows \in [Rows -> {"ready", "posted", "skipped", "error"}]
  /\ closed \subseteq Months /\ edits \in 0 .. MaxEdits
  /\ \A w \in Workers : sync[w].at \in {"ingest", "advance"} => P(w).tid \in Tids

\* The rows of the books: an index row and a bank transaction name the entry a
\* key posted, never a repost.
BooksOK ==
  /\ txn \in [Tids -> Txn \cup {None}]
  /\ entries \in [Ids -> [content : Contents \cup {None}, undo : Undoings]]
  /\ index \subseteq [content : Contents, source : {"csv", "plaid"}, entry : Ids]
  /\ \A x \in index : Exists(x.entry) /\ x.entry[2] = 0
  /\ \A t \in Tids : txn[t] # None => Exists(txn[t].entry) /\ txn[t].entry[2] = 0

\* An entry that was reposted was undone by a user, and the ones before it, too.
RepostsFollow ==
  \A i, j \in Ids : i[1] = j[1] /\ i[2] < j[2] /\ Exists(j) =>
    Exists(i) /\ entries[i].undo = <<"user", None>>

\* The live entries of a transaction have the key it is bound to ...
BoundToOwn == \A i \in Ids : Live(i) /\ i[1][1] \in Tids => i[1] = txn[i[1][1]].entry[1]

\* ... there are none before it is bound ...
NoneUnbound == \A i \in Ids : Exists(i) /\ i[1][1] \in Tids => txn[i[1][1]] # None

\* ... a version's key holds the version's content ...
VersionNamed ==
  \A t \in Tids : txn[t] # None /\ txn[t].entry[1][1] = t =>
    txn[t].entry[1][2] \in {None, txn[t].content}

\* ... and a transaction that is marked as reversed had its entry reversed.
MarkedReversed ==
  \A t \in Tids : txn[t] # None /\ txn[t].reversed => entries[txn[t].entry].undo = <<"rm", t>>

\* What the content index has of the entries that the two sources posted.
LiveIndexed == \A i \in Ids : Live(i) /\ i[2] = 0 => Indexed(entries[i].content, i) \in index
RowsNamed   == \A i \in Ids : Exists(i) /\ i[1][1] = None /\ i[2] = 0 => entries[i].content = i[1][2]

BooksInv ==
  /\ BooksOK /\ RepostsFollow /\ BoundToOwn /\ NoneUnbound /\ VersionNamed
  /\ MarkedReversed /\ LiveIndexed /\ RowsNamed

IngestInv == LoopOK /\ BooksInv

\* Whatever the feed has told, but for amounts of zero, is in the books.
Seen(t, v) == v \in Contents \ Blank => txn[t] # None

FeedSeen ==
  /\ \A t \in Tids : Seen(t, cursor[t])
  /\ \A w \in Workers :
       /\ \A t \in Tids : Seen(t, sync[w].cursor[t])
       /\ sync[w].at \in {"ingest", "advance"} => Seen(P(w).tid, P(w).was)
       /\ sync[w].at = "advance" => Seen(P(w).tid, P(w).is)

SeenInv == IngestInv /\ FeedSeen

DedupInv == SeenInv /\ FirstPostsDeduplicated

\* The loop of the one sync: its cursor is the stored one, and its page has news
\* of a transaction the bank has not withdrawn before.
OneLoop ==
  /\ \A w \in Workers \ {w1} : At(w, "idle")
  /\ \A t \in Tids : atBank[t] = None => cursor[t] = None
  /\ \A t \in Tids : cursor[t] = Gone => atBank[t] = Gone
  /\ ~At(w1, "idle") => sync[w1].cursor = cursor
  /\ At(w1, "ingest") \/ At(w1, "advance") =>
       /\ P(w1).was = cursor[P(w1).tid] /\ P(w1).is # P(w1).was
       /\ P(w1).was \in Contents \cup {None} /\ P(w1).is \in Contents \cup {Gone}
       /\ atBank[P(w1).tid] \notin {None, P(w1).was}
       /\ P(w1).is = Gone => atBank[P(w1).tid] = Gone

\* The entries and index rows have the contents that their keys and entries name.
Named ==
  /\ \A i \in Ids : Exists(i) => entries[i].content \notin Blank
  /\ \A i \in Ids : Exists(i) /\ i[1][2] # None => entries[i].content = i[1][2]
  /\ \A x \in index : x.source = Source(x.entry) /\ x.content = entries[x.entry].content

\* The row of a transaction has its own entry or a statement row's, which was taken
\* back with the row or by another transaction or a user.
RowOK(t) ==
  txn[t] # None =>
    LET x == txn[t]
    IN  /\ x.entry[1][1] \in {t, None} /\ entries[x.entry].content = x.content
        /\ x.removed => x.reversed /\ atBank[t] = Gone
        /\ ~x.removed =>
             /\ ~x.reversed
             /\ entries[x.entry].undo \in {None, <<"user", None>>} \/ TakenByAnother(t)

\* The row of t says v.
Matches(t, v) ==
  /\ v \in Contents =>
       IF txn[t] = None THEN v \in Blank ELSE ~txn[t].removed /\ txn[t].content = v
  /\ v = Gone => txn[t] = None \/ txn[t].removed
  /\ v = None => txn[t] = None

\* The books say of a transaction what they were told last: the page that is ingested
\* and not yet stored, or the cursor, unless the feed is going to tell more.
SaysSo(t) ==
  \/ t \in missed
  \/ IF At(w1, "advance") /\ P(w1).tid = t THEN Matches(t, P(w1).is)
     ELSE cursor[t] # atBank[t] \/ Matches(t, cursor[t])

BooksAsKnown == \A t \in Tids : RowOK(t) /\ SaysSo(t)

\* A version whose key is spent is the one the books hold, or is not coming.
Spent(t, c) == c \in Contents /\ Exists(First(VersionKey(t, c)))
FreshPage(p) ==
  /\ Spent(p.tid, p.is) => txn[p.tid].content = p.is
  /\ Spent(p.tid, atBank[p.tid]) => atBank[p.tid] = p.is
  /\ p.is \in Contents /\ txn[p.tid] # None => ~txn[p.tid].removed
NoneComesBack ==
  /\ \A t \in Tids : Spent(t, atBank[t]) => txn[t].content = atBank[t]
  /\ At(w1, "ingest") => FreshPage(P(w1))

OneSyncInv == IngestInv /\ OneLoop /\ Named /\ BooksAsKnown /\ NoneComesBack

\* What the last page does not tell, a webhook will.
Told1 == [cursor EXCEPT ![P(w1).tid] = P(w1).is]
NewsInv ==
  /\ At(w1, "idle") => CaughtUp \/ due \/ cut \/ status = "error"
  /\ At(w1, "ingest") \/ At(w1, "advance") => P(w1).more \/ due \/ News(Told1) = {}
  /\ At(w1, "last") => CaughtUp \/ due
  /\ ~At(w1, "idle") => status = "active"

-----------------------------------------------------------------------------
(* Entry ids and what an operation does to the entries *)

LEMMA IdParts ==
  ASSUME NEW i \in Ids
  PROVE  /\ i = <<i[1], i[2]>> /\ i[1] \in Keys /\ i[2] \in Nat
         /\ i[1] = <<i[1][1], i[1][2]>>
         /\ i[1][1] \in Tids \cup {None} /\ i[1][2] \in Contents \cup {None}
  BY DEF Ids, Keys

LEMMA FirstIsId ==
  ASSUME NEW k \in Keys
  PROVE  /\ First(k) \in Ids /\ First(k)[1] = k /\ First(k)[2] = 0
         /\ \A i \in Ids : i[1] = k /\ i[2] = 0 => i = First(k)
  BY IngestAssumption, IdParts DEF First, Ids

LEMMA KeysOfTxn ==
  ASSUME NEW t \in Tids, NEW c \in Contents
  PROVE  /\ AddKey(t) \in Keys /\ AddKey(t)[1] = t /\ AddKey(t)[2] = None
         /\ VersionKey(t, c) \in Keys /\ VersionKey(t, c)[1] = t /\ VersionKey(t, c)[2] = c
         /\ t # None /\ c # None
  BY NoneAssumption DEF AddKey, VersionKey, Keys

LEMMA RowKeys ==
  ASSUME NEW c \in Contents
  PROVE  RowKey(c) \in Keys /\ RowKey(c)[1] = None /\ RowKey(c)[2] = c /\ c # None
  BY NoneAssumption DEF RowKey, Keys

LEMMA UndoersAreSome ==
  /\ None \notin Undoers /\ <<"user", None>> \in Undoers
  /\ \A t \in Tids : <<"rev", t>> \in Undoers /\ <<"rm", t>> \in Undoers
  BY NoneAssumption DEF Undoers

EntriesType == [Ids -> [content : Contents \cup {None}, undo : Undoings]]

LEMMA UndoneEntries ==
  ASSUME NEW e \in EntriesType, NEW i \in Ids, NEW u \in Undoers
  PROVE  /\ Undone(e, i, u) \in EntriesType
         /\ \A j \in Ids : j # i => Undone(e, i, u)[j] = e[j]
         /\ Undone(e, i, u)[i] = [content |-> e[i].content, undo |-> u]
  BY DEF Undone, EntriesType, Undoings

LEMMA PostedEntries ==
  ASSUME NEW e \in EntriesType, NEW i \in Ids, NEW c \in Contents
  PROVE  LET new == [e EXCEPT ![i] = [content |-> c, undo |-> None]]
         IN  /\ new \in EntriesType
             /\ \A j \in Ids : j # i => new[j] = e[j]
             /\ new[i] = [content |-> c, undo |-> None]
  BY DEF EntriesType, Undoings

LEMMA WithPostEntries ==
  ASSUME NEW e \in EntriesType, NEW k \in Keys, NEW c \in Contents
  PROVE  /\ WithPost(e, k, c) \in EntriesType
         /\ \A j \in Ids : j # First(k) => WithPost(e, k, c)[j] = e[j]
         /\ Exists(First(k)) => WithPost(e, k, c)[First(k)] = e[First(k)]
         /\ ~Exists(First(k)) => WithPost(e, k, c)[First(k)] = [content |-> c, undo |-> None]
  BY FirstIsId, PostedEntries DEF WithPost

\* Nothing that is in the journal changes its content, and an undoing is final.
Settled ==
  \A j \in Ids : Exists(j) =>
    /\ entries'[j].content = entries[j].content
    /\ entries[j].undo # None => entries'[j].undo = entries[j].undo

LEMMA RepostsKeep ==
  ASSUME BooksInv, Settled, \A j \in Ids : Exists(j)' => Exists(j) \/ j[2] = 0
  PROVE  RepostsFollow'
<1> SUFFICES ASSUME NEW i \in Ids, NEW j \in Ids, i[1] = j[1], i[2] < j[2], Exists(j)'
             PROVE  Exists(i)' /\ entries'[i].undo = <<"user", None>>
  BY DEF RepostsFollow
<1>1. Exists(j)
  BY IdParts
<1>2. Exists(i) /\ entries[i].undo = <<"user", None>>
  BY <1>1 DEF BooksInv, RepostsFollow
<1> QED
  BY <1>2, UndoersAreSome DEF Settled, Exists

\* No entry of a key is live once the entry the key posted is undone by the feed.
LEMMA FeedUndoesAll ==
  ASSUME BooksInv, NEW i \in Ids, i[2] = 0, Exists(i), entries[i].undo # <<"user", None>>,
         NEW j \in Ids, j[1] = i[1], Exists(j)
  PROVE  j = i
<1>1. j[2] = 0
  BY IdParts DEF BooksInv, RepostsFollow
<1> QED
  BY <1>1, IdParts

LEMMA BoundRows ==
  ASSUME BooksInv, NEW t \in Tids, NEW c \in Contents, NEW i \in Ids
  PROVE  /\ Bound(t, c, i) \in [Tids -> Txn \cup {None}]
         /\ Bound(t, c, i)[t] = [content |-> c, entry |-> i, reversed |-> FALSE, removed |-> FALSE]
         /\ Bound(t, c, i)[t] # None
         /\ \A s \in Tids : s # t => Bound(t, c, i)[s] = txn[s]
<1> DEFINE b == [content |-> c, entry |-> i, reversed |-> FALSE, removed |-> FALSE]
<1>1. b \in Txn
  BY DEF Txn
<1>2. Bound(t, c, i) = [txn EXCEPT ![t] = b]
  BY DEF Bound
<1>3. b # None
  BY <1>1, NoneAssumption
<1> HIDE DEF b
<1>4. /\ Bound(t, c, i) \in [Tids -> Txn \cup {None}] /\ Bound(t, c, i)[t] = b
      /\ \A s \in Tids : s # t => Bound(t, c, i)[s] = txn[s]
  BY <1>1, <1>2 DEF BooksInv, BooksOK
<1> QED
  BY <1>3, <1>4 DEF b

LEMMA TxnRow ==
  ASSUME BooksInv, NEW t \in Tids, txn[t] # None
  PROVE  /\ txn[t] \in Txn /\ txn[t].entry \in Ids /\ txn[t].entry[2] = 0 /\ Exists(txn[t].entry)
         /\ txn[t].content \in Contents /\ txn[t].reversed \in BOOLEAN
<1>1. txn[t] \in Txn
  BY DEF BooksInv, BooksOK
<1> QED
  BY <1>1 DEF Txn, BooksInv, BooksOK

LEMMA IndexedRow ==
  ASSUME NEW c \in Contents, NEW i \in Ids
  PROVE  /\ Indexed(c, i) \in [content : Contents, source : {"csv", "plaid"}, entry : Ids]
         /\ Indexed(c, i).entry = i /\ Indexed(c, i).content = c
  BY DEF Indexed, Source

-----------------------------------------------------------------------------
(* What each operation does to the books *)

\* A transaction that has an entry keeps one.
StaysBound == \A t \in Tids : txn[t] # None => txn'[t] # None

LEMMA QuietBooks == BooksInv /\ UNCHANGED <<txn, entries, index>> => BooksInv'
  BY DEF BooksInv, BooksOK, RepostsFollow, BoundToOwn, NoneUnbound, VersionNamed, MarkedReversed,
         LiveIndexed, RowsNamed, Exists, Live

\* A transaction is bound to the entry of a statement row, before it has any.
LEMMA DupKeeps ==
  ASSUME BooksInv, NEW w \in Workers, NEW t \in Tids, P(w).tid = t,
         NEW c \in Contents, P(w).is = c, IngestDup(w)
  PROVE  BooksInv' /\ txn'[t] # None /\ StaysBound
<1>1. PICK i \in Dups(c, "plaid") : txn' = Bound(t, c, i)
  BY DEF IngestDup
<1>2. i \in Ids /\ Exists(i) /\ i[2] = 0
  BY <1>1 DEF Dups, Live, BooksInv, BooksOK
<1>3. UNCHANGED <<entries, index>> /\ txn[t] = None
  BY DEF IngestDup
<1>4. /\ txn' \in [Tids -> Txn \cup {None}] /\ txn'[t] # None
      /\ txn'[t] = [content |-> c, entry |-> i, reversed |-> FALSE, removed |-> FALSE]
      /\ \A s \in Tids : s # t => txn'[s] = txn[s]
  BY <1>1, <1>2, BoundRows
<1>5. BooksOK'
  BY <1>2, <1>3, <1>4 DEF BooksInv, BooksOK, Exists
<1>6. \A j \in Ids : ~(Exists(j) /\ j[1][1] = t)
  BY <1>3 DEF BooksInv, NoneUnbound
<1>7. RepostsFollow' /\ LiveIndexed' /\ RowsNamed'
  BY <1>3 DEF BooksInv, RepostsFollow, LiveIndexed, RowsNamed, Exists, Live
<1>8. BoundToOwn' /\ NoneUnbound'
  BY <1>3, <1>4, <1>6 DEF BooksInv, BoundToOwn, NoneUnbound, Exists, Live
<1>9. VersionNamed'
  BY <1>2, <1>4, <1>6 DEF BooksInv, VersionNamed
<1>10. MarkedReversed'
  <2> SUFFICES ASSUME NEW s \in Tids, txn'[s] # None, txn'[s].reversed
               PROVE  entries'[txn'[s].entry].undo = <<"rm", s>>
    BY DEF MarkedReversed
  <2>1. s # t /\ txn'[s] = txn[s]
    BY <1>4
  <2> QED
    BY <1>3, <2>1 DEF BooksInv, MarkedReversed
<1> QED
  BY <1>4, <1>5, <1>7, <1>8, <1>9, <1>10 DEF BooksInv, StaysBound

LEMMA SameKeeps ==
  ASSUME BooksInv, NEW w \in Workers, NEW t \in Tids, P(w).tid = t, IngestSame(w)
  PROVE  BooksInv' /\ txn'[t] # None /\ StaysBound
<1>1. txn[t] # None /\ txn' = [txn EXCEPT ![t].removed = FALSE] /\ UNCHANGED <<entries, index>>
  BY DEF IngestSame, Same
<1>2. /\ txn' \in [Tids -> Txn \cup {None}]
      /\ \A s \in Tids : /\ (txn'[s] = None) = (txn[s] = None)
                         /\ txn[s] # None => /\ txn'[s].entry = txn[s].entry
                                             /\ txn'[s].content = txn[s].content
                                             /\ txn'[s].reversed = txn[s].reversed
  <2>1. txn[t] \in Txn /\ t \in Tids
    BY <1>1 DEF BooksInv, BooksOK
  <2>2. [txn[t] EXCEPT !.removed = FALSE] \in Txn
    BY <2>1 DEF Txn
  <2>3. [txn[t] EXCEPT !.removed = FALSE] # None
    BY <2>2, NoneAssumption
  <2>4. /\ [txn[t] EXCEPT !.removed = FALSE].entry = txn[t].entry
        /\ [txn[t] EXCEPT !.removed = FALSE].content = txn[t].content
        /\ [txn[t] EXCEPT !.removed = FALSE].reversed = txn[t].reversed
    BY <2>1 DEF Txn
  <2>5. txn'[t] = [txn[t] EXCEPT !.removed = FALSE] /\ \A s \in Tids : s # t => txn'[s] = txn[s]
    BY <1>1, <2>1 DEF BooksInv, BooksOK
  <2>6. txn' \in [Tids -> Txn \cup {None}]
    BY <1>1, <2>1, <2>2 DEF BooksInv, BooksOK
  <2> QED
    BY <1>1, <2>3, <2>4, <2>5, <2>6
<1>3. BooksOK'
  BY <1>1, <1>2 DEF BooksInv, BooksOK, Exists
<1>4. RepostsFollow' /\ LiveIndexed' /\ RowsNamed'
  BY <1>1 DEF BooksInv, RepostsFollow, LiveIndexed, RowsNamed, Exists, Live
<1>5. BoundToOwn' /\ NoneUnbound'
  BY <1>1, <1>2 DEF BooksInv, BoundToOwn, NoneUnbound, Exists, Live
<1>6. VersionNamed'
  BY <1>2 DEF BooksInv, VersionNamed
<1>7. MarkedReversed'
  <2> SUFFICES ASSUME NEW s \in Tids, txn'[s] # None, txn'[s].reversed
               PROVE  entries'[txn'[s].entry].undo = <<"rm", s>>
    BY DEF MarkedReversed
  <2> QED
    BY <1>1, <1>2 DEF BooksInv, MarkedReversed
<1> QED
  BY <1>1, <1>2, <1>3, <1>4, <1>5, <1>6, <1>7 DEF BooksInv, StaysBound

\* The first posting of a transaction, which had no entry.
LEMMA NewKeeps ==
  ASSUME BooksInv, NEW w \in Workers, NEW t \in Tids, P(w).tid = t,
         NEW c \in Contents, P(w).is = c, IngestNew(w)
  PROVE  BooksInv' /\ txn'[t] # None /\ StaysBound
<1> DEFINE k == AddKey(t)
           i == First(k)
<1>1. /\ txn[t] = None /\ txn' = Bound(t, c, i)
      /\ entries' = WithPost(entries, k, c) /\ index' = index \cup {Indexed(c, i)}
  BY DEF IngestNew
<1>2. k \in Keys /\ k[1] = t /\ k[2] = None /\ t # None /\ c # None
  BY KeysOfTxn
<1> HIDE DEF k
<1>3. i \in Ids /\ i[1] = k /\ i[2] = 0
  BY <1>2, FirstIsId
<1>4. \A j \in Ids : ~(Exists(j) /\ j[1][1] = t)
  BY <1>1, <1>2 DEF BooksInv, NoneUnbound
<1>5. /\ entries' \in EntriesType
      /\ \A j \in Ids : j # i => entries'[j] = entries[j]
      /\ entries'[i] = [content |-> c, undo |-> None]
  BY <1>1, <1>2, <1>3, <1>4, WithPostEntries DEF BooksInv, BooksOK, EntriesType
<1>6. /\ txn' \in [Tids -> Txn \cup {None}] /\ txn'[t] # None
      /\ txn'[t] = [content |-> c, entry |-> i, reversed |-> FALSE, removed |-> FALSE]
      /\ \A s \in Tids : s # t => txn'[s] = txn[s]
  BY <1>1, <1>2, <1>3, BoundRows
<1> HIDE DEF i
<1>7. /\ Indexed(c, i) \in [content : Contents, source : {"csv", "plaid"}, entry : Ids]
      /\ Indexed(c, i).entry = i
  BY <1>2, <1>3, IndexedRow
<1>8. Settled /\ \A j \in Ids : Exists(j)' => Exists(j) \/ j = i
  BY <1>3, <1>4, <1>5, <1>2 DEF Settled, Exists
<1>9. BooksOK'
  <2>1. \A j \in Ids : Exists(j) => Exists(j)'
    BY <1>8 DEF Settled, Exists
  <2>2. Exists(i)'
    BY <1>2, <1>5 DEF Exists
  <2>3. /\ index' \subseteq [content : Contents, source : {"csv", "plaid"}, entry : Ids]
        /\ \A x \in index' : Exists(x.entry)' /\ x.entry[2] = 0
    BY <1>1, <1>3, <1>7, <2>1, <2>2 DEF BooksInv, BooksOK
  <2>4. \A s \in Tids : txn'[s] # None =>
          entries'[txn'[s].entry].content # None /\ txn'[s].entry[2] = 0
    BY <1>3, <1>6, <2>1, <2>2, TxnRow DEF Exists
  <2> QED
    BY <1>5, <1>6, <2>3, <2>4 DEF BooksOK, EntriesType, Exists
<1>10. RepostsFollow'
  BY <1>3, <1>8, RepostsKeep
<1>11. BoundToOwn' /\ NoneUnbound'
  BY <1>2, <1>3, <1>4, <1>5, <1>6 DEF BooksInv, BoundToOwn, NoneUnbound, Exists, Live
<1>12. VersionNamed'
  BY <1>2, <1>3, <1>6 DEF BooksInv, VersionNamed
<1>13. MarkedReversed'
  <2> SUFFICES ASSUME NEW s \in Tids, txn'[s] # None, txn'[s].reversed
               PROVE  entries'[txn'[s].entry].undo = <<"rm", s>>
    BY DEF MarkedReversed
  <2>1. s # t /\ txn'[s] = txn[s]
    BY <1>6
  <2>2. txn[s].entry # i /\ txn[s].entry \in Ids
    BY <1>2, <1>3, <1>4, <2>1, TxnRow
  <2> QED
    BY <1>5, <2>1, <2>2 DEF BooksInv, MarkedReversed
<1>14. LiveIndexed' /\ RowsNamed'
  BY <1>1, <1>2, <1>3, <1>5 DEF BooksInv, LiveIndexed, RowsNamed, Exists, Live
<1> QED
  BY <1>6, <1>9, <1>10, <1>11, <1>12, <1>13, <1>14 DEF BooksInv, StaysBound

LEMMA MarkStays ==
  ASSUME BooksInv, Settled, NEW s \in Tids, txn'[s] = txn[s], txn[s] # None, txn[s].reversed
  PROVE  entries'[txn'[s].entry].undo = <<"rm", s>>
<1>1. entries[txn[s].entry].undo = <<"rm", s>>
  BY DEF BooksInv, MarkedReversed
<1> QED
  BY <1>1, TxnRow, UndoersAreSome DEF Settled

LEMMA MarksKeep ==
  ASSUME BooksInv, Settled, NEW t \in Tids, \A s \in Tids \ {t} : txn'[s] = txn[s],
         txn'[t] # None /\ txn'[t].reversed => entries'[txn'[t].entry].undo = <<"rm", t>>
  PROVE  MarkedReversed'
<1> SUFFICES ASSUME NEW s \in Tids, s # t, txn'[s] # None, txn'[s].reversed
             PROVE  entries'[txn'[s].entry].undo = <<"rm", s>>
  BY DEF MarkedReversed
<1> QED
  BY MarkStays

LEMMA MarksStay == ASSUME BooksInv, Settled, UNCHANGED txn PROVE MarkedReversed'
<1> SUFFICES ASSUME NEW s \in Tids, txn'[s] # None, txn'[s].reversed
             PROVE  entries'[txn'[s].entry].undo = <<"rm", s>>
  BY DEF MarkedReversed
<1> QED
  BY MarkStays

\* Rows of the index that are still there name entries that are.
LEMMA IndexKeeps ==
  ASSUME BooksInv, Settled, NEW c \in Contents, NEW k \in Ids, k[2] = 0, entries'[k].content # None,
         index' \subseteq index \cup {Indexed(c, k)}
  PROVE  /\ index' \subseteq [content : Contents, source : {"csv", "plaid"}, entry : Ids]
         /\ \A x \in index' : entries'[x.entry].content # None /\ x.entry[2] = 0
  BY IndexedRow DEF BooksInv, BooksOK, Settled, Exists

\* What is undone and what is posted when the feed replaces a transaction's entry.
LEMMA ChangedEntries ==
  ASSUME BooksInv, NEW w \in Workers, NEW t \in Tids, P(w).tid = t,
         NEW c \in Contents, P(w).is = c, IngestChanged(w)
  PROVE  LET i == txn[t].entry
             k == First(VersionKey(t, c))
         IN  /\ i \in Ids /\ Exists(i) /\ k # i /\ entries' \in EntriesType
             /\ \A j \in Ids : Exists(j) /\ j[1] = i[1] => j = i
             /\ \A j \in Ids \ {i, k} : entries'[j] = entries[j]
             /\ entries'[i].content = entries[i].content /\ entries'[i].undo # None
             /\ entries[i].undo # None => entries'[i].undo = entries[i].undo
             /\ entries'[k] = IF Exists(k) THEN entries[k] ELSE [content |-> c, undo |-> None]
<1> DEFINE i == txn[t].entry
           v == VersionKey(t, c)
           k == First(v)
           mid == IF txn[t].reversed THEN entries ELSE Undone(entries, i, <<"rev", t>>)
<1>1. txn[t] # None /\ txn[t].content # c
  BY DEF IngestChanged, Changed
<1>2. i \in Ids /\ i[2] = 0 /\ Exists(i) /\ entries \in EntriesType /\ entries[i].undo \in Undoings
  BY <1>1, TxnRow DEF BooksInv, BooksOK, EntriesType
<1>3. entries' = WithPost(mid, v, c)
  BY DEF IngestChanged
<1>4. txn[t].reversed \/ CanReverse(i, <<"rev", t>>, MonthOf[c] \notin closed)
  BY DEF IngestChanged, Ingesting, Refused
<1>5. /\ entries[i].undo # <<"user", None>>
      /\ ~txn[t].reversed => entries[i].undo \in {None, <<"rev", t>>}
      /\ txn[t].reversed => entries[i].undo # None
  <2>1. txn[t].reversed => entries[i].undo = <<"rm", t>>
    BY <1>1 DEF BooksInv, MarkedReversed
  <2>2. ~txn[t].reversed => entries[i].undo \in {None, <<"rev", t>>}
    BY <1>4 DEF CanReverse, Live
  <2>3. <<"rm", t>> # None /\ None # <<"user", None>>
    BY UndoersAreSome
  <2>4. <<"rm", t>> # <<"user", None>> /\ <<"rev", t>> # <<"user", None>>
    OBVIOUS
  <2> HIDE DEF i
  <2> QED
    BY <2>1, <2>2, <2>3, <2>4
<1>6. v \in Keys /\ v[1] = t /\ v[2] = c /\ c # None /\ k \in Ids /\ k[1] = v
  BY KeysOfTxn, FirstIsId
<1>7. k # i
  BY <1>1, <1>6 DEF BooksInv, VersionNamed
<1>8. \A j \in Ids : Exists(j) /\ j[1] = i[1] => j = i
  BY <1>2, <1>5, FeedUndoesAll
<1>9. /\ mid \in EntriesType /\ \A j \in Ids : j # i => mid[j] = entries[j]
      /\ mid[i].content = entries[i].content /\ mid[i].undo # None
      /\ entries[i].undo # None => mid[i].undo = entries[i].undo
  <2>1. CASE txn[t].reversed
    BY <1>2, <1>5, <2>1
  <2>2. CASE ~txn[t].reversed
    <3>1. mid = Undone(entries, i, <<"rev", t>>) /\ <<"rev", t>> \in Undoers
      BY <2>2, UndoersAreSome
    <3> HIDE DEF mid, i
    <3>2. /\ mid \in EntriesType /\ \A j \in Ids : j # i => mid[j] = entries[j]
          /\ mid[i] = [content |-> entries[i].content, undo |-> <<"rev", t>>]
      BY <1>2, <3>1, UndoneEntries
    <3> QED
      BY <1>5, <2>2, <3>1, <3>2, UndoersAreSome
  <2> QED
    BY <2>1, <2>2
<1> HIDE DEF mid, v, i
<1>10. /\ entries' \in EntriesType /\ \A j \in Ids : j # k => entries'[j] = mid[j]
       /\ Exists(k) => entries'[k] = mid[k]
       /\ ~Exists(k) => entries'[k] = [content |-> c, undo |-> None]
  BY <1>3, <1>6, <1>9, WithPostEntries
<1> QED
  BY <1>2, <1>6, <1>7, <1>8, <1>9, <1>10 DEF i, v

LEMMA ChangedKeeps ==
  ASSUME BooksInv, NEW w \in Workers, NEW t \in Tids, P(w).tid = t,
         NEW c \in Contents, P(w).is = c, IngestChanged(w)
  PROVE  BooksInv' /\ txn'[t] # None /\ StaysBound
<1>0. PICK i \in Ids : i = txn[t].entry
  BY ChangedEntries
<1> DEFINE k == First(VersionKey(t, c))
<1>1. k \in Ids /\ k[1] = <<t, c>> /\ k[1][1] = t /\ k[1][2] = c /\ k[2] = 0 /\ t # None /\ c # None
  BY KeysOfTxn, FirstIsId DEF VersionKey
<1>2. /\ k # i /\ Exists(i) /\ entries' \in EntriesType
      /\ \A j \in Ids : Exists(j) /\ j[1] = i[1] => j = i
      /\ \A j \in Ids \ {i, k} : entries'[j] = entries[j]
      /\ entries'[i].content = entries[i].content /\ entries'[i].undo # None
      /\ entries[i].undo # None => entries'[i].undo = entries[i].undo
      /\ entries'[k] = IF Exists(k) THEN entries[k] ELSE [content |-> c, undo |-> None]
  BY <1>0, ChangedEntries
<1>3. /\ txn' = Bound(t, c, k) /\ txn[t] # None
      /\ index' = (IF txn[t].reversed THEN index ELSE Pruned(i)) \cup {Indexed(c, k)}
  BY <1>0 DEF IngestChanged, Changed
<1>4. /\ txn' \in [Tids -> Txn \cup {None}] /\ txn'[t] # None
      /\ txn'[t] = [content |-> c, entry |-> k, reversed |-> FALSE, removed |-> FALSE]
      /\ \A s \in Tids : s # t => txn'[s] = txn[s]
  BY <1>1, <1>3, BoundRows
<1>5. Pruned(i) \subseteq index
  BY DEF Pruned
<1> HIDE DEF k
<1>6. Settled /\ entries'[k].content # None
  BY <1>1, <1>2 DEF Settled, Exists
<1>7. \A j \in Ids : Exists(j)' => Exists(j) \/ j = k
  BY <1>2 DEF Exists
<1>8. BooksOK'
  <2>1. \A s \in Tids : txn'[s] # None => entries'[txn'[s].entry].content # None /\ txn'[s].entry[2] = 0
    BY <1>1, <1>4, <1>6, TxnRow DEF Settled, Exists
  <2>2. index' \subseteq index \cup {Indexed(c, k)}
    BY <1>3, <1>5
  <2> QED
    BY <1>1, <1>2, <1>4, <1>6, <2>1, <2>2, IndexKeeps DEF BooksOK, EntriesType, Exists
<1>9. RepostsFollow'
  BY <1>1, <1>6, <1>7, RepostsKeep
<1>10. BoundToOwn'
  <2> SUFFICES ASSUME NEW x \in Ids, Live(x)', x[1][1] \in Tids
               PROVE  x[1] = txn'[x[1][1]].entry[1]
    BY DEF BoundToOwn
  <2>1. x # i
    BY <1>2 DEF Live
  <2>2. CASE x = k
    BY <1>1, <1>4, <2>2
  <2>3. CASE x # k
    <3>1. Live(x)
      BY <1>2, <2>1, <2>3 DEF Live, Exists
    <3>2. x[1] = txn[x[1][1]].entry[1]
      BY <3>1 DEF BooksInv, BoundToOwn
    <3>3. x[1][1] # t
      BY <1>0, <1>2, <2>1, <3>1, <3>2 DEF Live
    <3> QED
      BY <1>4, <3>2, <3>3
  <2> QED
    BY <2>2, <2>3
<1>11. NoneUnbound'
  BY <1>1, <1>4, <1>7 DEF BooksInv, NoneUnbound
<1>12. VersionNamed'
  BY <1>1, <1>4 DEF BooksInv, VersionNamed
<1>13. MarkedReversed'
  BY <1>4, <1>6, MarksKeep
<1>14. LiveIndexed'
  <2> SUFFICES ASSUME NEW x \in Ids, Live(x)', x[2] = 0
               PROVE  Indexed(entries'[x].content, x) \in index'
    BY DEF LiveIndexed, Indexed
  <2>1. x # i
    BY <1>2 DEF Live
  <2>2. CASE x = k /\ ~Exists(k)
    BY <1>2, <1>3, <2>2
  <2>3. CASE ~(x = k /\ ~Exists(k))
    <3>1. entries'[x] = entries[x]
      BY <1>2, <2>1, <2>3
    <3>2. Indexed(entries[x].content, x) \in index
      BY <3>1 DEF BooksInv, LiveIndexed, Live, Exists
    <3>3. Indexed(entries[x].content, x).entry = x
      BY DEF Indexed
    <3> QED
      BY <1>3, <2>1, <3>1, <3>2, <3>3 DEF Pruned
  <2> QED
    BY <2>2, <2>3
<1>15. RowsNamed'
  BY <1>1, <1>6, <1>7 DEF BooksInv, RowsNamed, Settled
<1> QED
  BY <1>4, <1>8, <1>9, <1>10, <1>11, <1>12, <1>13, <1>14, <1>15 DEF BooksInv, StaysBound

\* An entry is undone and its rows leave the index.
LEMMA UndoKeeps ==
  ASSUME BooksInv, NEW i \in Ids, Exists(i), NEW u \in Undoers, entries[i].undo \in {None, u},
         entries' = Undone(entries, i, u), index' = Pruned(i)
  PROVE  /\ Settled /\ RepostsFollow' /\ LiveIndexed' /\ RowsNamed'
         /\ entries' \in EntriesType
         /\ index' \subseteq [content : Contents, source : {"csv", "plaid"}, entry : Ids]
         /\ \A x \in index' : entries'[x.entry].content # None /\ x.entry[2] = 0
         /\ \A j \in Ids : (Exists(j)' <=> Exists(j)) /\ (Live(j)' => Live(j))
         /\ entries'[i].undo = u
<1>1. /\ entries' \in EntriesType /\ \A j \in Ids : j # i => entries'[j] = entries[j]
      /\ entries'[i] = [content |-> entries[i].content, undo |-> u]
  BY UndoneEntries DEF BooksInv, BooksOK, EntriesType
<1>2. index' \subseteq index /\ \A x \in index : x.entry # i => x \in index'
  BY DEF Pruned
<1>3. Settled /\ (\A j \in Ids : (Exists(j)' <=> Exists(j)) /\ (Live(j)' => Live(j) /\ j # i))
  BY <1>1, UndoersAreSome DEF Settled, Exists, Live
<1>4. RepostsFollow'
  BY <1>3, RepostsKeep
<1>5. LiveIndexed'
  <2> SUFFICES ASSUME NEW x \in Ids, Live(x)', x[2] = 0
               PROVE  Indexed(entries'[x].content, x) \in index'
    BY DEF LiveIndexed, Indexed
  <2>1. Live(x) /\ x # i /\ entries'[x] = entries[x]
    BY <1>1, <1>3
  <2>2. Indexed(entries[x].content, x) \in index
    BY <2>1 DEF BooksInv, LiveIndexed
  <2>3. Indexed(entries[x].content, x).entry = x
    BY DEF Indexed
  <2> QED
    BY <1>2, <2>1, <2>2, <2>3
<1>6. RowsNamed'
  BY <1>3 DEF BooksInv, RowsNamed, Settled
<1>7. \A x \in index' : entries'[x.entry].content # None /\ x.entry[2] = 0
  BY <1>2, <1>3 DEF BooksInv, BooksOK, Settled, Exists
<1>8. index' \subseteq [content : Contents, source : {"csv", "plaid"}, entry : Ids]
  BY <1>2 DEF BooksInv, BooksOK
<1> QED
  BY <1>1, <1>3, <1>4, <1>5, <1>6, <1>7, <1>8

\* A user undoes an entry and the bank's rows stay as they are.
LEMMA ReverseKeeps ==
  ASSUME BooksInv, NEW i \in Ids, Reverse(i)
  PROVE  BooksInv'
<1>1. /\ Exists(i) /\ entries[i].undo = None /\ UNCHANGED txn /\ index' = Pruned(i)
      /\ entries' = Undone(entries, i, <<"user", None>>)
  BY DEF Reverse, UserUndoes, Live
<1>2. /\ Settled /\ RepostsFollow' /\ LiveIndexed' /\ RowsNamed'
      /\ entries' \in EntriesType
      /\ index' \subseteq [content : Contents, source : {"csv", "plaid"}, entry : Ids]
      /\ \A x \in index' : entries'[x.entry].content # None /\ x.entry[2] = 0
      /\ \A j \in Ids : (Exists(j)' <=> Exists(j)) /\ (Live(j)' => Live(j))
  BY <1>1, UndoKeeps, UndoersAreSome
<1>3. BooksOK'
  <2>1. \A t \in Tids : txn'[t] # None => entries'[txn'[t].entry].content # None /\ txn'[t].entry[2] = 0
    BY <1>1, <1>2, TxnRow DEF Settled, Exists
  <2> QED
    BY <1>1, <1>2, <2>1 DEF BooksInv, BooksOK, EntriesType, Exists
<1>4. BoundToOwn' /\ NoneUnbound' /\ VersionNamed'
  BY <1>1, <1>2 DEF BooksInv, BoundToOwn, NoneUnbound, VersionNamed
<1>5. MarkedReversed'
  BY <1>1, <1>2, MarksStay
<1> QED
  BY <1>2, <1>3, <1>4, <1>5 DEF BooksInv

\* The bank withdraws a transaction: its entry is undone, unless it was before.
LEMMA RemovedKeeps ==
  ASSUME BooksInv, NEW w \in Workers, NEW t \in Tids, P(w).tid = t, IngestRemoved(w)
  PROVE  BooksInv' /\ txn'[t] # None /\ StaysBound
<1>1. txn[t] # None
  BY DEF IngestRemoved, Dropped
<1>2. PICK i \in Ids : i = txn[t].entry /\ i[2] = 0 /\ Exists(i)
  BY <1>1, TxnRow
<1>3. /\ txn' = [txn EXCEPT ![t].reversed = TRUE, ![t].removed = TRUE]
      /\ txn[t].reversed => UNCHANGED <<entries, index>>
      /\ ~txn[t].reversed => entries' = Undone(entries, i, <<"rm", t>>) /\ index' = Pruned(i)
  BY <1>2 DEF IngestRemoved
<1>4. ~txn[t].reversed => entries[i].undo \in {None, <<"rm", t>>}
  BY <1>1, <1>2 DEF IngestRemoved, Ingesting, Refused, CanReverse, Live
<1>5. /\ Settled /\ RepostsFollow' /\ LiveIndexed' /\ RowsNamed'
      /\ entries' \in EntriesType
      /\ index' \subseteq [content : Contents, source : {"csv", "plaid"}, entry : Ids]
      /\ \A x \in index' : entries'[x.entry].content # None /\ x.entry[2] = 0
      /\ \A j \in Ids : (Exists(j)' <=> Exists(j)) /\ (Live(j)' => Live(j))
      /\ entries'[i].undo = <<"rm", t>>
  <2>1. CASE txn[t].reversed
    <3>1. UNCHANGED <<entries, index>> /\ entries[i].undo = <<"rm", t>>
      BY <1>1, <1>2, <1>3, <2>1 DEF BooksInv, MarkedReversed
    <3>2. Settled /\ RepostsFollow' /\ LiveIndexed' /\ RowsNamed'
      BY <3>1 DEF Settled, BooksInv, RepostsFollow, LiveIndexed, RowsNamed, Exists, Live
    <3> QED
      BY <3>1, <3>2 DEF BooksInv, BooksOK, EntriesType, Exists, Live
  <2>2. CASE ~txn[t].reversed
    BY <1>2, <1>3, <1>4, <2>2, UndoKeeps, UndoersAreSome
  <2> QED
    BY <2>1, <2>2
<1>6. /\ txn' \in [Tids -> Txn \cup {None}] /\ txn'[t] # None
      /\ txn'[t].entry = i /\ txn'[t].content = txn[t].content
      /\ \A s \in Tids : s # t => txn'[s] = txn[s]
  <2>1. txn[t] \in Txn
    BY <1>1, TxnRow
  <2> DEFINE b == [txn[t] EXCEPT !.reversed = TRUE, !.removed = TRUE]
  <2>2. b \in Txn /\ b.entry = i /\ b.content = txn[t].content
    BY <1>2, <2>1 DEF Txn
  <2>3. txn' = [txn EXCEPT ![t] = b]
    BY <1>3, <2>1 DEF BooksInv, BooksOK
  <2> HIDE DEF b
  <2> QED
    BY <2>2, <2>3, NoneAssumption DEF BooksInv, BooksOK
<1>7. BooksOK'
  <2>1. \A s \in Tids : txn'[s] # None => entries'[txn'[s].entry].content # None /\ txn'[s].entry[2] = 0
    BY <1>2, <1>5, <1>6, TxnRow DEF Settled, Exists
  <2> QED
    BY <1>5, <1>6, <2>1 DEF BooksOK, EntriesType, Exists
<1>8. BoundToOwn'
  <2> SUFFICES ASSUME NEW x \in Ids, Live(x)', x[1][1] \in Tids
               PROVE  x[1] = txn'[x[1][1]].entry[1]
    BY DEF BoundToOwn
  <2>1. x[1] = txn[x[1][1]].entry[1]
    BY <1>5 DEF BooksInv, BoundToOwn
  <2> QED
    BY <1>2, <1>6, <2>1
<1>9. NoneUnbound'
  BY <1>5, <1>6 DEF BooksInv, NoneUnbound
<1>10. VersionNamed'
  BY <1>1, <1>2, <1>6 DEF BooksInv, VersionNamed
<1>11. MarkedReversed'
  BY <1>5, <1>6, MarksKeep
<1> QED
  BY <1>5, <1>6, <1>7, <1>8, <1>9, <1>10, <1>11 DEF BooksInv, StaysBound

\* A user undoes an entry and reposts it under the next id of its key.
LEMMA RecategorizeKeeps ==
  ASSUME BooksInv, NEW i \in Ids, Recategorize(i)
  PROVE  BooksInv'
<1> DEFINE j   == <<i[1], i[2] + 1>>
           mid == Undone(entries, i, <<"user", None>>)
<1>1. /\ Exists(i) /\ entries[i].undo = None /\ UNCHANGED txn /\ index' = Pruned(i)
      /\ entries' = [mid EXCEPT ![j] = [content |-> entries[i].content, undo |-> None]]
  BY DEF Recategorize, UserUndoes, Live
<1>2. /\ mid \in EntriesType /\ \A x \in Ids : x # i => mid[x] = entries[x]
      /\ mid[i] = [content |-> entries[i].content, undo |-> <<"user", None>>]
  <2>1. entries \in EntriesType /\ <<"user", None>> \in Undoers
    BY UndoersAreSome DEF BooksInv, BooksOK, EntriesType
  <2> QED
    BY <2>1, UndoneEntries
<1>3. i[1] = j[1] /\ j[2] = i[2] + 1 /\ i[2] \in Nat /\ j # i
  BY IdParts
<1>4. entries[i].content \in Contents /\ entries[i].content # None
  BY <1>1 DEF BooksInv, BooksOK, Exists
<1>5. j \in Ids => ~Exists(j)
  BY <1>1, <1>3, UndoersAreSome DEF BooksInv, RepostsFollow
<1> HIDE DEF mid, j
<1>6. /\ entries' \in EntriesType /\ \A x \in Ids : x # i /\ x # j => entries'[x] = entries[x]
      /\ entries'[i] = [content |-> entries[i].content, undo |-> <<"user", None>>]
      /\ j \in Ids => entries'[j] = [content |-> entries[i].content, undo |-> None]
  <2>1. CASE j \in Ids
    <3> DEFINE d == entries[i].content
    <3>1. d \in Contents /\ entries' = [mid EXCEPT ![j] = [content |-> d, undo |-> None]]
      BY <1>1, <1>4
    <3> HIDE DEF d
    <3>2. /\ entries' \in EntriesType /\ \A x \in Ids : x # j => entries'[x] = mid[x]
          /\ entries'[j] = [content |-> d, undo |-> None]
      BY <1>2, <2>1, <3>1 DEF EntriesType, Undoings
    <3> QED
      BY <1>2, <1>3, <3>2 DEF d
  <2>2. CASE j \notin Ids
    <3>1. entries' = mid
      BY <1>1, <1>2, <2>2 DEF EntriesType
    <3> QED
      BY <1>2, <2>2, <3>1
  <2> QED
    BY <2>1, <2>2
<1>7. Settled /\ (\A x \in Ids : Exists(x)' => Exists(x) \/ x = j) /\ ~Live(i)'
  BY <1>1, <1>5, <1>6, UndoersAreSome DEF Settled, Exists, Live
<1>8. index' \subseteq index /\ \A x \in index : x.entry # i => x \in index'
  BY <1>1 DEF Pruned
<1>9. BooksOK'
  <2>1. \A t \in Tids : txn'[t] # None => entries'[txn'[t].entry].content # None /\ txn'[t].entry[2] = 0
    BY <1>1, <1>7, TxnRow DEF Settled, Exists
  <2>2. \A x \in index' : entries'[x.entry].content # None /\ x.entry[2] = 0
    BY <1>7, <1>8 DEF BooksInv, BooksOK, Settled, Exists
  <2> QED
    BY <1>1, <1>6, <1>8, <2>1, <2>2 DEF BooksInv, BooksOK, EntriesType, Exists
<1>10. RepostsFollow'
  <2> SUFFICES ASSUME NEW x \in Ids, NEW y \in Ids, x[1] = y[1], x[2] < y[2], Exists(y)'
               PROVE  Exists(x)' /\ entries'[x].undo = <<"user", None>>
    BY DEF RepostsFollow
  <2>1. CASE Exists(y)
    <3>1. Exists(x) /\ entries[x].undo = <<"user", None>>
      BY <2>1 DEF BooksInv, RepostsFollow
    <3> QED
      BY <1>7, <3>1, UndoersAreSome DEF Settled, Exists
  <2>2. CASE y = j
    <3>1. x[1] = i[1] /\ (x[2] = i[2] \/ x[2] < i[2])
      BY <1>3, <2>2, IdParts
    <3>2. CASE x[2] = i[2]
      <4>1. x = i
        BY <3>1, <3>2, IdParts
      <4> QED
        BY <1>4, <1>6, <4>1 DEF Exists
    <3>3. CASE x[2] < i[2]
      <4>1. Exists(x) /\ entries[x].undo = <<"user", None>>
        BY <1>1, <3>1, <3>3 DEF BooksInv, RepostsFollow
      <4> QED
        BY <1>7, <4>1, UndoersAreSome DEF Settled, Exists
    <3> QED
      BY <3>1, <3>2, <3>3
  <2> QED
    BY <1>7, <2>1, <2>2
<1>11. \A x \in Ids : Live(x)' => Live(x) \/ (x = j /\ x[1] = i[1] /\ Live(i) /\ x[2] # 0)
  BY <1>1, <1>3, <1>6, <1>7 DEF Live, Exists
<1>12. BoundToOwn'
  BY <1>1, <1>11 DEF BooksInv, BoundToOwn
<1>13. NoneUnbound'
  BY <1>1, <1>3, <1>7 DEF BooksInv, NoneUnbound
<1>14. VersionNamed'
  BY <1>1 DEF BooksInv, VersionNamed
<1>15. MarkedReversed'
  BY <1>1, <1>7, MarksStay
<1>16. LiveIndexed'
  <2> SUFFICES ASSUME NEW x \in Ids, Live(x)', x[2] = 0
               PROVE  Indexed(entries'[x].content, x) \in index'
    BY DEF LiveIndexed, Indexed
  <2>1. Live(x) /\ x # i /\ x # j
    BY <1>3, <1>7, <1>11
  <2>2. Indexed(entries[x].content, x) \in index /\ entries'[x] = entries[x]
    BY <1>6, <2>1 DEF BooksInv, LiveIndexed
  <2>3. Indexed(entries[x].content, x).entry = x
    BY DEF Indexed
  <2> QED
    BY <1>8, <2>1, <2>2, <2>3
<1>17. RowsNamed'
  BY <1>3, <1>7 DEF BooksInv, RowsNamed, Settled
<1> QED
  BY <1>9, <1>10, <1>12, <1>13, <1>14, <1>15, <1>16, <1>17 DEF BooksInv

\* An imported row posts under the key of its content, which is free.
LEMMA CommitRowKeeps ==
  ASSUME BooksInv, NEW r \in Rows, CommitRow(r)
  PROVE  BooksInv'
<1> DEFINE c == RowContent[r]
           k == RowKey(c)
           i == First(k)
<1>1. UNCHANGED txn
  BY DEF CommitRow
<1>2. CASE UNCHANGED <<entries, index>>
  BY <1>1, <1>2, QuietBooks
<1>3. CASE ~Exists(i) /\ entries' = WithPost(entries, k, c) /\ index' = index \cup {Indexed(c, i)}
  <2>1. c \in Contents
    BY IngestAssumption
  <2>2. k \in Keys /\ k[1] = None /\ k[2] = c /\ c # None /\ i \in Ids /\ i[1] = k /\ i[2] = 0
    BY <2>1, RowKeys, FirstIsId
  <2> HIDE DEF c, k
  <2>3. /\ entries' \in EntriesType /\ \A j \in Ids : j # i => entries'[j] = entries[j]
        /\ entries'[i] = [content |-> c, undo |-> None]
    BY <1>3, <2>1, <2>2, WithPostEntries DEF BooksInv, BooksOK, EntriesType
  <2> HIDE DEF i
  <2>4. /\ Settled /\ (\A j \in Ids : Exists(j)' => Exists(j) \/ j = i) /\ entries'[i].content # None
        /\ \A j \in Ids : Live(j)' => Live(j) \/ j = i
    BY <1>3, <2>2, <2>3 DEF Settled, Exists, Live
  <2>5. /\ index' \subseteq [content : Contents, source : {"csv", "plaid"}, entry : Ids]
        /\ \A x \in index' : entries'[x.entry].content # None /\ x.entry[2] = 0
    BY <1>3, <2>1, <2>2, <2>4, IndexKeeps
  <2>6. BooksOK'
    <3>1. \A t \in Tids : txn'[t] # None => entries'[txn'[t].entry].content # None /\ txn'[t].entry[2] = 0
      BY <1>1, <2>4, TxnRow DEF Settled, Exists
    <3> QED
      BY <1>1, <2>3, <2>5, <3>1 DEF BooksInv, BooksOK, EntriesType, Exists
  <2>7. RepostsFollow'
    BY <2>2, <2>4, RepostsKeep
  <2>8. BoundToOwn' /\ NoneUnbound'
    <3>1. i[1][1] \notin Tids
      BY <2>2, NoneAssumption
    <3> QED
      BY <1>1, <2>4, <3>1 DEF BooksInv, BoundToOwn, NoneUnbound
  <2>9. VersionNamed' /\ MarkedReversed'
    BY <1>1, <2>4, MarksStay DEF BooksInv, VersionNamed
  <2>10. LiveIndexed' /\ RowsNamed'
    BY <1>3, <2>2, <2>3, <2>4 DEF BooksInv, LiveIndexed, RowsNamed, Exists, Live
  <2> QED
    BY <2>6, <2>7, <2>8, <2>9, <2>10 DEF BooksInv
<1> QED
  BY <1>2, <1>3 DEF CommitRow

-----------------------------------------------------------------------------
(* The loop around the RPCs *)

Loop == [at : Labels, by : {"plaid", "user"}, cursor : [Tids -> Told], page : Page]

LEMMA LabelsAre == \A l \in {"idle", "fetch", "ingest", "advance", "last"} : l \in Labels
  BY DEF Labels

LEMMA RestingIsLoop == Resting \in Loop /\ Resting.at = "idle"
<1>1. [t \in Tids |-> None] \in [Tids -> Told] /\ NoPage \in Page
  BY DEF Told, Page
<1> QED
  BY <1>1, LabelsAre DEF Resting, Loop

LEMMA LoopMoves ==
  ASSUME LoopOK, NEW w \in Workers, NEW l \in Loop,
         l.at \in {"ingest", "advance"} => l.page.tid \in Tids,
         sync' = [sync EXCEPT ![w] = l]
  PROVE  /\ sync' \in [Workers -> Loop]
         /\ \A v \in Workers : sync'[v].at \in {"ingest", "advance"} => sync'[v].page.tid \in Tids
  BY DEF LoopOK, Loop, P

LEMMA PageIsRead ==
  ASSUME LoopOK, NEW w \in Workers, At(w, "ingest") \/ At(w, "advance")
  PROVE  P(w).tid \in Tids /\ P(w).was \in Told /\ P(w).is \in Told
<1>1. P(w) \in Page /\ P(w).tid \in Tids
  BY DEF LoopOK, P, At
<1>2. P(w) # NoPage
  BY <1>1, NoneAssumption DEF NoPage
<1> QED
  BY <1>1, <1>2 DEF Page

\* A step of a sync that leaves the rest of the loop's state alone.
LEMMA SyncKeeps ==
  ASSUME LoopOK, UNCHANGED <<atBank, changes, rows, closed, edits>>, cursor' \in [Tids -> Told],
         due' \in BOOLEAN, status' \in {"active", "error"},
         sync' \in [Workers -> Loop],
         \A v \in Workers : sync'[v].at \in {"ingest", "advance"} => sync'[v].page.tid \in Tids
  PROVE  LoopOK'
  BY DEF LoopOK, Loop, P

LEMMA GotoMoves ==
  ASSUME LoopOK, NEW w \in Workers, NEW label \in {"fetch", "advance"}, At(w, "ingest"), Goto(w, label)
  PROVE  /\ sync' \in [Workers -> Loop]
         /\ \A v \in Workers : sync'[v].at \in {"ingest", "advance"} => sync'[v].page.tid \in Tids
         /\ sync'[w] = [sync[w] EXCEPT !.at = label] /\ \A v \in Workers \ {w} : sync'[v] = sync[v]
<1> DEFINE l == [sync[w] EXCEPT !.at = label]
<1>1. sync[w] \in Loop /\ sync[w].page.tid \in Tids
  BY DEF LoopOK, Loop, At, P
<1>2. l \in Loop /\ l.page = sync[w].page
  BY <1>1, LabelsAre DEF Loop
<1>3. sync' = [sync EXCEPT ![w] = l]
  BY <1>1 DEF Goto, LoopOK
<1>4. sync'[w] = l /\ \A v \in Workers \ {w} : sync'[v] = sync[v]
  BY <1>3 DEF LoopOK
<1> HIDE DEF l
<1>5. /\ sync' \in [Workers -> Loop]
      /\ \A v \in Workers : sync'[v].at \in {"ingest", "advance"} => sync'[v].page.tid \in Tids
  BY <1>1, <1>2, <1>3, LoopMoves
<1> QED
  BY <1>4, <1>5 DEF l

\* The steps that begin or end a sync.
LEMMA BeginKeeps ==
  ASSUME LoopOK, NEW w \in Workers, Webhook(w) \/ SyncNow(w) \/ Relink(w)
  PROVE  LoopOK'
<1>1. UNCHANGED <<atBank, changes, rows, closed, edits>> /\ cursor' \in [Tids -> Told]
  BY DEF Webhook, SyncNow, Relink, LoopOK, feed, bank, books
<1>2. due' \in BOOLEAN /\ status' \in {"active", "error"}
  BY DEF Webhook, SyncNow, Relink, LoopOK, feed
<1>3. ASSUME NEW who \in {"plaid", "user"}, Begins(w, who) PROVE LoopOK'
  <2> DEFINE l == [at |-> "fetch", by |-> who, cursor |-> cursor, page |-> NoPage]
  <2>1. l \in Loop /\ l.at = "fetch" /\ sync' = [sync EXCEPT ![w] = l]
    BY <1>3, LabelsAre DEF Loop, Page, LoopOK, Begins
  <2> HIDE DEF l
  <2> QED
    BY <1>1, <1>2, <2>1, LoopMoves, SyncKeeps
<1>4. CASE UNCHANGED sync
  BY <1>1, <1>2, <1>4, SyncKeeps DEF LoopOK, Loop, P
<1> QED
  BY <1>3, <1>4 DEF Webhook, SyncNow, Relink

LEMMA RestKeeps ==
  ASSUME LoopOK, NEW w \in Workers, sync' = [sync EXCEPT ![w] = Resting],
         UNCHANGED <<atBank, changes, rows, closed, edits>>, cursor' \in [Tids -> Told],
         due' \in BOOLEAN, status' \in {"active", "error"}
  PROVE  LoopOK'
  BY RestingIsLoop, LoopMoves, SyncKeeps

LEMMA EndKeeps ==
  ASSUME LoopOK, NEW w \in Workers, Refuse(w) \/ Crash(w) \/ AdvanceLast(w)
  PROVE  LoopOK' /\ sync' = [sync EXCEPT ![w] = Resting] /\ cursor' \in {cursor, sync[w].cursor}
<1>1. sync' = [sync EXCEPT ![w] = Resting] /\ cursor' \in {cursor, sync[w].cursor}
  BY DEF Refuse, Crash, AdvanceLast
<1>2. sync[w].cursor \in [Tids -> Told]
  BY DEF LoopOK
<1>3. UNCHANGED <<atBank, changes, rows, closed, edits>> /\ due' \in BOOLEAN /\ status' \in {"active", "error"}
  BY DEF Refuse, Crash, AdvanceLast, LoopOK, feed, bank, books
<1>4. cursor' \in [Tids -> Told]
  BY <1>1, <1>2 DEF LoopOK
<1> QED
  BY <1>1, <1>3, <1>4, RestKeeps

\* What a page that was fetched says; one without news is not ingested.
Fetched(w, t) == [tid |-> t, was |-> sync[w].cursor[t], is |-> atBank[t], more |-> News(sync[w].cursor) # {t}]

LEMMA FetchMoves ==
  ASSUME LoopOK, NEW w \in Workers, Fetch(w)
  PROVE  /\ LoopOK' /\ UNCHANGED <<atBank, due, status, cursor, txn, entries, index>>
         /\ sync[w].at = "fetch" /\ sync'[w].cursor = sync[w].cursor
         /\ \A u \in Workers \ {w} : sync'[u] = sync[u]
         /\ \/ sync'[w].at = "last" /\ News(sync[w].cursor) = {}
            \/ /\ sync'[w].at = "ingest"
               /\ \E t \in News(sync[w].cursor) : sync'[w].page = Fetched(w, t)
<1>1. sync \in [Workers -> Loop] /\ sync[w] \in Loop /\ sync[w].at = "fetch"
  BY DEF LoopOK, Loop, Fetch, At
<1>2. /\ UNCHANGED <<atBank, changes, due, status, cursor, txn, entries, index, rows, closed, edits>>
      /\ cursor' \in [Tids -> Told] /\ due' \in BOOLEAN /\ status' \in {"active", "error"}
  BY DEF Fetch, LoopOK, feed, books
<1>3. CASE News(sync[w].cursor) = {} /\ sync' = [sync EXCEPT ![w].at = "last"]
  <2> DEFINE l == [sync[w] EXCEPT !.at = "last"]
  <2>1. l \in Loop /\ l.at = "last" /\ l.cursor = sync[w].cursor
    BY <1>1, LabelsAre DEF Loop
  <2>2. sync' = [sync EXCEPT ![w] = l]
    BY <1>1, <1>3
  <2> HIDE DEF l
  <2>3. LoopOK' /\ sync'[w] = l /\ \A u \in Workers \ {w} : sync'[u] = sync[u]
    BY <1>1, <1>2, <2>1, <2>2, LoopMoves, SyncKeeps
  <2> QED
    BY <1>1, <1>2, <1>3, <2>1, <2>3
<1>4. ASSUME NEW t \in News(sync[w].cursor),
             sync' = [sync EXCEPT ![w].at = "ingest", ![w].page = Fetched(w, t)]
      PROVE  /\ LoopOK' /\ sync'[w].at = "ingest" /\ sync'[w].page = Fetched(w, t)
             /\ sync'[w].cursor = sync[w].cursor
             /\ \A u \in Workers \ {w} : sync'[u] = sync[u]
  <2> DEFINE pg == Fetched(w, t)
             l  == [sync[w] EXCEPT !.at = "ingest", !.page = pg]
  <2>1. t \in Tids /\ atBank[t] \in Told /\ sync[w].cursor[t] \in Told
    BY <1>1 DEF LoopOK, News, Loop
  <2>2. pg \in Page /\ pg.tid = t
    BY <2>1 DEF Page, Fetched
  <2>3. sync' = [sync EXCEPT ![w] = l]
    BY <1>1, <1>4
  <2> HIDE DEF pg
  <2>4. l \in Loop /\ l.page = pg /\ l.at = "ingest" /\ l.cursor = sync[w].cursor
    BY <1>1, <2>2, LabelsAre DEF Loop
  <2> HIDE DEF l
  <2>5. LoopOK' /\ sync'[w] = l /\ \A u \in Workers \ {w} : sync'[u] = sync[u]
    BY <1>1, <1>2, <2>1, <2>2, <2>3, <2>4, LoopMoves, SyncKeeps
  <2> QED
    BY <2>4, <2>5 DEF pg
<1>5. \/ News(sync[w].cursor) = {} /\ sync' = [sync EXCEPT ![w].at = "last"]
      \/ \E t \in News(sync[w].cursor) :
           sync' = [sync EXCEPT ![w].at = "ingest", ![w].page = Fetched(w, t)]
  BY DEF Fetch, Fetched
<1>6. CASE \E t \in News(sync[w].cursor) :
             sync' = [sync EXCEPT ![w].at = "ingest", ![w].page = Fetched(w, t)]
  BY <1>1, <1>2, <1>4, <1>6
<1> QED
  BY <1>1, <1>2, <1>3, <1>5, <1>6, LoopMoves

LEMMA AdvanceKeeps ==
  ASSUME LoopOK, NEW w \in Workers, Advance(w)
  PROVE  /\ LoopOK' /\ UNCHANGED <<atBank, due, status, txn, entries, index>>
         /\ cursor' = [sync[w].cursor EXCEPT ![P(w).tid] = P(w).is]
         /\ IF P(w).more THEN sync'[w].at = "fetch" /\ sync'[w].cursor = cursor'
                         ELSE sync'[w] = Resting
         /\ sync'[w].at \in {"fetch", "idle"}
         /\ \A u \in Workers \ {w} : sync'[u] = sync[u]
<1> DEFINE v == [sync[w].cursor EXCEPT ![P(w).tid] = P(w).is]
           l == IF P(w).more THEN [sync[w] EXCEPT !.at = "fetch", !.cursor = v, !.page = NoPage] ELSE Resting
<1>1. sync \in [Workers -> Loop] /\ sync[w] \in Loop /\ P(w).is \in Told
  BY PageIsRead DEF Advance, LoopOK, Loop
<1>2. v \in [Tids -> Told]
  BY <1>1 DEF Loop
<1>3. cursor' = v /\ sync' = [sync EXCEPT ![w] = l]
  BY <1>1 DEF Advance
<1> HIDE DEF v
<1>4. /\ l \in Loop /\ l.at \in {"fetch", "idle"}
      /\ IF P(w).more THEN l.at = "fetch" /\ l.cursor = v ELSE l = Resting
  BY <1>1, <1>2, LabelsAre, RestingIsLoop DEF Loop, Page
<1> HIDE DEF l
<1>5. /\ UNCHANGED <<atBank, changes, due, status, txn, entries, index, rows, closed, edits>>
      /\ due' \in BOOLEAN /\ status' \in {"active", "error"}
  BY DEF Advance, LoopOK, feed, books
<1>6. LoopOK' /\ sync'[w] = l /\ \A u \in Workers \ {w} : sync'[u] = sync[u]
  BY <1>1, <1>2, <1>3, <1>4, <1>5, LoopMoves, SyncKeeps
<1> QED
  BY <1>3, <1>4, <1>5, <1>6 DEF v

\* The operations of the users and of the bank.
LEMMA OthersLoop ==
  ASSUME LoopOK,
         \/ \E t \in Tids : BankAdds(t) \/ BankChanges(t) \/ BankDrops(t)
         \/ \E r \in Rows : CommitRow(r)
         \/ \E i \in Ids : Reverse(i) \/ Recategorize(i)
         \/ \E m \in Months : Close(m) \/ Reopen(m)
  PROVE  LoopOK'
<1>1. ASSUME NEW t \in Tids, NEW v \in Told, BankSays(t, v) PROVE LoopOK'
  <2>1. changes \in Nat /\ changes + 1 \in 0 .. MaxChanges
    BY <1>1, IngestAssumption DEF LoopOK, BankSays
  <2> QED
    BY <1>1, <2>1 DEF BankSays, LoopOK, books, P
<1>2. ASSUME NEW t \in Tids, BankAdds(t) \/ BankChanges(t) \/ BankDrops(t) PROVE LoopOK'
  BY <1>1, <1>2 DEF BankAdds, BankChanges, BankDrops, Told
<1>3. ASSUME NEW r \in Rows, CommitRow(r) PROVE LoopOK'
  <2>1. PICK st \in {"error", "skipped", "posted"} : rows' = [rows EXCEPT ![r] = st]
    BY <1>3 DEF CommitRow
  <2> QED
    BY <1>3, <2>1 DEF CommitRow, LoopOK, feed, P
<1>4. ASSUME NEW i \in Ids, UserUndoes(i) PROVE LoopOK'
  <2>1. edits + 1 \in 0 .. MaxEdits
    BY <1>4, IngestAssumption DEF LoopOK, UserUndoes
  <2> QED
    BY <1>4, <2>1 DEF UserUndoes, LoopOK, feed, P
<1>5. ASSUME NEW m \in Months, Close(m) \/ Reopen(m) PROVE LoopOK'
  BY <1>5 DEF Close, Reopen, LoopOK, feed, P
<1> QED
  BY <1>2, <1>3, <1>4, <1>5 DEF Reverse, Recategorize

\* The pages that are not skipped, and what each leaves of the invariant.
LEMMA IngestKeeps ==
  ASSUME IngestInv, NEW w \in Workers,
         IngestDup(w) \/ IngestNew(w) \/ IngestSame(w) \/ IngestChanged(w) \/ IngestRemoved(w)
  PROVE  IngestInv' /\ StaysBound /\ txn'[P(w).tid] # None
<1>1. PICK t \in Tids, c \in Told : P(w).tid = t /\ P(w).is = c
  BY PageIsRead DEF IngestInv, IngestDup, IngestNew, IngestSame, IngestChanged, IngestRemoved, Ingesting
<1>2. IngestDup(w) \/ IngestNew(w) \/ IngestChanged(w) => c \in Contents
  BY <1>1 DEF IngestDup, IngestNew, IngestChanged, Unseen, Added, Modified, Changed
<1>3. BooksInv' /\ StaysBound /\ txn'[t] # None
  BY <1>1, <1>2, DupKeeps, NewKeeps, SameKeeps, ChangedKeeps, RemovedKeeps DEF IngestInv
<1>4. At(w, "ingest") /\ Goto(w, "advance") /\ OtherBooks
  BY DEF IngestDup, IngestNew, IngestSame, IngestChanged, IngestRemoved, Ingesting
<1>5. LoopOK'
  <2>1. /\ UNCHANGED <<atBank, changes, rows, closed, edits>> /\ cursor' \in [Tids -> Told]
        /\ due' \in BOOLEAN /\ status' \in {"active", "error"} /\ LoopOK
    BY <1>4 DEF IngestInv, OtherBooks, feed, LoopOK
  <2> QED
    BY <1>4, <2>1, GotoMoves, SyncKeeps
<1> QED
  BY <1>1, <1>3, <1>5 DEF IngestInv

LEMMA SkipKeeps == ASSUME IngestInv, NEW w \in Workers, Skip(w) PROVE IngestInv' /\ StaysBound
<1>1. At(w, "ingest") /\ Goto(w, "advance") /\ OtherBooks /\ UNCHANGED <<txn, entries, index>>
  BY DEF Skip, Ingesting
<1>2. LoopOK'
  <2>1. /\ UNCHANGED <<atBank, changes, rows, closed, edits>> /\ cursor' \in [Tids -> Told]
        /\ due' \in BOOLEAN /\ status' \in {"active", "error"} /\ LoopOK
    BY <1>1 DEF IngestInv, OtherBooks, feed, LoopOK
  <2> QED
    BY <1>1, <2>1, GotoMoves, SyncKeeps
<1> QED
  BY <1>1, <1>2, QuietBooks DEF IngestInv, StaysBound

\* The steps of the loop that touch no row of the books.
Waits(w) ==
  \/ Webhook(w) \/ SyncNow(w) \/ Relink(w) \/ Fetch(w) \/ Refuse(w) \/ Advance(w) \/ AdvanceLast(w) \/ Crash(w)

LEMMA WaitKeeps ==
  ASSUME IngestInv, NEW w \in Workers, Waits(w)
  PROVE  IngestInv' /\ UNCHANGED <<txn, entries, index>>
<1>1. UNCHANGED <<txn, entries, index>>
  BY DEF Waits, Webhook, SyncNow, Relink, Fetch, Refuse, Advance, AdvanceLast, Crash, books
<1>2. LoopOK'
  BY BeginKeeps, EndKeeps, FetchMoves, AdvanceKeeps DEF Waits, IngestInv
<1> QED
  BY <1>1, <1>2, QuietBooks DEF IngestInv

LEMMA OthersKeep ==
  ASSUME IngestInv,
         \/ \E t \in Tids : BankAdds(t) \/ BankChanges(t) \/ BankDrops(t)
         \/ \E r \in Rows : CommitRow(r)
         \/ \E i \in Ids : Reverse(i) \/ Recategorize(i)
         \/ \E m \in Months : Close(m) \/ Reopen(m)
  PROVE  IngestInv' /\ UNCHANGED <<cursor, sync, txn>>
<1>1. UNCHANGED <<cursor, sync, txn>>
  BY DEF BankAdds, BankChanges, BankDrops, BankSays, CommitRow, Reverse, Recategorize, UserUndoes,
         Close, Reopen, books
<1>2. ASSUME \/ \E t \in Tids : BankAdds(t) \/ BankChanges(t) \/ BankDrops(t)
             \/ \E m \in Months : Close(m) \/ Reopen(m)
      PROVE  BooksInv'
  BY <1>2, QuietBooks DEF BankAdds, BankChanges, BankDrops, BankSays, Close, Reopen, books, IngestInv
<1> QED
  BY <1>1, <1>2, OthersLoop, CommitRowKeeps, ReverseKeeps, RecategorizeKeeps DEF IngestInv

LEMMA IngestInitially == Init => IngestInv
<1> SUFFICES ASSUME Init PROVE IngestInv
  OBVIOUS
<1>1. \A i \in Ids : ~Exists(i)
  BY DEF Init, NoEntry, Exists
<1>2. /\ txn \in [Tids -> Txn \cup {None}] /\ (\A t \in Tids : txn[t] = None) /\ index = {}
      /\ entries \in [Ids -> [content : Contents \cup {None}, undo : Undoings]]
  BY DEF Init, NoEntry, Undoings
<1>3. BooksInv
  BY <1>1, <1>2 DEF BooksInv, BooksOK, RepostsFollow, BoundToOwn, NoneUnbound, VersionNamed,
                    MarkedReversed, LiveIndexed, RowsNamed, Live
<1>4. LoopOK
  <2>1. \A w \in Workers : sync[w] = Resting
    BY DEF Init
  <2>2. sync \in [Workers -> Loop]
    BY RestingIsLoop DEF Init
  <2>3. \A w \in Workers : sync[w].at = "idle"
    BY <2>1, RestingIsLoop
  <2>4. 0 \in 0 .. MaxChanges /\ 0 \in 0 .. MaxEdits
    BY IngestAssumption
  <2>5. {} \subseteq Months
    OBVIOUS
  <2> QED
    BY <2>2, <2>3, <2>4, <2>5 DEF Init, LoopOK, Loop, Told
<1> QED
  BY <1>3, <1>4 DEF IngestInv

LEMMA IngestInductive == IngestInv /\ [Next]_vars => IngestInv'
<1> SUFFICES ASSUME IngestInv, [Next]_vars PROVE IngestInv'
  OBVIOUS
<1>1. CASE UNCHANGED vars
  <2>1. LoopOK'
    BY <1>1 DEF vars, IngestInv, LoopOK, P
  <2> QED
    BY <1>1, <2>1, QuietBooks DEF vars, IngestInv
<1>2. CASE Next
  BY <1>2, IngestKeeps, SkipKeeps, WaitKeeps, OthersKeep DEF Next, SyncStep, Waits
<1> QED
  BY <1>1, <1>2

\* Every variable keeps its type, an index row names an entry that exists and a bank
\* transaction one that was posted: what plaid_ingest_transactions reads is there.
THEOREM IngestTypes == Spec => []TypeOK
<1>1. IngestInv => TypeOK
  BY DEF IngestInv, LoopOK, BooksInv, BooksOK, TypeOK
<1> QED
  BY IngestInitially, IngestInductive, <1>1, PTL DEF Spec

\* Whatever pages are replayed, crossed or stale, and whatever users reverse or
\* recategorise, for any number of syncs: a bank transaction counts at most once.
THEOREM CountedOnce == Spec => []CountsOnce
<1>1. ASSUME BooksInv, NEW t \in Tids PROVE Cardinality(Counted(t)) <= 1
  <2>1. ASSUME NEW i \in Counted(t), NEW j \in Counted(t) PROVE i = j
    <3>1. Live(i) /\ Live(j) /\ i \in Ids /\ j \in Ids
      BY DEF Counted
    <3>2. i[1] = txn[t].entry[1] /\ j[1] = txn[t].entry[1]
      BY <1>1, <3>1 DEF Counted, BooksInv, BoundToOwn
    <3>3. i[2] = j[2]
      BY <1>1, <3>1, <3>2, IdParts, UndoersAreSome DEF BooksInv, RepostsFollow, Live
    <3> QED
      BY <3>1, <3>2, <3>3, IdParts
  <2>2. CASE Counted(t) = {}
    BY <2>2, FS_EmptySet
  <2>3. CASE Counted(t) # {}
    <3>1. PICK i \in Counted(t) : Counted(t) = {i}
      BY <2>1, <2>3
    <3> QED
      BY <3>1, FS_Singleton
  <2> QED
    BY <2>2, <2>3
<1>2. IngestInv => CountsOnce
  BY <1>1 DEF IngestInv, CountsOnce
<1> QED
  BY IngestInitially, IngestInductive, <1>2, PTL DEF Spec

-----------------------------------------------------------------------------
(* Two sources, one content *)

LEMMA DedupKeeps ==
  ASSUME FirstPostsDeduplicated,
         \A t \in Tids : Live(First(AddKey(t)))' =>
           /\ Live(First(AddKey(t)))
           /\ entries'[First(AddKey(t))].content = entries[First(AddKey(t))].content,
         \A c \in Contents : Live(First(RowKey(c)))' => Live(First(RowKey(c)))
  PROVE  FirstPostsDeduplicated'
  BY DEF FirstPostsDeduplicated, First, AddKey, RowKey

\* A live first entry is what the other source finds by its content.
LEMMA FirstIsFound ==
  ASSUME BooksInv, NEW k \in Keys, Live(First(k)), NEW src, src # Source(First(k))
  PROVE  First(k) \in Dups(entries[First(k)].content, src)
<1>1. Indexed(entries[First(k)].content, First(k)) \in index
  BY FirstIsId DEF BooksInv, LiveIndexed
<1> QED
  BY <1>1 DEF Dups, Indexed

LEMMA FirstsDiffer ==
  /\ \A t \in Tids : First(AddKey(t)) \in Ids /\ First(AddKey(t))[1] = AddKey(t)
  /\ \A c \in Contents : First(RowKey(c)) \in Ids /\ First(RowKey(c))[1] = RowKey(c)
  /\ \A s, t \in Tids : First(AddKey(s)) = First(AddKey(t)) => s = t
  /\ \A c, d \in Contents : First(RowKey(c)) = First(RowKey(d)) => c = d
  /\ \A t \in Tids, c \in Contents :
       /\ First(AddKey(t)) # First(RowKey(c))
       /\ \A s \in Tids : First(VersionKey(s, c)) # First(AddKey(t))
       /\ \A s \in Tids, d \in Contents : First(VersionKey(s, d)) # First(RowKey(c))
<1>1. None \notin Tids /\ None \notin Contents
  BY NoneAssumption
<1>2. /\ \A t \in Tids : AddKey(t) \in Keys /\ First(AddKey(t)) \in Ids /\ First(AddKey(t))[1] = AddKey(t)
      /\ \A c \in Contents : RowKey(c) \in Keys /\ First(RowKey(c)) \in Ids /\ First(RowKey(c))[1] = RowKey(c)
  BY FirstIsId DEF AddKey, RowKey, Keys
<1> QED
  BY <1>1, <1>2 DEF First, AddKey, RowKey, VersionKey

LEMMA UndoDedups ==
  ASSUME BooksInv, FirstPostsDeduplicated, NEW i \in Ids, NEW u \in Undoers, entries' = Undone(entries, i, u)
  PROVE  FirstPostsDeduplicated'
<1>1. \A x \in Ids : Live(x)' => Live(x) /\ entries'[x].content = entries[x].content
  <2>1. /\ \A x \in Ids : x # i => entries'[x] = entries[x]
        /\ entries'[i] = [content |-> entries[i].content, undo |-> u]
    BY UndoneEntries DEF BooksInv, BooksOK, EntriesType
  <2> QED
    BY <2>1, UndoersAreSome DEF Live, Exists
<1> QED
  BY <1>1, FirstsDiffer, DedupKeeps

LEMMA RecategorizeDedups ==
  ASSUME BooksInv, FirstPostsDeduplicated, NEW i \in Ids, Recategorize(i)
  PROVE  FirstPostsDeduplicated'
<1> DEFINE j   == <<i[1], i[2] + 1>>
           mid == Undone(entries, i, <<"user", None>>)
<1>1. /\ mid \in EntriesType /\ \A x \in Ids : x # i => mid[x] = entries[x]
      /\ mid[i] = [content |-> entries[i].content, undo |-> <<"user", None>>]
  <2>1. entries \in EntriesType /\ <<"user", None>> \in Undoers
    BY UndoersAreSome DEF BooksInv, BooksOK, EntriesType
  <2> QED
    BY <2>1, UndoneEntries
<1>2. j[2] # 0
  BY IdParts
<1>3. \A x \in Ids : x # j => entries'[x] = mid[x]
  BY <1>1 DEF Recategorize, EntriesType
<1> HIDE DEF j, mid
<1>4. \A x \in Ids : x[2] = 0 /\ Live(x)' => Live(x) /\ entries'[x].content = entries[x].content
  BY <1>1, <1>2, <1>3, UndoersAreSome DEF Live, Exists
<1>5. /\ \A t \in Tids : First(AddKey(t))[2] = 0
      /\ \A c \in Contents : First(RowKey(c))[2] = 0
  BY DEF First
<1> QED
  BY <1>4, <1>5, FirstsDiffer, DedupKeeps

LEMMA ChangedDedups ==
  ASSUME BooksInv, FirstPostsDeduplicated, NEW w \in Workers, NEW t \in Tids, P(w).tid = t,
         NEW c \in Contents, P(w).is = c, IngestChanged(w)
  PROVE  FirstPostsDeduplicated'
<1>1. PICK i \in Ids :
        /\ \A x \in Ids \ {i, First(VersionKey(t, c))} : entries'[x] = entries[x]
        /\ entries'[i].undo # None
  BY ZenonT(60), ChangedEntries
<1>2. \A x \in Ids : x # First(VersionKey(t, c)) /\ Live(x)' =>
        Live(x) /\ entries'[x].content = entries[x].content
  BY <1>1 DEF Live, Exists
<1> QED
  BY <1>2, FirstsDiffer, DedupKeeps

\* An added transaction looks for the rows of its content first ...
LEMMA NewDedups ==
  ASSUME BooksInv, FirstPostsDeduplicated, NEW w \in Workers, NEW t \in Tids, P(w).tid = t,
         NEW c \in Contents, P(w).is = c, IngestNew(w), ~Unseen(P(w))
  PROVE  FirstPostsDeduplicated'
<1> DEFINE k == AddKey(t)
           i == First(k)
<1>1. Dups(c, "plaid") = {} /\ txn[t] = None /\ entries' = WithPost(entries, k, c)
  BY DEF IngestNew
<1>2. k \in Keys /\ k[1] = t /\ i \in Ids /\ i[1] = k
  BY KeysOfTxn, FirstIsId
<1>3. ~Exists(i)
  BY <1>1, <1>2 DEF BooksInv, NoneUnbound
<1>4. /\ \A j \in Ids : j # i => entries'[j] = entries[j]
      /\ entries'[i] = [content |-> c, undo |-> None]
  BY <1>1, <1>2, <1>3, WithPostEntries DEF BooksInv, BooksOK, EntriesType
<1> SUFFICES ASSUME NEW s \in Tids, NEW d \in Contents,
                    Live(First(AddKey(s)))', Live(First(RowKey(d)))'
             PROVE  entries'[First(AddKey(s))].content # d
  BY DEF FirstPostsDeduplicated, First, AddKey, RowKey
<1>5. First(RowKey(d)) # i /\ First(RowKey(d)) \in Ids
  BY FirstsDiffer
<1>6. Live(First(RowKey(d)))
  BY <1>4, <1>5 DEF Live, Exists
<1>7. CASE s = t
  <2>1. RowKey(d) \in Keys /\ First(RowKey(d))[1][1] = None /\ First(RowKey(d))[1][2] = d
         /\ First(RowKey(d))[2] = 0
    BY RowKeys, FirstIsId
  <2>2. entries[First(RowKey(d))].content = d
    BY <1>5, <1>6, <2>1 DEF BooksInv, RowsNamed, Live
  <2>3. "plaid" # Source(First(RowKey(d)))
    BY <2>1 DEF Source
  <2>4. First(RowKey(d)) \in Dups(d, "plaid")
    BY <1>6, <2>1, <2>2, <2>3, FirstIsFound
  <2> QED
    BY <1>1, <1>4, <1>7, <2>4
<1>8. CASE s # t
  BY <1>4, <1>6, <1>8, FirstsDiffer DEF FirstPostsDeduplicated, Live, Exists
<1> QED
  BY <1>7, <1>8

\* ... and an imported row for the transactions of its content.
LEMMA CommitDedups ==
  ASSUME BooksInv, FirstPostsDeduplicated, NEW r \in Rows, CommitRow(r)
  PROVE  FirstPostsDeduplicated'
<1>0. PICK c \in Contents : c = RowContent[r]
  BY IngestAssumption
<1> DEFINE k == RowKey(c)
           i == First(k)
<1>1. CASE UNCHANGED entries
  BY <1>1 DEF FirstPostsDeduplicated, Live, Exists
<1>2. CASE ~Exists(i) /\ Dups(c, "csv") = {} /\ entries' = WithPost(entries, k, c)
  <2>1. k \in Keys /\ i \in Ids /\ k = RowKey(c)
    BY RowKeys, FirstIsId
  <2>2. /\ \A j \in Ids : j # i => entries'[j] = entries[j]
        /\ entries'[i] = [content |-> c, undo |-> None]
    BY <1>2, <2>1, WithPostEntries DEF BooksInv, BooksOK, EntriesType
  <2> SUFFICES ASSUME NEW s \in Tids, NEW d \in Contents,
                      Live(First(AddKey(s)))', Live(First(RowKey(d)))'
               PROVE  entries'[First(AddKey(s))].content # d
    BY DEF FirstPostsDeduplicated, First, AddKey, RowKey
  <2>3. First(AddKey(s)) # i /\ First(AddKey(s)) \in Ids
    BY FirstsDiffer
  <2>4. Live(First(AddKey(s))) /\ entries'[First(AddKey(s))] = entries[First(AddKey(s))]
    BY <2>2, <2>3 DEF Live, Exists
  <2>5. CASE d = c
    <3>1. AddKey(s) \in Keys /\ First(AddKey(s))[1][1] # None
      BY KeysOfTxn, FirstIsId
    <3>2. "csv" # Source(First(AddKey(s)))
      BY <3>1 DEF Source
    <3>3. First(AddKey(s)) \in Dups(entries[First(AddKey(s))].content, "csv")
      BY <2>4, <3>1, <3>2, FirstIsFound
    <3> QED
      BY <1>2, <2>4, <2>5, <3>3
  <2>6. CASE d # c
    BY <2>2, <2>4, <2>6, FirstsDiffer DEF FirstPostsDeduplicated, Live, Exists
  <2> QED
    BY <2>5, <2>6
<1> QED
  BY <1>0, <1>1, <1>2 DEF CommitRow
-----------------------------------------------------------------------------
(* What the feed has told is in the books, but for amounts of zero *)

\* Whatever the cursor v has told is in the books after the step.
SeenThen(v) == \A t \in Tids : v[t] \in Contents \ Blank => txn'[t] # None

LEMMA SeenStays ==
  ASSUME FeedSeen, StaysBound
  PROVE  SeenThen(cursor) /\ \A w \in Workers : SeenThen(sync[w].cursor)
  BY DEF FeedSeen, Seen, SeenThen, StaysBound

\* A step of one sync.
LEMMA SeenByOne ==
  ASSUME LoopOK, FeedSeen, StaysBound, NEW w \in Workers,
         \A v \in Workers \ {w} : sync'[v] = sync[v],
         SeenThen(cursor'), SeenThen(sync'[w].cursor),
         sync'[w].at \in {"ingest", "advance"} =>
           (sync'[w].page.was \in Contents \ Blank => txn'[sync'[w].page.tid] # None),
         sync'[w].at = "advance" =>
           (sync'[w].page.is \in Contents \ Blank => txn'[sync'[w].page.tid] # None)
  PROVE  FeedSeen'
<1>1. ASSUME NEW v \in Workers \ {w}, sync[v].at \in {"ingest", "advance"} PROVE P(v).tid \in Tids
  BY <1>1 DEF LoopOK
<1>2. \A t \in Tids : cursor'[t] \in Contents \ Blank => txn'[t] # None
  BY DEF SeenThen
<1>3. \A v \in Workers, t \in Tids : sync'[v].cursor[t] \in Contents \ Blank => txn'[t] # None
  BY SeenStays DEF SeenThen
<1>4. ASSUME NEW v \in Workers \ {w}
      PROVE  /\ sync'[v].at \in {"ingest", "advance"} /\ sync'[v].page.was \in Contents \ Blank
                  => txn'[sync'[v].page.tid] # None
             /\ sync'[v].at = "advance" /\ sync'[v].page.is \in Contents \ Blank
                  => txn'[sync'[v].page.tid] # None
  BY <1>1 DEF FeedSeen, Seen, StaysBound, P
<1> QED
  BY <1>2, <1>3, <1>4 DEF FeedSeen, Seen, P

\* A sync that begins does so with what the cursor says.
LEMMA SeenOnBegin ==
  ASSUME LoopOK, FeedSeen, StaysBound, NEW w \in Workers, Webhook(w) \/ SyncNow(w) \/ Relink(w)
  PROVE  FeedSeen'
<1>1. UNCHANGED cursor
  BY DEF Webhook, SyncNow, Relink
<1>2. ASSUME NEW who, Begins(w, who) PROVE FeedSeen'
  <2>1. /\ \A v \in Workers \ {w} : sync'[v] = sync[v]
        /\ sync'[w].at = "fetch" /\ sync'[w].cursor = cursor
    BY <1>2 DEF Begins, LoopOK
  <2> QED
    BY <1>1, <2>1, SeenStays, SeenByOne
<1>3. CASE UNCHANGED sync
  BY <1>1, <1>3 DEF FeedSeen, Seen, StaysBound, P, LoopOK
<1> QED
  BY <1>2, <1>3 DEF Webhook, SyncNow, Relink

\* A sync that ends may leave the cursor it worked with.
LEMMA SeenOnEnd ==
  ASSUME LoopOK, FeedSeen, StaysBound, NEW w \in Workers, Refuse(w) \/ Crash(w) \/ AdvanceLast(w)
  PROVE  FeedSeen'
<1>1. sync' = [sync EXCEPT ![w] = Resting] /\ cursor' \in {cursor, sync[w].cursor}
  BY EndKeeps
<1>2. /\ \A v \in Workers \ {w} : sync'[v] = sync[v]
      /\ sync'[w].at = "idle" /\ \A t \in Tids : sync'[w].cursor[t] = None
  BY <1>1 DEF LoopOK, Resting
<1> QED
  BY <1>1, <1>2, NoneAssumption, SeenStays, SeenByOne DEF SeenThen

LEMMA SeenOnFetch ==
  ASSUME LoopOK, FeedSeen, StaysBound, NEW w \in Workers, Fetch(w)
  PROVE  FeedSeen'
<1>1. /\ cursor' = cursor /\ sync'[w].cursor = sync[w].cursor
      /\ \A u \in Workers \ {w} : sync'[u] = sync[u]
      /\ \/ sync'[w].at = "last"
         \/ /\ sync'[w].at = "ingest"
            /\ \E t \in News(sync[w].cursor) : sync'[w].page = Fetched(w, t)
  BY FetchMoves
<1>2. SeenThen(cursor') /\ SeenThen(sync'[w].cursor)
  BY <1>1, SeenStays
<1>3. CASE sync'[w].at = "last"
  BY <1>1, <1>2, <1>3, SeenByOne
<1>4. CASE sync'[w].at = "ingest" /\ \E t \in News(sync[w].cursor) : sync'[w].page = Fetched(w, t)
  <2>1. PICK t \in Tids : sync'[w].page = Fetched(w, t)
    BY <1>4 DEF News
  <2>2. sync'[w].page.tid = t /\ sync'[w].page.was = sync[w].cursor[t]
    BY <2>1 DEF Fetched
  <2>3. sync'[w].page.was \in Contents \ Blank => txn'[sync'[w].page.tid] # None
    BY <1>1, <1>2, <2>2 DEF SeenThen
  <2> QED
    BY <1>1, <1>2, <1>4, <2>3, SeenByOne
<1> QED
  BY <1>1, <1>3, <1>4

\* A page that was ingested: what it says is in the books.
LEMMA SeenOnIngest ==
  ASSUME LoopOK, FeedSeen, StaysBound, UNCHANGED cursor, NEW w \in Workers, At(w, "ingest"),
         Goto(w, "advance"), P(w).is \in Contents \ Blank => txn'[P(w).tid] # None
  PROVE  FeedSeen'
<1>1. sync[w] \in Loop /\ P(w).tid \in Tids
  BY DEF LoopOK, Loop, At
<1>2. /\ \A v \in Workers \ {w} : sync'[v] = sync[v]
      /\ sync'[w] = [sync[w] EXCEPT !.at = "advance"]
  BY GotoMoves
<1>3. /\ sync'[w].cursor = sync[w].cursor /\ sync'[w].page = P(w)
      /\ sync[w].at = "ingest"
  BY <1>1, <1>2 DEF Loop, At, P
<1>4. P(w).was \in Contents \ Blank => txn'[P(w).tid] # None
  BY <1>1, <1>3 DEF FeedSeen, Seen, StaysBound
<1>5. SeenThen(cursor') /\ SeenThen(sync'[w].cursor)
  BY <1>3, SeenStays
<1> QED
  BY <1>2, <1>3, <1>4, <1>5, SeenByOne

LEMMA SeenOnAdvance ==
  ASSUME LoopOK, FeedSeen, UNCHANGED txn, NEW w \in Workers, Advance(w)
  PROVE  FeedSeen'
<1>1. /\ cursor' = [sync[w].cursor EXCEPT ![P(w).tid] = P(w).is]
      /\ sync'[w].at \in {"fetch", "idle"}
      /\ sync'[w].cursor = cursor' \/ sync'[w] = Resting
      /\ \A u \in Workers \ {w} : sync'[u] = sync[u]
  BY AdvanceKeeps
<1>2. sync[w].cursor \in [Tids -> Told] /\ P(w).tid \in Tids /\ sync[w].at = "advance"
  BY DEF LoopOK, Advance, At
<1>3. Seen(P(w).tid, P(w).is) /\ \A t \in Tids : Seen(t, sync[w].cursor[t])
  BY <1>2 DEF FeedSeen
<1>4. \A t \in Tids : cursor'[t] = IF t = P(w).tid THEN P(w).is ELSE sync[w].cursor[t]
  BY <1>1, <1>2
<1>5. SeenThen(cursor')
  BY <1>3, <1>4 DEF Seen, SeenThen
<1>6. SeenThen(sync'[w].cursor)
  <2>1. SeenThen(Resting.cursor)
    BY NoneAssumption DEF SeenThen, Resting
  <2> QED
    BY <1>1, <1>5, <2>1
<1> QED
  BY <1>1, <1>5, <1>6, SeenByOne DEF StaysBound

LEMMA SeenInitially == Init => SeenInv
<1> SUFFICES ASSUME Init PROVE FeedSeen
  BY IngestInitially DEF SeenInv
<1> QED
  BY NoneAssumption DEF Init, Resting, FeedSeen, Seen

LEMMA SeenInductive == SeenInv /\ [Next]_vars => SeenInv'
<1> SUFFICES ASSUME SeenInv, [Next]_vars PROVE FeedSeen'
  BY IngestInductive DEF SeenInv
<1>1. IngestInv /\ LoopOK /\ FeedSeen
  BY DEF SeenInv, IngestInv
<1>2. CASE UNCHANGED <<txn, cursor, sync>>
  BY <1>1, <1>2 DEF FeedSeen, Seen, P
<1>3. ASSUME NEW w \in Workers, Waits(w) PROVE FeedSeen'
  <2>1. UNCHANGED txn /\ StaysBound
    BY <1>1, <1>3, WaitKeeps DEF StaysBound
  <2> QED
    BY <1>1, <1>3, <2>1, SeenOnBegin, SeenOnEnd, SeenOnFetch, SeenOnAdvance DEF Waits
<1>4. ASSUME NEW w \in Workers, Skip(w) PROVE FeedSeen'
  <2>1. /\ At(w, "ingest") /\ Goto(w, "advance") /\ UNCHANGED <<txn, cursor>>
        /\ P(w).is \in Contents \ Blank => txn'[P(w).tid] # None
    BY <1>4, IngestAssumption DEF Skip, Ingesting, OtherBooks, Added, Unseen, Modified, Removed
  <2> QED
    BY <1>1, <2>1, SeenOnIngest DEF StaysBound
<1>5. ASSUME NEW w \in Workers,
             IngestDup(w) \/ IngestNew(w) \/ IngestSame(w) \/ IngestChanged(w) \/ IngestRemoved(w)
      PROVE  FeedSeen'
  <2>1. StaysBound /\ txn'[P(w).tid] # None
    BY <1>1, <1>5, IngestKeeps
  <2>2. At(w, "ingest") /\ Goto(w, "advance") /\ UNCHANGED cursor
    BY <1>5 DEF IngestDup, IngestNew, IngestSame, IngestChanged, IngestRemoved, Ingesting, OtherBooks
  <2> QED
    BY <1>1, <2>1, <2>2, SeenOnIngest
<1>6. ASSUME \/ \E t \in Tids : BankAdds(t) \/ BankChanges(t) \/ BankDrops(t)
             \/ \E r \in Rows : CommitRow(r)
             \/ \E i \in Ids : Reverse(i) \/ Recategorize(i)
             \/ \E m \in Months : Close(m) \/ Reopen(m)
      PROVE  FeedSeen'
  <2>1. UNCHANGED <<cursor, sync, txn>>
    BY <1>1, <1>6, OthersKeep
  <2> QED
    BY <1>2, <2>1
<1> QED
  BY <1>2, <1>3, <1>4, <1>5, <1>6 DEF Next, SyncStep, Waits, vars

\* The stored cursor never passes a transaction that is not in the books, for any
\* number of syncs that cross one another, are refused or die between two calls, and
\* whatever the bank and the users do: only amounts of zero are passed over.
THEOREM NothingIsPassedOver == Spec => []CursorNeverAhead
<1>1. SeenInv => CursorNeverAhead
  BY DEF SeenInv, FeedSeen, Seen, CursorNeverAhead
<1> QED
  BY SeenInitially, SeenInductive, <1>1, PTL DEF Spec

LEMMA DedupInitially == Init => DedupInv
<1> SUFFICES ASSUME Init PROVE FirstPostsDeduplicated
  BY SeenInitially DEF DedupInv
<1>1. \A i \in Ids : ~Live(i)
  BY DEF Init, NoEntry, Exists, Live
<1> QED
  BY <1>1, FirstsDiffer DEF FirstPostsDeduplicated

LEMMA DedupInductive == ASSUME Blank = {} PROVE DedupInv /\ [Next]_vars => DedupInv'
<1> SUFFICES ASSUME DedupInv, [Next]_vars PROVE FirstPostsDeduplicated'
  BY SeenInductive DEF DedupInv
<1>1. IngestInv /\ BooksInv /\ LoopOK /\ FirstPostsDeduplicated /\ FeedSeen
  BY DEF DedupInv, SeenInv, IngestInv
<1>2. CASE UNCHANGED entries
  BY <1>1, <1>2 DEF FirstPostsDeduplicated, Live, Exists
<1>3. ASSUME NEW w \in Workers, Waits(w) PROVE UNCHANGED entries
  BY <1>1, <1>3, WaitKeeps
<1>4. ASSUME NEW w \in Workers,
             IngestDup(w) \/ IngestNew(w) \/ IngestSame(w) \/ IngestChanged(w) \/ IngestRemoved(w)
      PROVE  FirstPostsDeduplicated'
  <2>1. At(w, "ingest")
    BY <1>4 DEF IngestDup, IngestNew, IngestSame, IngestChanged, IngestRemoved, Ingesting
  <2>2. PICK t \in Tids, c \in Told : P(w).tid = t /\ P(w).is = c
    BY <1>1, <2>1, PageIsRead
  <2>3. CASE IngestNew(w)
    <3>1. Seen(P(w).tid, P(w).was)
      BY <1>1, <2>1 DEF FeedSeen, At
    <3>2. ~Unseen(P(w)) /\ c \in Contents
      BY <2>2, <2>3, <3>1 DEF Seen, Unseen, Modified, IngestNew, Added
    <3> QED
      BY <1>1, <2>2, <2>3, <3>2, NewDedups
  <2>4. CASE IngestChanged(w)
    <3>1. c \in Contents
      BY <2>2, <2>4 DEF IngestChanged, Changed, Modified
    <3> QED
      BY <1>1, <2>2, <2>4, <3>1, ChangedDedups
  <2>5. CASE IngestRemoved(w) /\ ~UNCHANGED entries
    <3>1. txn[t] # None /\ entries' = Undone(entries, txn[t].entry, <<"rm", t>>)
      BY <2>2, <2>5 DEF IngestRemoved, Dropped
    <3>2. PICK i \in Ids : i = txn[t].entry
      BY <1>1, <3>1, TxnRow
    <3> QED
      BY <1>1, <3>1, <3>2, UndoDedups, UndoersAreSome
  <2> QED
    BY <1>2, <1>4, <2>3, <2>4, <2>5 DEF IngestDup, IngestSame
<1>5. ASSUME NEW i \in Ids, Reverse(i) PROVE FirstPostsDeduplicated'
  BY <1>1, <1>5, UndoDedups, UndoersAreSome DEF Reverse
<1>6. ASSUME \/ \E t \in Tids : BankAdds(t) \/ BankChanges(t) \/ BankDrops(t)
             \/ \E m \in Months : Close(m) \/ Reopen(m)
             \/ \E w \in Workers : Skip(w)
      PROVE  UNCHANGED entries
  BY <1>6 DEF BankAdds, BankChanges, BankDrops, BankSays, Close, Reopen, Skip, books
<1>7. CASE UNCHANGED vars
  BY <1>2, <1>7 DEF vars
<1>8. CASE Next
  BY <1>1, <1>2, <1>3, <1>4, <1>5, <1>6, <1>8, CommitDedups, RecategorizeDedups DEF Next, SyncStep, Waits
<1> QED
  BY <1>7, <1>8

\* An added bank transaction and an imported row of the same content do not both
\* post and stay, in either order, whatever is withdrawn and delivered again, for
\* accounts without amounts of zero: such an amount is not ingested, and when it
\* changes the feed posts it without looking across the sources.
THEOREM FirstPostsAreDeduplicated ==
  ASSUME Blank = {}
  PROVE  (Spec => []FirstPostsDeduplicated) /\ (FeedSpec => []CompetingPostsDeduplicated)
<1>1. DedupInv => FirstPostsDeduplicated /\ CompetingPostsDeduplicated
  BY DEF DedupInv, CompetingPostsDeduplicated
<1>2. FeedInit => Init
  BY DEF FeedInit
<1>3. [FeedNext]_feedVars => [Next]_vars
  BY DEF FeedNext, feedVars
<1> QED
  BY DedupInitially, DedupInductive, <1>1, <1>2, <1>3, PTL DEF Spec, FeedSpec
-----------------------------------------------------------------------------
(* One sync at a time *)

\* Only the one sync is at work.
LEMMA OneAtWork ==
  ASSUME LoopOK, OneLoop, OneSync, NEW w \in Workers, w # w1
  PROVE  /\ ~SyncStep(w) /\ ~Crash(w) /\ ~SyncNow(w) /\ ~Relink(w)
         /\ Webhook(w) => status # "active" /\ UNCHANGED sync
<1>1. sync'[w] = sync[w] /\ sync[w].at = "idle"
  BY DEF OneSync, OneLoop, At
<1>2. ~SyncStep(w) /\ ~Crash(w)
  BY <1>1 DEF SyncStep, Fetch, Skip, IngestDup, IngestNew, IngestSame, IngestChanged, IngestRemoved,
              Refuse, Advance, AdvanceLast, Ingesting, Crash, At
<1>3. ASSUME NEW who, Begins(w, who) PROVE FALSE
  <2>1. sync'[w].at = "fetch"
    BY <1>3 DEF Begins, LoopOK
  <2> QED
    BY <1>1, <2>1
<1> QED
  BY <1>2, <1>3 DEF SyncNow, Relink, Webhook

\* Only a page that gets into the books changes what is missed.
LEMMA MissedStays ==
  ASSUME OneLoop, Noted, w1 \in Workers, ~(sync[w1].at = "ingest" /\ sync'[w1].at = "advance")
  PROVE  \A s \in Tids : s \in missed' <=> s \in missed
<1>1. \A w \in Workers, s \in Tids : ~Ingests(w, s)
  BY DEF OneLoop, Ingests, At
<1> QED
  BY <1>1 DEF Noted

\* A transaction whose row no operation has touched.
LEMMA RowStays ==
  ASSUME BooksInv, Settled, NEW s \in Tids, RowOK(s), txn'[s] = txn[s],
         atBank[s] = Gone => atBank'[s] = Gone,
         txn[s] # None =>
           \/ entries'[txn[s].entry].undo \in {entries[txn[s].entry].undo, <<"user", None>>}
           \/ TakenByAnother(s)'
  PROVE  RowOK(s)'
<1>1. CASE txn[s] = None
  BY <1>1 DEF RowOK
<1>2. CASE txn[s] # None
  <2>1. PICK i \in Ids : i = txn[s].entry /\ Exists(i)
    BY <1>2, TxnRow
  <2>2. /\ entries'[i].content = entries[i].content
        /\ entries[i].undo # None => entries'[i].undo = entries[i].undo
    BY <2>1 DEF Settled
  <2>3. TakenByAnother(s) => TakenByAnother(s)'
    <3> SUFFICES ASSUME TakenByAnother(s) PROVE TakenByAnother(s)'
      OBVIOUS
    <3>1. PICK u \in Tids \ {s}, tag \in {"rev", "rm"} : entries[i].undo = <<tag, u>>
      BY <2>1 DEF TakenByAnother
    <3>2. <<tag, u>> \in Undoers
      BY UndoersAreSome
    <3>3. entries'[i].undo = <<tag, u>>
      BY <2>2, <3>1, <3>2, UndoersAreSome
    <3> QED
      BY <1>2, <2>1, <3>3 DEF TakenByAnother
  <2>4. CASE entries'[i].undo \in {entries[i].undo, <<"user", None>>}
    BY <1>2, <2>1, <2>2, <2>3, <2>4 DEF RowOK
  <2>5. CASE TakenByAnother(s)'
    BY <1>2, <2>1, <2>2, <2>5 DEF RowOK
  <2> QED
    BY <1>2, <2>1, <2>4, <2>5
<1> QED
  BY <1>1, <1>2

LEMMA NamesKeep ==
  ASSUME BooksInv, Named, Settled, NEW k \in Ids, NEW c \in Contents,
         \A j \in Ids : Exists(j)' => Exists(j) \/ j = k,
         Exists(k)' /\ ~Exists(k) =>
           entries'[k].content = c /\ c \notin Blank /\ k[1][2] \in {None, c},
         index' \subseteq index \/ (index' \subseteq index \cup {Indexed(c, k)} /\ entries'[k].content = c)
  PROVE  Named'
<1>1. ASSUME NEW i \in Ids, Exists(i)'
      PROVE  /\ entries'[i].content \notin Blank
             /\ i[1][2] # None => entries'[i].content = i[1][2]
  BY <1>1 DEF Settled, Named
<1>2. ASSUME NEW x \in index'
      PROVE  x.source = Source(x.entry) /\ x.content = entries'[x.entry].content
  <2>1. CASE x \in index
    BY <2>1 DEF Named, Settled, BooksInv, BooksOK
  <2>2. CASE x = Indexed(c, k) /\ entries'[k].content = c
    BY <2>2 DEF Indexed
  <2> QED
    BY <1>2, <2>1, <2>2
<1> QED
  BY <1>1, <1>2 DEF Named

\* The page is in the books.
LEMMA PageTold ==
  ASSUME IngestInv, OneLoop, Noted, w1 \in Workers, At(w1, "ingest"), Goto(w1, "advance"), OtherBooks,
         NEW t \in Tids, P(w1).tid = t
  PROVE  /\ OneLoop' /\ sync'[w1].at = "advance" /\ sync[w1].at = "ingest" /\ P(w1)' = P(w1)
         /\ UNCHANGED <<atBank, cursor>>
         /\ \A s \in Tids \ {t} : s \in missed' <=> s \in missed
         /\ ToldAnew(w1) => t \in missed'
         /\ P(w1).is \in Contents \cup {Gone} /\ (P(w1).is = Gone => atBank[t] = Gone)
<1>1. /\ sync'[w1] = [sync[w1] EXCEPT !.at = "advance"]
      /\ \A v \in Workers \ {w1} : sync'[v] = sync[v]
  BY GotoMoves DEF IngestInv
<1>2. sync[w1] \in Loop
  BY DEF IngestInv, LoopOK, Loop
<1>3. sync'[w1].at = "advance" /\ sync'[w1].page = sync[w1].page /\ sync'[w1].cursor = sync[w1].cursor
  BY <1>1, <1>2 DEF Loop
<1>4. UNCHANGED <<atBank, cursor>> /\ sync[w1].at = "ingest" /\ P(w1)' = P(w1)
  BY <1>3 DEF OtherBooks, feed, At, P
<1>5. OneLoop'
  BY <1>1, <1>3, <1>4 DEF OneLoop, At
<1>6. \A w \in Workers, s \in Tids : Ingests(w, s) <=> w = w1 /\ s = t
  BY <1>3, <1>4 DEF OneLoop, Ingests, At
<1>7. /\ \A s \in Tids \ {t} : s \in missed' <=> s \in missed
      /\ ToldAnew(w1) => t \in missed'
  BY <1>6 DEF Noted
<1> QED
  BY <1>3, <1>4, <1>5, <1>7 DEF OneLoop

\* What is left to show of an operation that ingests a page.
LEMMA PageInBooks ==
  ASSUME OneSyncInv, IngestInv', Noted, w1 \in Workers,
         At(w1, "ingest"), Goto(w1, "advance"), OtherBooks,
         NEW t \in Tids, P(w1).tid = t, NEW c \in Told, P(w1).is = c,
         Settled, Named', \A s \in Tids \ {t} : txn'[s] = txn[s],
         \A s \in Tids \ {t} : txn[s] # None =>
           \/ entries'[txn[s].entry].undo = entries[txn[s].entry].undo
           \/ TakenByAnother(s)',
         \A s \in Tids \ {t}, d \in Contents : Spent(s, d)' => Spent(s, d),
         RowOK(t)', ToldAnew(w1) \/ Matches(t, c)', Spent(t, atBank[t])' => txn'[t].content = atBank[t]
  PROVE  OneSyncInv'
<1>1. /\ OneLoop' /\ sync'[w1].at = "advance" /\ sync[w1].at = "ingest" /\ P(w1)' = P(w1)
      /\ UNCHANGED <<atBank, cursor>>
      /\ \A s \in Tids \ {t} : s \in missed' <=> s \in missed
      /\ ToldAnew(w1) => t \in missed'
  BY PageTold DEF OneSyncInv
<1>2. ASSUME NEW s \in Tids PROVE RowOK(s)'
  <2>1. BooksInv /\ RowOK(s)
    BY DEF OneSyncInv, IngestInv, BooksAsKnown
  <2> QED
    BY <1>1, <2>1, RowStays
<1>3. ASSUME NEW s \in Tids PROVE SaysSo(s)'
  <2>1. CASE s = t
    BY <1>1, <2>1 DEF SaysSo, Matches, At
  <2>2. CASE s # t
    <3>1. SaysSo(s)
      BY DEF OneSyncInv, BooksAsKnown
    <3>2. s \in missed \/ cursor[s] # atBank[s] \/ Matches(s, cursor[s])
      BY <1>1, <3>1 DEF SaysSo, At
    <3>3. Matches(s, cursor[s]) => Matches(s, cursor[s])'
      BY <1>1, <2>2 DEF Matches
    <3> QED
      BY <1>1, <2>2, <3>2, <3>3 DEF SaysSo
  <2> QED
    BY <2>1, <2>2
<1>4. NoneComesBack'
  <2>1. ASSUME NEW s \in Tids, Spent(s, atBank[s])' PROVE txn'[s].content = atBank'[s]
    <3>1. CASE s = t
      BY <1>1, <2>1, <3>1 DEF Spent
    <3>2. CASE s # t
      <4>1. atBank[s] \in Contents
        BY <1>1, <2>1 DEF Spent
      <4>2. Spent(s, atBank[s])
        BY <1>1, <2>1, <3>2, <4>1 DEF Spent
      <4> QED
        BY <1>1, <3>2, <4>2 DEF OneSyncInv, NoneComesBack
    <3> QED
      BY <3>1, <3>2
  <2>2. ~At(w1, "ingest")'
    BY <1>1 DEF At
  <2> QED
    BY <2>1, <2>2 DEF NoneComesBack
<1> QED
  BY <1>1, <1>2, <1>3, <1>4 DEF OneSyncInv, BooksAsKnown

\* A page that changes nothing in the books.
LEMMA SkipFaithful ==
  ASSUME OneSyncInv, IngestInv', Noted, w1 \in Workers,
         At(w1, "ingest"), Goto(w1, "advance"), OtherBooks, UNCHANGED <<txn, entries, index>>,
         NEW t \in Tids, P(w1).tid = t, NEW c \in Told, P(w1).is = c, ToldAnew(w1) \/ Matches(t, c)
  PROVE  OneSyncInv'
<1>1. Settled /\ Named' /\ BooksInv /\ RowOK(t)
  BY DEF OneSyncInv, Settled, Named, Exists, IngestInv, BooksAsKnown
<1>2. UNCHANGED atBank
  BY DEF OtherBooks, feed
<1>3. \A s \in Tids, d \in Contents : Spent(s, d)' <=> Spent(s, d)
  BY DEF Spent, Exists
<1>4. Spent(t, atBank[t])' => txn'[t].content = atBank[t]
  BY <1>2 DEF OneSyncInv, NoneComesBack, Spent, Exists
<1>5. RowOK(t)'
  BY <1>1, <1>2, RowStays
<1>6. ToldAnew(w1) \/ Matches(t, c)'
  BY DEF Matches
<1> QED
  BY <1>1, <1>3, <1>4, <1>5, <1>6, PageInBooks

LEMMA SkipIsFaithful ==
  ASSUME OneSyncInv, Noted, w1 \in Workers, Skip(w1) PROVE OneSyncInv'
<1>1. PICK t \in Tids, c \in Told : t = P(w1).tid /\ c = P(w1).is
  BY PageIsRead DEF OneSyncInv, IngestInv, Skip, Ingesting
<1>2. /\ At(w1, "ingest") /\ Goto(w1, "advance") /\ OtherBooks /\ UNCHANGED <<txn, entries, index>>
      /\ \/ Added(P(w1)) /\ (txn[t] # None \/ c \in Blank)
         \/ Unseen(P(w1)) /\ c \in Blank
         \/ Removed(P(w1)) /\ ~Dropped(P(w1))
  BY <1>1 DEF Skip, Ingesting
<1>3. IngestInv'
  BY SkipKeeps DEF OneSyncInv
<1>4. ToldAnew(w1) \/ Matches(t, c)
  <2>1. CASE Added(P(w1))
    BY <1>1, <1>2, <2>1, NoneAssumption, IngestAssumption DEF Added, Unseen, Modified, Removed, ToldAnew, Matches
  <2>2. CASE Unseen(P(w1)) /\ c \in Blank
    BY <1>1, <2>2, NoneAssumption, IngestAssumption DEF Unseen, Modified, Matches
  <2>3. CASE Removed(P(w1)) /\ ~Dropped(P(w1))
    BY <1>1, <2>3, NoneAssumption, IngestAssumption DEF Removed, Dropped, Matches
  <2> QED
    BY <1>2, <2>1, <2>2, <2>3
<1> QED
  BY <1>1, <1>2, <1>3, <1>4, SkipFaithful

LEMMA SameFaithful ==
  ASSUME OneSyncInv, Noted, w1 \in Workers, IngestSame(w1) PROVE OneSyncInv'
<1>1. PICK t \in Tids, c \in Told : t = P(w1).tid /\ c = P(w1).is
  BY PageIsRead DEF OneSyncInv, IngestInv, IngestSame, Ingesting
<1>2. /\ At(w1, "ingest") /\ Goto(w1, "advance") /\ OtherBooks /\ UNCHANGED <<entries, index>>
      /\ txn[t] # None /\ txn[t].content = c /\ c \in Contents
      /\ txn' = [txn EXCEPT ![t].removed = FALSE]
  BY <1>1 DEF IngestSame, Ingesting, Same, Modified
<1>3. IngestInv' /\ BooksInv
  BY IngestKeeps DEF OneSyncInv, IngestInv
<1>4. ~txn[t].removed
  BY <1>1, <1>2 DEF OneSyncInv, NoneComesBack, FreshPage
<1>5. UNCHANGED txn
  <2>1. txn[t] \in Txn
    BY <1>2, <1>3, TxnRow
  <2>2. [txn[t] EXCEPT !.removed = FALSE] = txn[t]
    BY <1>4, <2>1 DEF Txn
  <2> QED
    BY <1>2, <1>3, <2>2 DEF BooksInv, BooksOK
<1>6. Matches(t, c)
  BY <1>2, <1>4, NoneAssumption, IngestAssumption DEF Matches
<1> QED
  BY <1>1, <1>2, <1>3, <1>5, <1>6, SkipFaithful

LEMMA UnboundUnspent ==
  ASSUME BooksInv, NEW t \in Tids, txn[t] = None, NEW c \in Contents
  PROVE  ~Spent(t, c)
  BY KeysOfTxn, FirstIsId DEF BooksInv, NoneUnbound, Spent

LEMMA DupFaithful ==
  ASSUME OneSyncInv, Noted, w1 \in Workers, IngestDup(w1) PROVE OneSyncInv'
<1>1. PICK t \in Tids, c \in Told : t = P(w1).tid /\ c = P(w1).is
  BY PageIsRead DEF OneSyncInv, IngestInv, IngestDup, Ingesting
<1>2. /\ At(w1, "ingest") /\ Goto(w1, "advance") /\ OtherBooks /\ UNCHANGED <<entries, index>>
      /\ txn[t] = None /\ c \in Contents \ Blank
  BY <1>1 DEF IngestDup, Ingesting, Added
<1>3. PICK i \in Dups(c, "plaid") : txn' = Bound(t, c, i)
  BY <1>1 DEF IngestDup
<1>4. /\ IngestInv' /\ Settled /\ Named' /\ BooksInv /\ Named
  BY <1>2, IngestKeeps DEF OneSyncInv, Settled, Named, Exists, IngestInv
<1>5. i \in Ids /\ i[1][1] = None /\ entries[i].content = c /\ entries[i].undo = None
  <2>1. PICK x \in index : x.entry = i /\ x.content = c /\ x.source # "plaid" /\ Live(i)
    BY <1>3 DEF Dups
  <2>2. i \in Ids /\ Source(i) # "plaid" /\ entries[i].content = c
    BY <1>4, <2>1 DEF Named, BooksInv, BooksOK
  <2> QED
    BY <2>1, <2>2 DEF Source, Live
<1>6. UNCHANGED atBank
  BY <1>1, <1>2, PageTold DEF OneSyncInv
<1>7. /\ txn'[t] = [content |-> c, entry |-> i, reversed |-> FALSE, removed |-> FALSE]
      /\ txn'[t] # None /\ \A s \in Tids : s # t => txn'[s] = txn[s]
  BY <1>2, <1>3, <1>4, <1>5, BoundRows
<1>8. RowOK(t)' /\ Matches(t, c)'
  BY <1>2, <1>5, <1>7, NoneAssumption, IngestAssumption DEF RowOK, Matches
<1>9. \A s \in Tids, d \in Contents : Spent(s, d)' <=> Spent(s, d)
  BY <1>2 DEF Spent, Exists
<1>10. ~Spent(t, atBank[t])'
  BY <1>2, <1>4, <1>6, <1>9, UnboundUnspent DEF Spent
<1> QED
  BY <1>1, <1>2, <1>4, <1>7, <1>8, <1>9, <1>10, PageInBooks

LEMMA NewFaithful ==
  ASSUME OneSyncInv, Noted, w1 \in Workers, IngestNew(w1) PROVE OneSyncInv'
<1>1. PICK t \in Tids, c \in Told : t = P(w1).tid /\ c = P(w1).is
  BY PageIsRead DEF OneSyncInv, IngestInv, IngestNew, Ingesting
<1>2. /\ At(w1, "ingest") /\ Goto(w1, "advance") /\ OtherBooks
      /\ txn[t] = None /\ c \in Contents \ Blank
  BY <1>1 DEF IngestNew, Ingesting, Added, Unseen, Modified
<1> DEFINE a == AddKey(t)
           k == First(a)
<1>3. /\ txn' = Bound(t, c, k) /\ entries' = WithPost(entries, a, c)
      /\ index' = index \cup {Indexed(c, k)}
  BY <1>1 DEF IngestNew
<1>4. IngestInv' /\ BooksInv /\ Named /\ BooksInv'
  BY IngestKeeps DEF OneSyncInv, IngestInv
<1>0. a \in Keys /\ a[1] = t /\ a[2] = None
  BY <1>2, KeysOfTxn
<1> HIDE DEF a
<1>5. k \in Ids /\ k[1] = a
  BY <1>0, FirstIsId
<1>6. ~Exists(k)
  BY <1>0, <1>2, <1>4, <1>5 DEF BooksInv, NoneUnbound
<1> HIDE DEF k
<1>7. /\ entries' \in EntriesType /\ \A j \in Ids : j # k => entries'[j] = entries[j]
      /\ entries'[k] = [content |-> c, undo |-> None]
  <2>1. entries \in EntriesType
    BY <1>4 DEF BooksInv, BooksOK, EntriesType
  <2> QED
    BY <1>0, <1>2, <1>3, <1>5, <1>6, <2>1, WithPostEntries DEF k
<1>8. Settled /\ \A j \in Ids : Exists(j)' => Exists(j) \/ j = k
  BY <1>6, <1>7 DEF Settled, Exists
<1>9. Named'
  BY <1>0, <1>2, <1>3, <1>4, <1>5, <1>7, <1>8, NamesKeep
<1>10. UNCHANGED atBank
  BY <1>1, <1>2, PageTold DEF OneSyncInv
<1>11. /\ txn'[t] = [content |-> c, entry |-> k, reversed |-> FALSE, removed |-> FALSE]
       /\ txn'[t] # None /\ \A s \in Tids : s # t => txn'[s] = txn[s]
  BY <1>2, <1>3, <1>4, <1>5, BoundRows
<1>12. RowOK(t)' /\ Matches(t, c)'
  BY <1>0, <1>2, <1>5, <1>7, <1>11, NoneAssumption, IngestAssumption DEF RowOK, Matches
<1>13. \A s \in Tids, d \in Contents : Spent(s, d)' => Spent(s, d)
  BY <1>0, <1>5, <1>8, KeysOfTxn, FirstIsId DEF Spent
<1>14. ~Spent(t, atBank[t])'
  BY <1>2, <1>4, <1>10, <1>13, UnboundUnspent DEF Spent
<1>15. \A s \in Tids : txn[s] # None => entries'[txn[s].entry].undo = entries[txn[s].entry].undo
  BY <1>4, <1>6, <1>7, TxnRow
<1> QED
  BY <1>1, <1>2, <1>4, <1>8, <1>9, <1>11, <1>12, <1>13, <1>14, <1>15, PageInBooks

\* The feed takes back the entry that t is bound to: whoever else was recognised
\* in it has lost it to t.
LEMMA TakenByOne ==
  ASSUME BooksInv, NEW t \in Tids, NEW s \in Tids \ {t}, txn[s] # None, txn'[s] = txn[s],
         NEW i \in Ids, NEW tag \in {"rev", "rm"},
         entries'[i].undo \in {entries[i].undo, <<tag, t>>},
         \A j \in Ids : Exists(j) /\ j # i => entries'[j] = entries[j]
  PROVE  entries'[txn[s].entry].undo = entries[txn[s].entry].undo \/ TakenByAnother(s)'
<1>1. txn[s].entry \in Ids /\ Exists(txn[s].entry)
  BY TxnRow
<1>2. CASE txn[s].entry # i
  BY <1>1, <1>2
<1>3. CASE txn[s].entry = i
  BY <1>3 DEF TakenByAnother
<1> QED
  BY <1>2, <1>3

LEMMA ChangedFaithful ==
  ASSUME OneSyncInv, Noted, w1 \in Workers, IngestChanged(w1) PROVE OneSyncInv'
<1>1. PICK t \in Tids, c \in Told : t = P(w1).tid /\ c = P(w1).is
  BY PageIsRead DEF OneSyncInv, IngestInv, IngestChanged, Ingesting
<1>2. /\ At(w1, "ingest") /\ Goto(w1, "advance") /\ OtherBooks
      /\ txn[t] # None /\ txn[t].content # c /\ c \in Contents
  BY <1>1 DEF IngestChanged, Ingesting, Changed, Modified
<1>3. IngestInv' /\ BooksInv /\ Named /\ NoneComesBack
  BY IngestKeeps DEF OneSyncInv, IngestInv
<1>4. ~txn[t].reversed
  <2>1. ~txn[t].removed /\ RowOK(t)
    BY <1>1, <1>2 DEF OneSyncInv, NoneComesBack, FreshPage, BooksAsKnown
  <2> QED
    BY <1>2, <2>1 DEF RowOK
<1> DEFINE v == VersionKey(t, c)
           k == First(v)
<1>5. v \in Keys /\ k \in Ids /\ k[1] = v /\ v[1] = t /\ v[2] = c
  BY <1>2, KeysOfTxn, FirstIsId
<1>6. ~Exists(k)
  BY <1>1, <1>2, <1>3 DEF NoneComesBack, FreshPage, Spent
<1>7. c \notin Blank
  BY <1>1, <1>2, <1>6 DEF IngestChanged, Ingesting, Refused, CanPost
<1>8. PICK i \in Ids : i = txn[t].entry /\ Exists(i)
  BY <1>2, <1>3, TxnRow
<1>9. entries[i].undo \in {None, <<"rev", t>>}
  BY <1>1, <1>4, <1>8 DEF IngestChanged, Ingesting, Refused, CanReverse, Live
<1>10. /\ txn' = Bound(t, c, k) /\ entries' = WithPost(Undone(entries, i, <<"rev", t>>), v, c)
       /\ index' = Pruned(i) \cup {Indexed(c, k)}
  BY <1>1, <1>4, <1>8 DEF IngestChanged
<1> HIDE DEF v
<1>11. /\ Undone(entries, i, <<"rev", t>>) \in EntriesType
       /\ \A j \in Ids : j # i => Undone(entries, i, <<"rev", t>>)[j] = entries[j]
       /\ Undone(entries, i, <<"rev", t>>)[i] = [content |-> entries[i].content, undo |-> <<"rev", t>>]
  <2>1. entries \in EntriesType
    BY <1>3 DEF BooksInv, BooksOK, EntriesType
  <2>2. <<"rev", t>> \in Undoers
    BY UndoersAreSome
  <2> QED
    BY <2>1, <2>2, UndoneEntries
<1>12. k # i
  BY <1>6, <1>8
<1>13. /\ entries' \in EntriesType /\ \A j \in Ids \ {i, k} : entries'[j] = entries[j]
       /\ entries'[k] = [content |-> c, undo |-> None]
       /\ entries'[i] = [content |-> entries[i].content, undo |-> <<"rev", t>>]
  <2> DEFINE mid == Undone(entries, i, <<"rev", t>>)
  <2>1. /\ entries' \in EntriesType /\ \A j \in Ids : j # k => entries'[j] = mid[j]
        /\ ~Exists(k) => entries'[k] = [content |-> c, undo |-> None]
    BY <1>2, <1>5, <1>10, <1>11, WithPostEntries
  <2> HIDE DEF mid, k
  <2> QED
    BY <1>5, <1>6, <1>8, <1>11, <1>12, <2>1 DEF mid
<1> HIDE DEF k
<1>14. Settled /\ \A j \in Ids : Exists(j)' => Exists(j) \/ j = k
  BY <1>6, <1>8, <1>9, <1>13, UndoersAreSome DEF Settled, Exists
<1>15. Named'
  BY <1>2, <1>3, <1>5, <1>7, <1>10, <1>13, <1>14, NamesKeep DEF Pruned
<1>16. UNCHANGED atBank
  BY <1>1, <1>2, PageTold DEF OneSyncInv
<1>17. /\ txn'[t] = [content |-> c, entry |-> k, reversed |-> FALSE, removed |-> FALSE]
       /\ txn'[t] # None /\ \A s \in Tids : s # t => txn'[s] = txn[s]
  BY <1>2, <1>3, <1>5, <1>10, BoundRows
<1>18. RowOK(t)' /\ Matches(t, c)'
  BY <1>2, <1>5, <1>13, <1>17, NoneAssumption, IngestAssumption DEF RowOK, Matches
<1>19. \A s \in Tids, d \in Contents : Spent(s, d)' => Spent(s, d) \/ (s = t /\ d = c)
  <2> SUFFICES ASSUME NEW s \in Tids, NEW d \in Contents, Spent(s, d)'
               PROVE  Spent(s, d) \/ (s = t /\ d = c)
    OBVIOUS
  <2>1. First(VersionKey(s, d)) \in Ids /\ First(VersionKey(s, d))[1] = <<s, d>>
    BY KeysOfTxn, FirstIsId DEF VersionKey
  <2>2. Exists(First(VersionKey(s, d))) \/ First(VersionKey(s, d)) = k
    BY <1>14, <2>1 DEF Spent
  <2> QED
    BY <1>5, <2>1, <2>2 DEF Spent
<1>20. Spent(t, atBank[t])' => txn'[t].content = atBank[t]
  <2> SUFFICES ASSUME Spent(t, atBank[t])', atBank[t] # c PROVE FALSE
    BY <1>17
  <2>1. atBank[t] \in Contents /\ Spent(t, atBank[t])
    BY <1>16, <1>19 DEF Spent
  <2> QED
    BY <1>1, <1>2, <1>3, <2>1 DEF NoneComesBack, FreshPage
<1>21. \A s \in Tids \ {t} : txn[s] # None =>
         entries'[txn[s].entry].undo = entries[txn[s].entry].undo \/ TakenByAnother(s)'
  <2>1. entries'[i].undo = <<"rev", t>> /\ \A j \in Ids : Exists(j) /\ j # i => entries'[j] = entries[j]
    BY <1>6, <1>13
  <2> QED
    BY <1>3, <1>17, <2>1, TakenByOne
<1> QED
  BY <1>1, <1>2, <1>3, <1>14, <1>15, <1>17, <1>18, <1>19, <1>20, <1>21, PageInBooks

LEMMA RemovedFaithful ==
  ASSUME OneSyncInv, Noted, w1 \in Workers, IngestRemoved(w1) PROVE OneSyncInv'
<1>1. PICK t \in Tids : t = P(w1).tid
  BY PageIsRead DEF OneSyncInv, IngestInv, IngestRemoved, Ingesting
<1>2. /\ At(w1, "ingest") /\ Goto(w1, "advance") /\ OtherBooks /\ txn[t] # None /\ P(w1).is = Gone
      /\ ~txn[t].removed /\ Gone \in Told
  BY <1>1 DEF IngestRemoved, Ingesting, Dropped, Removed, Told
<1>3. IngestInv' /\ BooksInv /\ Named
  BY IngestKeeps DEF OneSyncInv, IngestInv
<1>4. /\ ~txn[t].reversed /\ txn[t].entry[1][1] \in {t, None} /\ atBank[t] = Gone
      /\ entries[txn[t].entry].content = txn[t].content
  <2>1. RowOK(t) /\ atBank[t] = Gone
    BY <1>1, <1>2, PageTold DEF OneSyncInv, BooksAsKnown
  <2> QED
    BY <1>2, <2>1 DEF RowOK
<1>5. PICK i \in Ids : i = txn[t].entry /\ Exists(i)
  BY <1>2, <1>3, TxnRow
<1>6. entries[i].undo \in {None, <<"rm", t>>}
  BY <1>1, <1>2, <1>4, <1>5 DEF IngestRemoved, Ingesting, Refused, CanReverse, Live
<1>7. /\ txn' = [txn EXCEPT ![t].reversed = TRUE, ![t].removed = TRUE]
      /\ entries' = Undone(entries, i, <<"rm", t>>) /\ index' = Pruned(i)
  BY <1>1, <1>4, <1>5 DEF IngestRemoved
<1>8. /\ entries' \in EntriesType /\ \A j \in Ids : j # i => entries'[j] = entries[j]
      /\ entries'[i] = [content |-> entries[i].content, undo |-> <<"rm", t>>]
  <2>1. entries \in EntriesType
    BY <1>3 DEF BooksInv, BooksOK, EntriesType
  <2>2. /\ Undone(entries, i, <<"rm", t>>) \in EntriesType
        /\ \A j \in Ids : j # i => Undone(entries, i, <<"rm", t>>)[j] = entries[j]
        /\ Undone(entries, i, <<"rm", t>>)[i] = [content |-> entries[i].content, undo |-> <<"rm", t>>]
    <3>1. <<"rm", t>> \in Undoers
      BY UndoersAreSome
    <3> QED
      BY <2>1, <3>1, UndoneEntries
  <2> QED
    BY <1>7, <2>2
<1>9. Settled /\ \A j \in Ids : Exists(j)' => Exists(j)
  BY <1>5, <1>6, <1>8, UndoersAreSome DEF Settled, Exists
<1>10. Named'
  <2>1. txn[t].content \in Contents /\ index' \subseteq index
    BY <1>2, <1>3, <1>7, TxnRow DEF Pruned
  <2> QED
    BY <1>3, <1>5, <1>9, <2>1, NamesKeep
<1>11. UNCHANGED atBank
  BY <1>1, <1>2, PageTold DEF OneSyncInv
<1>12. /\ txn'[t] # None /\ txn'[t].entry = i /\ txn'[t].content = txn[t].content
       /\ txn'[t].removed /\ txn'[t].reversed
       /\ \A s \in Tids : s # t => txn'[s] = txn[s]
  <2>1. txn[t] \in Txn
    BY <1>2, <1>3, TxnRow
  <2> DEFINE b == [txn[t] EXCEPT !.reversed = TRUE, !.removed = TRUE]
  <2>2. b \in Txn /\ b.entry = i /\ b.content = txn[t].content /\ b.removed /\ b.reversed
    BY <1>5, <2>1 DEF Txn
  <2>3. txn' = [txn EXCEPT ![t] = b]
    BY <1>3, <1>7, <2>1 DEF BooksInv, BooksOK
  <2> HIDE DEF b
  <2> QED
    BY <1>3, <2>2, <2>3, NoneAssumption DEF BooksInv, BooksOK
<1>13. RowOK(t)' /\ Matches(t, Gone)'
  <2>1. entries'[i].content = txn'[t].content /\ entries'[i].undo # None
    <3>1. entries'[i].content = entries[i].content /\ entries'[i].undo = <<"rm", t>>
      BY <1>8
    <3> QED
      BY <1>4, <1>5, <1>12, <3>1, UndoersAreSome
  <2>2. Gone \notin Contents /\ Gone # None
    BY IngestAssumption
  <2>3. txn'[t].entry[1][1] \in {t, None}
    BY <1>4, <1>5, <1>12
  <2> QED
    BY <1>4, <1>11, <1>12, <2>1, <2>2, <2>3 DEF RowOK, Matches
<1>14. \A s \in Tids, d \in Contents : Spent(s, d)' => Spent(s, d)
  BY <1>9, KeysOfTxn, FirstIsId DEF Spent
<1>15. ~Spent(t, atBank[t])'
  BY <1>4, <1>11, IngestAssumption DEF Spent
<1>16. \A s \in Tids \ {t} : txn[s] # None =>
         entries'[txn[s].entry].undo = entries[txn[s].entry].undo \/ TakenByAnother(s)'
  <2>1. entries'[i].undo = <<"rm", t>> /\ \A j \in Ids : Exists(j) /\ j # i => entries'[j] = entries[j]
    BY <1>8
  <2> QED
    BY <1>3, <1>12, <2>1, TakenByOne
<1> QED
  BY <1>1, <1>2, <1>3, <1>9, <1>10, <1>12, <1>13, <1>14, <1>15, <1>16, PageInBooks

MissedSame == \A s \in Tids : s \in missed' <=> s \in missed

\* The steps of the sync that touch no row of the books.
LEMMA LoopFaithful ==
  ASSUME OneSyncInv, w1 \in Workers, OneSync, Noted, Waits(w1)
  PROVE  OneSyncInv'
<1>1. /\ IngestInv' /\ UNCHANGED <<txn, entries, index, atBank>> /\ IngestInv /\ LoopOK /\ OneLoop
      /\ \A v \in Workers \ {w1} : sync'[v] = sync[v]
  BY WaitKeeps DEF OneSyncInv, IngestInv, OneSync, Waits, Webhook, SyncNow, Relink, Fetch, Refuse,
                   Advance, AdvanceLast, Crash, feed, bank
<1>2. Named'
  BY <1>1 DEF OneSyncInv, Named, Exists
<1>3. SUFFICES /\ OneLoop'
               /\ \A t \in Tids : t \in missed \/ cursor'[t] # atBank[t] \/ Matches(t, cursor'[t])
               /\ MissedSame /\ ~At(w1, "advance")'
               /\ At(w1, "ingest")' =>
                    \E t \in Tids : P(w1)'.tid = t /\ P(w1)'.is = atBank[t]
  <2>1. ASSUME NEW t \in Tids PROVE RowOK(t)' /\ SaysSo(t)'
    <3>1. RowOK(t)'
      BY <1>1 DEF OneSyncInv, BooksAsKnown, RowOK, TakenByAnother
    <3>2. Matches(t, cursor'[t]) => Matches(t, cursor[t])'
      BY <1>1 DEF Matches
    <3> QED
      BY <1>1, <1>3, <3>1, <3>2 DEF SaysSo, MissedSame
  <2>2. NoneComesBack'
    <3>1. ASSUME NEW t \in Tids PROVE /\ Spent(t, atBank[t])' => txn'[t].content = atBank'[t]
                                      /\ atBank[t] \in Contents /\ txn[t] # None => ~txn[t].removed
      <4>1. RowOK(t) /\ (Spent(t, atBank[t]) => txn[t].content = atBank[t])
        BY DEF OneSyncInv, BooksAsKnown, NoneComesBack
      <4> QED
        BY <1>1, <4>1, IngestAssumption DEF RowOK, Spent, Exists
    <3>2. ASSUME NEW t \in Tids, P(w1)'.tid = t, P(w1)'.is = atBank[t]
          PROVE  FreshPage(P(w1))'
      BY <1>1, <3>1, <3>2 DEF FreshPage, Spent
    <3> QED
      BY <1>3, <3>1, <3>2 DEF NoneComesBack
  <2> QED
    BY <1>1, <1>2, <1>3, <2>1, <2>2 DEF OneSyncInv, BooksAsKnown
<1>4. ASSUME ~At(w1, "advance"), NEW t \in Tids
      PROVE  t \in missed \/ cursor[t] # atBank[t] \/ Matches(t, cursor[t])
  BY <1>4 DEF OneSyncInv, BooksAsKnown, SaysSo
<1>5. CASE Webhook(w1) \/ SyncNow(w1) \/ Relink(w1)
  <2>1. sync[w1].at = "idle" /\ cursor' = cursor
    BY <1>5 DEF Webhook, SyncNow, Relink, At
  <2>2. \/ sync'[w1].at = "fetch" /\ sync'[w1].cursor = cursor
        \/ sync'[w1] = sync[w1]
    BY <1>1, <1>5 DEF Webhook, SyncNow, Relink, Begins, LoopOK
  <2>3. MissedSame
    BY <1>1, <2>1, MissedStays DEF MissedSame
  <2>4. OneLoop'
    BY <1>1, <2>1, <2>2 DEF OneLoop, At
  <2> QED
    BY <1>4, <2>1, <2>2, <2>3, <2>4 DEF At
<1>6. CASE Refuse(w1) \/ Crash(w1) \/ AdvanceLast(w1)
  <2>1. sync'[w1].at = "idle"
    BY <1>1, <1>6, EndKeeps, RestingIsLoop DEF LoopOK
  <2>2. cursor' = cursor /\ sync[w1].at # "idle"
    BY <1>1, <1>6 DEF Refuse, Crash, AdvanceLast, At, OneLoop
  <2>3. MissedSame
    BY <1>1, <2>1, MissedStays DEF MissedSame
  <2>4. OneLoop'
    BY <1>1, <2>1, <2>2 DEF OneLoop, At
  <2>5. ASSUME NEW t \in Tids PROVE t \in missed \/ cursor[t] # atBank[t] \/ Matches(t, cursor[t])
    <3>1. CASE At(w1, "advance") /\ P(w1).tid = t
      BY <1>1, <3>1 DEF OneLoop
    <3>2. CASE ~(At(w1, "advance") /\ P(w1).tid = t)
      BY <3>2 DEF OneSyncInv, BooksAsKnown, SaysSo
    <3> QED
      BY <3>1, <3>2
  <2> QED
    BY <2>1, <2>2, <2>3, <2>4, <2>5 DEF At
<1>7. CASE Fetch(w1)
  <2>1. /\ sync[w1].at = "fetch" /\ sync'[w1].cursor = sync[w1].cursor /\ cursor' = cursor
        /\ \/ sync'[w1].at = "last"
           \/ /\ sync'[w1].at = "ingest"
              /\ \E t \in News(sync[w1].cursor) : sync'[w1].page = Fetched(w1, t)
    BY <1>1, <1>7, FetchMoves
  <2>2. sync[w1].cursor = cursor
    BY <1>1, <2>1 DEF OneLoop, At
  <2>3. MissedSame
    BY <1>1, <2>1, MissedStays DEF MissedSame
  <2>4. CASE sync'[w1].at = "last"
    <3>1. OneLoop'
      BY <1>1, <2>1, <2>2, <2>4 DEF OneLoop, At
    <3> QED
      BY <1>4, <2>1, <2>3, <2>4, <3>1 DEF At
  <2>5. CASE sync'[w1].at = "ingest" /\ \E t \in News(cursor) : sync'[w1].page = Fetched(w1, t)
    <3>1. PICK t \in Tids : cursor[t] # atBank[t] /\ P(w1)' = Fetched(w1, t)
      BY <2>5 DEF News, P
    <3>2. P(w1)'.tid = t /\ P(w1)'.was = cursor[t] /\ P(w1)'.is = atBank[t]
      BY <2>2, <3>1 DEF Fetched
    <3>3. cursor[t] \in Told /\ atBank[t] \in Told /\ cursor[t] # Gone /\ atBank[t] # None
      BY <1>1, <3>1 DEF LoopOK, OneLoop
    <3>4. OneLoop'
      BY <1>1, <2>1, <2>2, <2>5, <3>1, <3>2, <3>3 DEF OneLoop, At, Told
    <3> QED
      BY <1>4, <2>1, <2>3, <2>5, <3>2, <3>4 DEF At
  <2> QED
    BY <2>1, <2>2, <2>4, <2>5
<1>8. CASE Advance(w1)
  <2>1. PICK t \in Tids, c \in Told : t = P(w1).tid /\ c = P(w1).is /\ sync[w1].at = "advance"
    BY <1>1, <1>8, PageIsRead DEF Advance, At
  <2>2. sync[w1].cursor = cursor /\ c \in Contents \cup {Gone} /\ atBank[t] # None
        /\ (c = Gone => atBank[t] = Gone)
    BY <1>1, <2>1 DEF OneLoop, At
  <2>3. /\ cursor' = [cursor EXCEPT ![t] = c] /\ sync'[w1].at \in {"fetch", "idle"}
        /\ sync'[w1].at = "idle" \/ sync'[w1].cursor = cursor'
    BY <1>1, <1>8, <2>1, <2>2, AdvanceKeeps, RestingIsLoop
  <2>4. /\ cursor'[t] = c /\ \A s \in Tids : s # t => cursor'[s] = cursor[s]
    BY <1>1, <2>3 DEF LoopOK
  <2>5. OneLoop'
    BY <1>1, <2>2, <2>3, <2>4, NoneAssumption, IngestAssumption DEF OneLoop, At
  <2>6. MissedSame
    BY <1>1, <2>1, MissedStays DEF MissedSame
  <2>7. ASSUME NEW s \in Tids PROVE s \in missed \/ cursor'[s] # atBank[s] \/ Matches(s, cursor'[s])
    <3>1. SaysSo(s)
      BY DEF OneSyncInv, BooksAsKnown
    <3> QED
      BY <2>1, <2>4, <3>1 DEF SaysSo, At
  <2> QED
    BY <2>3, <2>5, <2>6, <2>7 DEF At
<1> QED
  BY <1>5, <1>6, <1>7, <1>8 DEF Waits

\* The bank goes on while a page is on its way, and does not go back to a version
\* that was posted.
LEMMA BankFaithful ==
  ASSUME OneSyncInv, w1 \in Workers, NoReturn, Noted, NEW t \in Tids,
         BankAdds(t) \/ BankChanges(t) \/ BankDrops(t)
  PROVE  OneSyncInv'
<1>1. PICK v \in Contents \cup {Gone} : BankSays(t, v) /\ v # atBank[t] /\ atBank[t] # Gone
  BY NoneAssumption, IngestAssumption DEF BankAdds, BankChanges, BankDrops
<1>2. /\ IngestInv' /\ IngestInv /\ OneLoop /\ UNCHANGED <<cursor, sync, txn, entries, index>>
      /\ atBank'[t] = v /\ \A s \in Tids : s # t => atBank'[s] = atBank[s]
  BY <1>1, OthersKeep DEF OneSyncInv, IngestInv, LoopOK, BankSays, books
<1>3. v # None /\ ~Spent(t, v) /\ cursor[t] # v
  BY <1>1, <1>2, NoneAssumption, IngestAssumption DEF NoReturn, Spent, OneLoop
<1>4. P(w1)' = P(w1) /\ \A w \in Workers, l \in Labels : At(w, l)' <=> At(w, l)
  BY <1>2 DEF P, At
<1>5. OneLoop'
  <2>1. ASSUME NEW s \in Tids
        PROVE  /\ atBank'[s] = None => cursor'[s] = None
               /\ cursor'[s] = Gone => atBank'[s] = Gone
    BY <1>1, <1>2, <1>3 DEF OneLoop
  <2>2. ASSUME sync'[w1].at \in {"ingest", "advance"}
        PROVE  /\ P(w1)'.was = cursor'[P(w1)'.tid] /\ P(w1)'.is # P(w1)'.was
               /\ P(w1)'.was \in Contents \cup {None} /\ P(w1)'.is \in Contents \cup {Gone}
               /\ atBank'[P(w1)'.tid] \notin {None, P(w1)'.was}
               /\ P(w1)'.is = Gone => atBank'[P(w1)'.tid] = Gone
    <3>1. sync[w1].at \in {"ingest", "advance"}
      BY <1>2, <2>2
    <3>2. PICK s \in Tids : s = P(w1).tid
      BY <1>2, <3>1, PageIsRead DEF IngestInv, At
    <3>3. /\ P(w1).was = cursor[s] /\ P(w1).is # P(w1).was
          /\ P(w1).was \in Contents \cup {None} /\ P(w1).is \in Contents \cup {Gone}
          /\ atBank[s] \notin {None, P(w1).was} /\ (P(w1).is = Gone => atBank[s] = Gone)
      BY <1>2, <3>1, <3>2 DEF OneLoop, At
    <3> QED
      BY <1>1, <1>2, <1>3, <1>4, <3>2, <3>3
  <2>3. /\ \A w \in Workers \ {w1} : sync'[w].at = "idle"
        /\ sync'[w1].at # "idle" => sync'[w1].cursor = cursor'
    BY <1>2 DEF OneLoop, At
  <2> QED
    BY <2>1, <2>2, <2>3 DEF OneLoop, At
<1>6. Named' /\ MissedSame
  BY <1>2, MissedStays DEF OneSyncInv, Named, Exists, MissedSame
<1>7. ASSUME NEW s \in Tids PROVE RowOK(s)' /\ SaysSo(s)'
  <2>1. RowOK(s) /\ SaysSo(s) /\ (atBank[s] = Gone => atBank'[s] = Gone)
    BY <1>1, <1>2 DEF OneSyncInv, BooksAsKnown
  <2>2. RowOK(s)'
    BY <1>2, <2>1 DEF RowOK, TakenByAnother
  <2>3. \A c : Matches(s, c)' <=> Matches(s, c)
    BY <1>2 DEF Matches
  <2>4. s # t \/ cursor[s] # atBank'[s]
    BY <1>2, <1>3
  <2> QED
    BY <1>2, <1>6, <2>1, <2>2, <2>3, <2>4 DEF SaysSo, MissedSame, At, P, Matches
<1>8. NoneComesBack'
  <2>1. \A s \in Tids : \A c \in Told : Spent(s, c)' <=> Spent(s, c)
    BY <1>2 DEF Spent, Exists
  <2>2. ASSUME NEW s \in Tids, Spent(s, atBank[s])' PROVE txn'[s].content = atBank'[s]
    <3>1. s # t
      BY <1>2, <1>3, <2>2 DEF Spent, Exists
    <3> QED
      BY <1>2, <2>2, <3>1 DEF OneSyncInv, NoneComesBack, Spent, Exists
  <2>3. ASSUME sync'[w1].at = "ingest"
        PROVE  FreshPage(P(w1))'
    <3>1. PICK s \in Tids : s = P(w1).tid
      BY <1>2, <2>3, PageIsRead DEF IngestInv, At
    <3>2. /\ Spent(s, P(w1).is) => txn[s].content = P(w1).is
          /\ Spent(s, atBank[s]) => atBank[s] = P(w1).is
          /\ P(w1).is \in Contents /\ txn[s] # None => ~txn[s].removed
      BY <1>2, <2>3, <3>1 DEF OneSyncInv, NoneComesBack, FreshPage, At
    <3>3. Spent(s, atBank[s])' => atBank'[s] = P(w1).is
      BY <1>2, <1>3, <3>2 DEF Spent, Exists
    <3>4. Spent(s, P(w1).is)' => txn'[s].content = P(w1).is
      BY <1>2, <1>4, <3>2 DEF Spent, Exists
    <3> QED
      BY <1>2, <1>4, <3>1, <3>2, <3>3, <3>4 DEF FreshPage, Spent
  <2> QED
    BY <2>2, <2>3 DEF NoneComesBack, At
<1> QED
  BY <1>2, <1>5, <1>6, <1>7, <1>8 DEF OneSyncInv, BooksAsKnown

\* What goes on beside the feed.
LEMMA AsideFaithful ==
  ASSUME OneSyncInv, IngestInv', w1 \in Workers, MissedSame, UNCHANGED <<atBank, cursor, sync, txn>>,
         Named', Settled,
         \A s \in Tids : txn[s] # None =>
           entries'[txn[s].entry].undo \in {entries[txn[s].entry].undo, <<"user", None>>},
         \A s \in Tids, d \in Contents :
           Exists(First(VersionKey(s, d)))' => Exists(First(VersionKey(s, d)))
  PROVE  OneSyncInv'
<1>1. OneLoop' /\ BooksInv
  BY DEF OneSyncInv, OneLoop, At, P, IngestInv
<1>2. ASSUME NEW s \in Tids PROVE RowOK(s)' /\ SaysSo(s)'
  <2>1. RowOK(s) /\ SaysSo(s)
    BY DEF OneSyncInv, BooksAsKnown
  <2>2. SaysSo(s)'
    BY <2>1 DEF SaysSo, MissedSame, Matches, At, P
  <2> QED
    BY <1>1, <2>1, <2>2, RowStays
<1>3. NoneComesBack'
  <2>1. ASSUME NEW s \in Tids, Spent(s, atBank[s])' PROVE txn'[s].content = atBank'[s]
    BY <2>1 DEF OneSyncInv, NoneComesBack, Spent
  <2>2. ASSUME At(w1, "ingest") PROVE FreshPage(P(w1))'
    <3>1. PICK s \in Tids : s = P(w1).tid
      BY <2>2, PageIsRead DEF OneSyncInv, IngestInv
    <3>2. P(w1)' = P(w1)
      BY DEF P
    <3> QED
      BY <2>2, <3>1, <3>2 DEF OneSyncInv, NoneComesBack, FreshPage, Spent
  <2>3. At(w1, "ingest")' <=> At(w1, "ingest")
    BY DEF At
  <2> QED
    BY <2>1, <2>2, <2>3 DEF NoneComesBack
<1> QED
  BY <1>1, <1>2, <1>3 DEF OneSyncInv, BooksAsKnown

LEMMA QuietFaithful ==
  ASSUME OneSyncInv, IngestInv', w1 \in Workers, MissedSame,
         UNCHANGED <<atBank, cursor, sync, txn, entries, index>>
  PROVE  OneSyncInv'
<1>1. Named' /\ Settled
  BY DEF OneSyncInv, Named, Exists, Settled
<1> QED
  BY <1>1, AsideFaithful DEF Exists

LEMMA CommitFaithful ==
  ASSUME OneSyncInv, w1 \in Workers, MissedSame, NEW r \in Rows, CommitRow(r)
  PROVE  OneSyncInv'
<1>1. IngestInv' /\ UNCHANGED <<cursor, sync, txn, atBank>> /\ BooksInv /\ Named
  BY OthersKeep DEF OneSyncInv, IngestInv, CommitRow, feed
<1> DEFINE c == RowContent[r]
           a == RowKey(c)
           k == First(a)
<1>2. c \in Contents
  BY IngestAssumption
<1>3. a \in Keys /\ k \in Ids /\ k[1] = a /\ a[1] = None /\ a[2] = c
  BY <1>2, RowKeys, FirstIsId
<1> HIDE DEF a
<1>4. /\ Settled /\ Named' /\ \A j \in Ids : Exists(j)' => Exists(j) \/ j = k
      /\ \A j \in Ids : Exists(j) => entries'[j] = entries[j]
  <2>1. CASE UNCHANGED <<entries, index>>
    BY <1>1, <2>1 DEF Settled, Named, Exists
  <2>2. CASE /\ c \notin Blank /\ ~Exists(k) /\ entries' = WithPost(entries, a, c)
             /\ index' = index \cup {Indexed(c, k)}
    <3> HIDE DEF c
    <3>1. /\ \A j \in Ids : j # k => entries'[j] = entries[j]
          /\ entries'[k] = [content |-> c, undo |-> None]
      BY <1>1, <1>2, <1>3, <2>2, WithPostEntries DEF BooksInv, BooksOK, EntriesType
    <3> HIDE DEF k
    <3>2. /\ Settled /\ \A j \in Ids : Exists(j)' => Exists(j) \/ j = k
          /\ \A j \in Ids : Exists(j) => entries'[j] = entries[j]
      BY <2>2, <3>1 DEF Settled, Exists
    <3>3. Named'
      BY <1>1, <1>2, <1>3, <2>2, <3>1, <3>2, NamesKeep
    <3> QED
      BY <3>2, <3>3
  <2> QED
    BY <2>1, <2>2 DEF CommitRow, a
<1> HIDE DEF c, k
<1>5. \A s \in Tids : txn[s] # None => entries'[txn[s].entry].undo = entries[txn[s].entry].undo
  BY <1>1, <1>4, TxnRow
<1>6. \A s \in Tids : \A d \in Contents : Exists(First(VersionKey(s, d)))' => Exists(First(VersionKey(s, d)))
  <2> SUFFICES ASSUME NEW s \in Tids, NEW d \in Contents, Exists(First(VersionKey(s, d)))'
               PROVE  Exists(First(VersionKey(s, d)))
    OBVIOUS
  <2>1. First(VersionKey(s, d)) \in Ids /\ First(VersionKey(s, d))[1][1] = s /\ s # None
    BY KeysOfTxn, FirstIsId
  <2> QED
    BY <1>3, <1>4, <2>1
<1> QED
  BY <1>1, <1>4, <1>5, <1>6, AsideFaithful

\* A user reverses or reposts an entry: it is no longer the feed's to change.
LEMMA UserFaithful ==
  ASSUME OneSyncInv, w1 \in Workers, MissedSame, NEW i \in Ids, Reverse(i) \/ Recategorize(i)
  PROVE  OneSyncInv'
<1>1. IngestInv' /\ UNCHANGED <<cursor, sync, txn, atBank>> /\ BooksInv /\ Named
  BY OthersKeep DEF OneSyncInv, IngestInv, Reverse, Recategorize, UserUndoes, feed
<1> DEFINE j   == <<i[1], i[2] + 1>>
           mid == Undone(entries, i, <<"user", None>>)
<1>2. /\ Exists(i) /\ entries[i].undo = None /\ index' = Pruned(i)
      /\ \/ entries' = mid
         \/ entries' = [mid EXCEPT ![j] = [content |-> entries[i].content, undo |-> None]]
  BY DEF Reverse, Recategorize, UserUndoes, Live
<1>3. /\ mid \in EntriesType /\ \A x \in Ids : x # i => mid[x] = entries[x]
      /\ mid[i] = [content |-> entries[i].content, undo |-> <<"user", None>>]
  <2>1. entries \in EntriesType /\ <<"user", None>> \in Undoers
    BY <1>1, UndoersAreSome DEF BooksInv, BooksOK, EntriesType
  <2> QED
    BY <2>1, UndoneEntries
<1>4. i[1] = j[1] /\ j[2] = i[2] + 1 /\ i[2] \in Nat /\ j # i
  BY IdParts
<1>5. j \in Ids => ~Exists(j)
  BY <1>1, <1>2, <1>4, UndoersAreSome DEF BooksInv, RepostsFollow
<1> HIDE DEF mid, j
<1>6. /\ \A x \in Ids : x # i /\ x # j => entries'[x] = entries[x]
      /\ entries'[i] = [content |-> entries[i].content, undo |-> <<"user", None>>]
      /\ j \in Ids => entries'[j].content \in {None, entries[i].content}
  <2>1. j \in Ids => entries[j].content = None
    BY <1>5 DEF Exists
  <2>2. CASE entries' = mid
    BY <1>3, <1>4, <2>1, <2>2
  <2>3. CASE entries' = [mid EXCEPT ![j] = [content |-> entries[i].content, undo |-> None]]
    BY <1>3, <1>4, <2>3 DEF EntriesType
  <2> QED
    BY <1>2, <2>2, <2>3
<1>7. Settled
  BY <1>2, <1>5, <1>6 DEF Settled, Exists
<1>8. ASSUME NEW x \in Ids, Exists(x)' PROVE Exists(x) \/ (x = j /\ entries'[x].content = entries[i].content)
  BY <1>2, <1>6, <1>8 DEF Exists
<1>9. Named'
  <2>1. ASSUME NEW x \in Ids, Exists(x)'
        PROVE  /\ entries'[x].content \notin Blank
               /\ x[1][2] # None => entries'[x].content = x[1][2]
    BY <1>1, <1>2, <1>4, <1>7, <1>8, <2>1 DEF Settled, Named
  <2>2. ASSUME NEW x \in index'
        PROVE  x.source = Source(x.entry) /\ x.content = entries'[x.entry].content
    BY <1>1, <1>2, <1>7, <2>2 DEF Pruned, Named, Settled, BooksInv, BooksOK
  <2> QED
    BY <2>1, <2>2 DEF Named
<1>10. ASSUME NEW s \in Tids, txn[s] # None
       PROVE  entries'[txn[s].entry].undo \in {entries[txn[s].entry].undo, <<"user", None>>}
  <2>1. txn[s].entry \in Ids /\ txn[s].entry # j
    BY <1>1, <1>5, <1>10, TxnRow
  <2> QED
    BY <1>6, <2>1
<1>11. ASSUME NEW s \in Tids, NEW d \in Contents, Exists(First(VersionKey(s, d)))'
       PROVE  Exists(First(VersionKey(s, d)))
  <2>1. First(VersionKey(s, d)) \in Ids /\ First(VersionKey(s, d))[2] = 0
    BY KeysOfTxn, FirstIsId
  <2> QED
    BY <1>4, <1>8, <1>11, <2>1
<1> QED
  BY <1>1, <1>7, <1>9, <1>10, <1>11, AsideFaithful

LEMMA FaithfulInductive ==
  ASSUME w1 \in Workers
  PROVE  OneSyncInv /\ Next /\ OneSync /\ Noted => OneSyncInv'
<1> SUFFICES ASSUME OneSyncInv, Next, OneSync, Noted PROVE OneSyncInv'
  OBVIOUS
<1>1. IngestInv' /\ IngestInv /\ OneLoop /\ LoopOK
  BY IngestInductive DEF OneSyncInv, IngestInv
<1>2. ASSUME UNCHANGED sync PROVE MissedSame
  BY <1>1, <1>2, MissedStays DEF MissedSame
<1>3. CASE \E w \in Workers : Waits(w) \/ SyncStep(w)
  <2>1. PICK w \in Workers : Waits(w) \/ SyncStep(w)
    BY <1>3
  <2>2. CASE w = w1
    BY <2>1, <2>2, LoopFaithful, SkipIsFaithful, DupFaithful, NewFaithful, SameFaithful, ChangedFaithful,
       RemovedFaithful DEF SyncStep, Waits
  <2>3. CASE w # w1
    <3>1. Webhook(w) /\ UNCHANGED sync
      BY <1>1, <2>1, <2>3, OneAtWork DEF Waits, SyncStep
    <3> QED
      BY <1>1, <1>2, <3>1, QuietFaithful DEF Webhook, bank, books
  <2> QED
    BY <2>2, <2>3
<1>4. ASSUME NEW t \in Tids, BankAdds(t) \/ BankChanges(t) \/ BankDrops(t) PROVE OneSyncInv'
  BY <1>4, BankFaithful DEF OneSync
<1>5. ASSUME NEW r \in Rows, CommitRow(r) PROVE OneSyncInv'
  BY <1>2, <1>5, CommitFaithful DEF CommitRow
<1>6. ASSUME NEW i \in Ids, Reverse(i) \/ Recategorize(i) PROVE OneSyncInv'
  BY <1>2, <1>6, UserFaithful DEF Reverse, Recategorize, UserUndoes
<1>7. ASSUME NEW m \in Months, Close(m) \/ Reopen(m) PROVE OneSyncInv'
  BY <1>1, <1>2, <1>7, QuietFaithful DEF Close, Reopen, feed
<1> QED
  BY <1>3, <1>4, <1>5, <1>6, <1>7 DEF Next, Waits

LEMMA FaithfulInitially == ASSUME w1 \in Workers PROVE Init => OneSyncInv
<1> SUFFICES ASSUME Init PROVE OneSyncInv
  OBVIOUS
<1>1. IngestInv
  BY IngestInitially
<1>2. \A w \in Workers : sync[w].at = "idle"
  BY RestingIsLoop DEF Init
<1>3. /\ \A t \in Tids : atBank[t] = None /\ cursor[t] = None /\ txn[t] = None
      /\ \A i \in Ids : entries[i].content = None
      /\ index = {} /\ Gone # None
  BY IngestAssumption DEF Init, NoEntry
<1>4. \A i \in Ids : ~Exists(i)
  BY <1>3 DEF Exists
<1>5. OneLoop
  BY <1>2, <1>3 DEF OneLoop, At
<1>6. Named
  BY <1>3, <1>4 DEF Named
<1>7. BooksAsKnown
  BY <1>2, <1>3, NoneAssumption DEF BooksAsKnown, RowOK, SaysSo, Matches, At
<1>8. NoneComesBack
  BY <1>2, <1>3, NoneAssumption DEF NoneComesBack, Spent, At
<1> QED
  BY <1>1, <1>5, <1>6, <1>7, <1>8 DEF OneSyncInv

\* What counts of a transaction is the entry it is bound to.
LEMMA CountedIsBound ==
  ASSUME BooksInv, NEW t \in Tids
  PROVE  /\ txn[t] = None => Counted(t) = {}
         /\ txn[t] # None /\ entries[txn[t].entry].undo = None => Counted(t) = {txn[t].entry}
         /\ txn[t] # None /\ entries[txn[t].entry].undo \notin {None, <<"user", None>>} => Counted(t) = {}
<1>1. CASE txn[t] = None
  BY <1>1 DEF Counted, Live, BooksInv, NoneUnbound
<1>2. CASE txn[t] # None
  <2>1. PICK e \in Ids : e = txn[t].entry /\ e[2] = 0 /\ Exists(e)
    BY <1>2, TxnRow
  <2>2. \A i \in Ids : i \in Counted(t) <=> Live(i) /\ i[1] = e[1]
    BY <1>2, <2>1 DEF Counted, BooksInv, BoundToOwn
  <2>3. CASE entries[e].undo # <<"user", None>>
    <3>1. \A i \in Ids : i[1] = e[1] /\ Exists(i) => i = e
      BY <2>1, <2>3, FeedUndoesAll
    <3>2. \A i \in Ids : i \in Counted(t) <=> Live(e) /\ i = e
      BY <2>2, <3>1 DEF Live
    <3>3. Counted(t) \subseteq Ids
      BY DEF Counted
    <3>4. Live(e) <=> entries[e].undo = None
      BY <2>1 DEF Live
    <3> QED
      BY <1>2, <2>1, <3>2, <3>3, <3>4
  <2> QED
    BY <1>2, <2>1, <2>3, UndoersAreSome
<1> QED
  BY <1>1, <1>2

\* At rest and caught up, the books have what they were told.
LEMMA KnownIsCounted ==
  ASSUME OneSyncInv, w1 \in Workers, At(w1, "idle"), NEW t \in Tids \ missed, cursor[t] = atBank[t]
  PROVE  TakenByAnother(t) \/ Corrected(t)
           \/ {entries[i].content : i \in Counted(t)} = {atBank[t]} \cap (Contents \ Blank)
<1>1. Matches(t, atBank[t]) /\ RowOK(t) /\ BooksInv /\ MarkedReversed
  BY DEF SaysSo, At, OneSyncInv, BooksAsKnown, IngestInv, BooksInv
<1>2. atBank[t] \in Contents \cup {None, Gone}
  BY DEF OneSyncInv, IngestInv, LoopOK, Told
<1>3. CASE txn[t] = None
  <2>1. Counted(t) = {}
    BY <1>1, <1>3, CountedIsBound
  <2>2. atBank[t] \notin Contents \ Blank
    BY <1>1, <1>3 DEF Matches
  <2> QED
    BY <2>1, <2>2
<1>4. CASE txn[t] # None /\ txn[t].removed
  <2>1. entries[txn[t].entry].undo = <<"rm", t>> /\ atBank[t] = Gone
    BY <1>1, <1>4 DEF RowOK, MarkedReversed
  <2>2. <<"rm", t>> # <<"user", None>> /\ <<"rm", t>> # None
    BY UndoersAreSome
  <2>3. Counted(t) = {}
    BY <1>1, <1>4, <2>1, <2>2, CountedIsBound
  <2> QED
    BY <2>1, <2>3, IngestAssumption
<1>5. CASE txn[t] # None /\ ~txn[t].removed
  <2>1. atBank[t] \in Contents /\ txn[t].content = atBank[t]
    BY <1>1, <1>2, <1>5 DEF Matches
  <2>2. SUFFICES ASSUME ~TakenByAnother(t), ~Corrected(t)
                 PROVE  {entries[i].content : i \in Counted(t)} = {atBank[t]} \cap (Contents \ Blank)
    OBVIOUS
  <2>3. entries[txn[t].entry].undo = None /\ entries[txn[t].entry].content = atBank[t]
    BY <1>1, <1>5, <2>1, <2>2 DEF RowOK, Corrected
  <2>4. Counted(t) = {txn[t].entry}
    BY <1>1, <1>5, <2>3, CountedIsBound
  <2>5. atBank[t] \notin Blank
    BY <1>1, <1>5, <2>3, TxnRow DEF OneSyncInv, Named
  <2> QED
    BY <2>1, <2>3, <2>4, <2>5
<1> QED
  BY <1>3, <1>4, <1>5

\* Two transactions share an entry only if it is a statement row's.
LEMMA SharedIsARows ==
  ASSUME OneSyncInv, NEW t \in Tids, NEW u \in Tids \ {t}, NEW i \in Counted(t) \cap Counted(u)
  PROVE  Source(i) = "csv"
<1>1. BooksInv /\ RowOK(t) /\ RowOK(u) /\ i \in Ids
  BY DEF OneSyncInv, IngestInv, BooksAsKnown, Counted
<1>2. i[1][1] \in {t, None} /\ i[1][1] \in {u, None}
  BY <1>1 DEF Counted, RowOK
<1> QED
  BY <1>2 DEF Source

\* One sync at a time brings the books to what the bank says: for any number of
\* transactions, contents, statement rows, months, changes by the bank and edits by
\* users, though syncs die or are refused between any two calls, months close and the
\* bank goes on while a page is on its way.  Excepted are the transactions FeedFaithful
\* names, and a bank that goes back to a version it has told before.
THEOREM OneSyncBringsTheBooks ==
  ASSUME w1 \in Workers
  PROVE  FeedSpec => []OneSyncIsFaithful
<1> DEFINE SceneInv == scene = "one sync" => OneSyncInv
<1>1. FeedInit => SceneInv
  BY FaithfulInitially DEF FeedInit
<1>2. SceneInv /\ [FeedNext]_feedVars => SceneInv'
  <2>1. ASSUME OneSyncInv, UNCHANGED feedVars PROVE OneSyncInv'
    <3>1. UNCHANGED vars /\ MissedSame /\ IngestInv'
      BY <2>1, IngestInductive DEF feedVars, MissedSame, OneSyncInv
    <3> QED
      BY <2>1, <3>1, QuietFaithful DEF vars
  <2> QED
    BY <2>1, FaithfulInductive DEF FeedNext, feedVars
<1>3. SceneInv => OneSyncIsFaithful
  <2> SUFFICES ASSUME OneSyncInv, CaughtUp, Quiet PROVE FeedFaithful
    BY DEF OneSyncIsFaithful, FeedFaithful
  <2>1. At(w1, "idle") /\ \A t \in Tids : cursor[t] = atBank[t]
    BY DEF Quiet, CaughtUp, News
  <2> QED
    BY <2>1, KnownIsCounted, SharedIsARows DEF FeedFaithful
<1> QED
  BY <1>1, <1>2, <1>3, PTL DEF FeedSpec

-----------------------------------------------------------------------------
(* No change of the bank is forgotten *)

LEMMA NewsInductive ==
  ASSUME w1 \in Workers, OneSyncInv, NewsInv, Next, OneSync, Noted
  PROVE  NewsInv'
<1>1. IngestInv /\ LoopOK /\ OneLoop
  BY DEF OneSyncInv, IngestInv
<1>2. ASSUME UNCHANGED <<atBank, cursor, sync, status>>, due => due' \/ status = "error"
      PROVE  NewsInv'
  <2>1. cut => cut'
    BY <1>1, <1>2 DEF Noted, At
  <2>2. /\ CaughtUp' <=> CaughtUp
        /\ News(Told1)' = News(Told1) /\ P(w1)' = P(w1)
        /\ (At(w1, "idle")' <=> At(w1, "idle")) /\ (At(w1, "last")' <=> At(w1, "last"))
        /\ (At(w1, "ingest")' <=> At(w1, "ingest")) /\ (At(w1, "advance")' <=> At(w1, "advance"))
    BY <1>2 DEF CaughtUp, News, Told1, P, At
  <2>3. At(w1, "idle") => CaughtUp' \/ due' \/ cut' \/ status' = "error"
    BY <1>2, <2>1, <2>2 DEF NewsInv
  <2>4. ~At(w1, "idle") => status = "active" /\ (due => due')
    BY <1>2 DEF NewsInv
  <2>5. At(w1, "ingest") \/ At(w1, "advance") => P(w1)'.more \/ due' \/ News(Told1)' = {}
    BY <2>2, <2>4 DEF NewsInv, At
  <2>6. At(w1, "last") => CaughtUp' \/ due'
    BY <2>2, <2>4 DEF NewsInv, At
  <2> QED
    BY <1>2, <2>2, <2>3, <2>4, <2>5, <2>6 DEF NewsInv
<1>3. ASSUME NEW t \in Tids, BankAdds(t) \/ BankChanges(t) \/ BankDrops(t)
      PROVE  NewsInv'
  BY <1>3 DEF BankAdds, BankChanges, BankDrops, BankSays, NewsInv, At
<1>4. CASE Webhook(w1) \/ SyncNow(w1) \/ Relink(w1)
  <2>1. CASE sync'[w1].at = "fetch"
    <3>1. status' = "active"
      BY <1>1, <1>4, <2>1 DEF Webhook, SyncNow, Relink, At, feed
    <3> QED
      BY <2>1, <3>1 DEF NewsInv, At
  <2>2. CASE sync'[w1].at # "fetch"
    <3>1. Webhook(w1) /\ UNCHANGED sync /\ status = "error"
      BY <1>1, <1>4, <2>2 DEF Webhook, SyncNow, Relink, Begins, LoopOK
    <3> QED
      BY <1>2, <3>1 DEF Webhook, bank
  <2> QED
    BY <2>1, <2>2
<1>5. CASE Refuse(w1) \/ Crash(w1)
  <2>1. cut' /\ sync'[w1].at = "idle"
    BY <1>1, <1>5, EndKeeps, RestingIsLoop DEF Noted, LoopOK
  <2> QED
    BY <2>1 DEF NewsInv, At
<1>6. CASE AdvanceLast(w1)
  <2>1. /\ sync'[w1].at = "idle" /\ sync[w1].at = "last" /\ sync[w1].cursor = cursor
        /\ UNCHANGED <<atBank, due, status>> /\ cursor' = cursor
    BY <1>1, <1>6, EndKeeps, RestingIsLoop DEF AdvanceLast, At, OneLoop, LoopOK, feed
  <2> QED
    BY <2>1 DEF NewsInv, At, CaughtUp, News
<1>7. CASE Fetch(w1)
  <2>1. /\ UNCHANGED <<atBank, due, status, cursor>> /\ sync[w1].cursor = cursor /\ sync[w1].at = "fetch"
        /\ \/ sync'[w1].at = "last" /\ News(cursor) = {}
           \/ /\ sync'[w1].at = "ingest"
              /\ \E t \in News(cursor) : sync'[w1].page = Fetched(w1, t)
    BY <1>1, <1>7, FetchMoves DEF OneLoop, At
  <2>2. CASE sync'[w1].at = "last" /\ News(cursor) = {}
    BY <2>1, <2>2 DEF NewsInv, At, CaughtUp, News
  <2>3. CASE sync'[w1].at = "ingest" /\ \E t \in News(cursor) : sync'[w1].page = Fetched(w1, t)
    <3>1. PICK t \in News(cursor) : P(w1)' = Fetched(w1, t)
      BY <2>3 DEF P
    <3>2. t \in Tids /\ P(w1)'.tid = t /\ P(w1)'.is = atBank[t] /\ P(w1)'.more = (News(cursor) # {t})
      BY <2>1, <3>1 DEF Fetched, News
    <3>3. Told1' = [cursor EXCEPT ![t] = atBank[t]]
      BY <2>1, <3>2 DEF Told1
    <3>4. News(cursor) = {t} => News(Told1)' = {}
      BY <1>1, <2>1, <3>2, <3>3 DEF News, LoopOK
    <3> QED
      BY <2>1, <2>3, <3>2, <3>4 DEF NewsInv, At
  <2> QED
    BY <2>1, <2>2, <2>3
<1>8. CASE Advance(w1)
  <2>1. /\ sync[w1].at = "advance" /\ sync[w1].cursor = cursor /\ UNCHANGED <<atBank, due, status>>
        /\ cursor' = Told1 /\ sync'[w1].at \in {"fetch", "idle"}
        /\ P(w1).more => sync'[w1].at = "fetch"
    BY <1>1, <1>8, AdvanceKeeps, RestingIsLoop DEF Advance, At, OneLoop, Told1
  <2>2. ~P(w1).more => due' \/ CaughtUp'
    BY <2>1 DEF NewsInv, At, CaughtUp, News
  <2> QED
    BY <2>1, <2>2 DEF NewsInv, At
<1>9. CASE Skip(w1) \/ IngestDup(w1) \/ IngestNew(w1) \/ IngestSame(w1) \/ IngestChanged(w1) \/ IngestRemoved(w1)
  <2>1. At(w1, "ingest") /\ Goto(w1, "advance") /\ UNCHANGED <<atBank, due, status, cursor>>
    BY <1>9 DEF Skip, IngestDup, IngestNew, IngestSame, IngestChanged, IngestRemoved, Ingesting,
                OtherBooks, feed
  <2>2. sync'[w1] = [sync[w1] EXCEPT !.at = "advance"] /\ sync[w1] \in Loop
    BY <1>1, <2>1, GotoMoves DEF LoopOK, Loop
  <2>3. sync'[w1].at = "advance" /\ P(w1)' = P(w1)
    BY <2>2 DEF Loop, P
  <2> QED
    BY <2>1, <2>3 DEF NewsInv, At, News, Told1
<1>10. ASSUME NEW w \in Workers \ {w1}, Waits(w) \/ SyncStep(w) PROVE NewsInv'
  <2>1. Webhook(w) /\ UNCHANGED sync /\ status = "error"
    BY <1>1, <1>10, OneAtWork DEF Waits, SyncStep, LoopOK
  <2> QED
    BY <1>2, <2>1 DEF Webhook, bank
<1>11. ASSUME \/ \E r \in Rows : CommitRow(r)
              \/ \E i \in Ids : Reverse(i) \/ Recategorize(i)
              \/ \E m \in Months : Close(m) \/ Reopen(m)
       PROVE  NewsInv'
  BY <1>2, <1>11 DEF CommitRow, Reverse, Recategorize, UserUndoes, Close, Reopen, feed
<1>12. CASE \E w \in Workers : Waits(w) \/ SyncStep(w)
  BY <1>4, <1>5, <1>6, <1>7, <1>8, <1>9, <1>10, <1>12 DEF SyncStep, Waits
<1> QED
  BY <1>3, <1>11, <1>12 DEF Next, Waits

\* The stored cursor passes nothing that is not in the books, and where syncs do not
\* overlap no change of the bank is forgotten, for any number of transactions and however the bank goes on between the last page and the cursor:
\* what the feed has not told yet a webhook will, unless the last sync was cut short
\* or the connection is in error.
THEOREM NewsIsNotForgotten ==
  ASSUME w1 \in Workers
  PROVE  FeedSpec => []NoneForgotten
<1> DEFINE SceneInv == scene = "one sync" => OneSyncInv /\ NewsInv
<1>1. FeedInit => SceneInv
  <2>1. Init => NewsInv
    BY RestingIsLoop DEF Init, NewsInv, CaughtUp, News, At
  <2> QED
    BY <2>1, FaithfulInitially DEF FeedInit
<1>2. SceneInv /\ [FeedNext]_feedVars => SceneInv'
  <2>1. ASSUME OneSyncInv, NewsInv, UNCHANGED feedVars PROVE OneSyncInv' /\ NewsInv'
    <3>1. UNCHANGED vars /\ MissedSame /\ IngestInv' /\ UNCHANGED cut
      BY <2>1, IngestInductive DEF feedVars, MissedSame, OneSyncInv
    <3>2. NewsInv'
      BY <2>1, <3>1 DEF vars, NewsInv, CaughtUp, News, Told1, At, P
    <3> QED
      BY <2>1, <3>1, <3>2, QuietFaithful DEF vars
  <2> QED
    BY <2>1, FaithfulInductive, NewsInductive DEF FeedNext, feedVars
<1>3. SceneInv => NewsIsDue
  BY DEF NewsIsDue, NewsInv, Quiet
<1>4. FeedInit => Init
  BY DEF FeedInit
<1>5. [FeedNext]_feedVars => [Next]_vars
  BY DEF FeedNext, feedVars
<1>6. CursorNeverAhead /\ NewsIsDue => NoneForgotten
  BY DEF NoneForgotten
<1> QED
  BY <1>1, <1>2, <1>3, <1>4, <1>5, <1>6, NothingIsPassedOver, PTL DEF Spec, FeedSpec
=============================================================================
