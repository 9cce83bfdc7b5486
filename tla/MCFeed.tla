------------------------------- MODULE MCFeed -------------------------------
(* The bank feed in two scenes: one sync at a time of several transactions,    *)
(* while a month closes and an amount is zero, and competing syncs of one      *)
(* transaction without either, where a sync that dies stands for a refused one.*)
EXTENDS MCIngest

CONSTANTS w1,  \* the one sync of the first scene
          t1   \* the one transaction of the second

VARIABLES scene,
          missed,  \* transactions whose addition was told twice, the second time changed
          cut      \* the last sync died or was refused

feedVars == <<vars, scene, missed, cut>>

\* The page of w, of transaction t, gets into the books in this step.
Ingests(w, t) == At(w, "ingest") /\ At(w, "advance")' /\ P(w).tid = t

\* An addition is skipped for a transaction that has a row, whatever it says.
ToldAnew(w) ==
  LET p == P(w)
  IN  Added(p) /\ txn[p.tid] # None /\ (txn[p.tid].removed \/ txn[p.tid].content # p.is)

Noted ==
  /\ missed' = {t \in Tids : IF \E w \in Workers : Ingests(w, t)
                             THEN \E w \in Workers : Ingests(w, t) /\ ToldAnew(w)
                             ELSE t \in missed}
  /\ cut' = \/ \E w \in Workers : Refuse(w) \/ Crash(w)
            \/ cut /\ \A w \in Workers : ~(At(w, "idle") /\ At(w, "fetch")')

\* The bank does not go back: the key of a version is spent once, and a transaction
\* that is again as it was when it was last told would be no news.
NoReturn == \A t \in Tids :
  atBank'[t] \notin {atBank[t], Gone} =>
    atBank'[t] # cursor[t] /\ ~Exists(First(VersionKey(t, atBank'[t])))

OneSync ==
  /\ NoReturn
  /\ \A w \in Workers \ {w1} : sync'[w] = sync[w]

\* Every sync answers a webhook, which is delivered again and again.
Competing ==
  /\ closed' = {} /\ UNCHANGED <<missed, cut>>
  /\ atBank'[t1] # zero /\ \A t \in Tids \ {t1} : atBank'[t] = None
  /\ due' = (changes' > 0) /\ \A w \in Workers : At(w, "fetch")' => sync'[w].by = "plaid"

\* A correction takes the place of the bank's last change.
FeedNext ==
  /\ UNCHANGED scene /\ Next
  /\ edits' = 0 \/ changes' < MaxChanges
  /\ IF scene = "one sync" THEN OneSync /\ Noted ELSE Competing

FeedInit == Init /\ scene \in {"one sync", "competing"} /\ missed = {} /\ cut = FALSE

FeedSpec == FeedInit /\ [][FeedNext]_feedVars

Quiet == \A w \in Workers : At(w, "idle")

\* When no sync is running and the feed has nothing left to tell, the books hold
\* each of the bank's transactions as the bank now states it, and two share an entry
\* only if it is that of a statement row (which OwnEntries would rule out, too).
\* Excepted is a transaction whose addition was told twice and had changed, one whose
\* entry was taken back by another that was recognised in the same row, and one a
\* user has corrected.
FeedFaithful ==
  (CaughtUp /\ Quiet) =>
    /\ \A t \in Tids \ missed :
         \/ TakenByAnother(t) \/ Corrected(t)
         \/ {entries[i].content : i \in Counted(t)} = {atBank[t]} \cap (Contents \ Blank)
    /\ \A t, u \in Tids : t # u =>
         \A i \in Counted(t) \cap Counted(u) : Source(i) = "csv"

OneSyncIsFaithful == scene = "one sync" => FeedFaithful

\* Once syncs no longer overlap, the feed has news only while a webhook is on its
\* way or a sync is running, or where the last sync was cut short or the connection
\* is in error: no change is forgotten between the last page and the cursor.
NewsIsDue ==
  scene = "one sync" => (CaughtUp \/ due \/ ~Quiet \/ cut \/ status = "error")

\* No change of the bank is lost: none is passed over by the stored cursor, in either
\* scene, and none comes too late for the last page with nobody to ask for it.
NoneForgotten == CursorNeverAhead /\ NewsIsDue

\* Of an added transaction and a statement row of one content only one posts, where
\* no amount is zero.
CompetingPostsDeduplicated == scene = "competing" => FirstPostsDeduplicated
=============================================================================
