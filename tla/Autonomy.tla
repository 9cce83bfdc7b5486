------------------------------ MODULE Autonomy ------------------------------
(***************************************************************************)
(* Penny files a transaction that sits on the holding account by herself,  *)
(* queues it, or asks the owner within a weekly budget.  Triage is two     *)
(* RPCs of one request, each its own transaction, and runs for many        *)
(* entries, and for one entry from several tabs, at once.                  *)
(***************************************************************************)
EXTENDS Integers, Sequences, FiniteSets

CONSTANTS Entries,          \* transactions on the holding account
          Accounts, Income, \* the accounts to file under; those of type income
          Triages,          \* triage requests in flight
          Budget,           \* asks_per_week
          Weeks,
          ConfidenceHigh, ConfidenceMedium,  \* the cutoffs of platform_config
          Confidences, NoAccount

\* What the constants have to be: the modules that use this one assume it.
AutonomyAssumption ==
  /\ Entries # {} /\ "free" \notin Triages
  /\ Income \subseteq Accounts /\ NoAccount \notin Accounts
  /\ Budget \in Nat /\ Weeks \in Nat \ {0}
  /\ ConfidenceHigh \in Int /\ ConfidenceMedium \in Int /\ Confidences \subseteq Int

VARIABLES original,  \* the journal entry on the holding account
          reposts,   \* its corrected copies, by idempotency key
          feed,      \* penny_activity: how many rows a repost has, and whether it is undone
          asks,      \* ai_decisions rows of an interruption: the entry and the week
          week, askLock, triages

autonomyVars == <<original, reposts, feed, asks, week, askLock, triages>>

Sources  == {"rule", "vendor_prior", "penny"}
Keys     == {"autopost", "categorize"} \X Accounts
Free     == "free"
NoTriage == [stage |-> "idle", entry |-> CHOOSE e \in Entries : TRUE,
             account |-> NoAccount, since |-> 1, spent |-> 0]

AutonomyTypeOK ==
  /\ original \in [Entries -> {"posted", "reversed"}]
  /\ reposts \in [Entries -> [Keys -> {"absent", "posted", "reversed"}]]
  /\ feed \in [Entries -> [Accounts -> [rows : Nat, undone : BOOLEAN]]]
  /\ asks \in Seq([entry : Entries, week : 1..Weeks])
  /\ week \in 1..Weeks
  /\ askLock \in Triages \cup {Free}
  /\ triages \in [Triages -> [stage : {"idle", "high", "low", "counting"}, entry : Entries,
                              account : Accounts \cup {NoAccount}, since : 1..Weeks, spent : Nat]]

AutonomyInit ==
  /\ original = [e \in Entries |-> "posted"]
  /\ reposts = [e \in Entries |-> [k \in Keys |-> "absent"]]
  /\ feed = [e \in Entries |-> [a \in Accounts |-> [rows |-> 0, undone |-> FALSE]]]
  /\ asks = << >>
  /\ week = 1 /\ askLock = Free
  /\ triages = [t \in Triages |-> NoTriage]

-----------------------------------------------------------------------------
(* Filing *)

tierFor(confidence, source) ==
  CASE source \in {"rule", "vendor_prior"} -> "high"
    [] OTHER -> IF confidence >= ConfidenceHigh THEN "high"
                ELSE IF confidence >= ConfidenceMedium THEN "medium" ELSE "low"

\* Wrong: two approvals that read the original before either committed.
RefilesUnlocked(e, k) == reposts[e][k] = "absent"

\* recategorize_entry replays its key, or takes the posted original's lock,
\* reverses it and posts the copy.
Refiles(e, k) ==
  reposts[e][k] = "absent" /\ original[e] = "posted"

Refile(e, k) ==
  IF Refiles(e, k)
  THEN /\ original' = [original EXCEPT ![e] = "reversed"]
       /\ reposts' = [reposts EXCEPT ![e][k] = "posted"]
  ELSE reposts[e][k] # "absent" /\ UNCHANGED <<original, reposts>>

\* propose: the holding line is still there to read once its entry is reversed.
Triage(t, e) ==
  /\ triages[t].stage = "idle"
  /\ \E a \in Accounts, s \in Sources, c \in Confidences :
       LET tier  == tierFor(c, s)
           asked == tier = "low" /\ a \notin Income
       IN  triages' = [triages EXCEPT ![t] =
             IF tier = "high" \/ asked
             THEN [NoTriage EXCEPT !.stage = tier, !.entry = e, !.account = a, !.since = week]
             ELSE NoTriage]
  /\ UNCHANGED <<original, reposts, feed, asks, week, askLock>>

\* Nothing grounded to propose: the owner is asked.
TriageUnknown(t, e) ==
  /\ triages[t].stage = "idle"
  /\ triages' = [triages EXCEPT ![t] =
       [NoTriage EXCEPT !.stage = "low", !.entry = e, !.since = week]]
  /\ UNCHANGED <<original, reposts, feed, asks, week, askLock>>

\* The first row of the feed for a repost; a replay finds it.
FeedRow(e, a) == [feed EXCEPT ![e][a].rows = IF @ = 0 THEN 1 ELSE @]

\* autopost_categorization, whose answer may be lost; an error, or a lost
\* answer, falls back to a question.
Autopost(t) ==
  LET e == triages[t].entry
      a == triages[t].account
      Answer(ok) == triages' = [triages EXCEPT ![t] =
        IF ok \/ a \in Income THEN NoTriage ELSE [@ EXCEPT !.stage = "low", !.since = week]]
  IN  /\ triages[t].stage = "high"
      /\ \/ /\ Refile(e, <<"autopost", a>>) /\ feed' = FeedRow(e, a)
            /\ \E answered \in BOOLEAN : Answer(answered)
         \/ /\ Answer(FALSE) /\ UNCHANGED <<original, reposts, feed>>
      /\ UNCHANGED <<asks, week, askLock>>

\* The owner approves an account: his key is not Penny's.
ApproveCategory(e, a) ==
  /\ Refile(e, <<"categorize", a>>)
  /\ UNCHANGED <<feed, asks, week, askLock, triages>>

\* undo_penny_activity: the repost is reversed; what it had replaced stays reversed.
UndoActivity(e, a) ==
  /\ feed[e][a].rows > 0 /\ ~feed[e][a].undone
  /\ reposts[e][<<"autopost", a>>] = "posted"
  /\ reposts' = [reposts EXCEPT ![e][<<"autopost", a>>] = "reversed"]
  /\ feed' = [feed EXCEPT ![e][a].undone = TRUE]
  /\ UNCHANGED <<original, asks, week, askLock, triages>>

-----------------------------------------------------------------------------
(* Asking *)

\* Rows of a week or later.
AsksSince(w) == Cardinality({i \in DOMAIN asks : asks[i].week >= w})

\* Wrong: the count is read without the lock.
CountAsksUnlocked(t) ==
  /\ triages[t].stage = "low"
  /\ triages' = [triages EXCEPT ![t].stage = "counting", ![t].spent = AsksSince(triages[t].since)]
  /\ UNCHANGED <<original, reposts, feed, asks, week, askLock>>

\* The advisory lock of the organisation, then the count.
CountAsks(t) ==
  /\ triages[t].stage = "low" /\ askLock = Free
  /\ askLock' = t
  /\ triages' = [triages EXCEPT ![t].stage = "counting", ![t].spent = AsksSince(triages[t].since)]
  /\ UNCHANGED <<original, reposts, feed, asks, week>>

\* A repeat of the week is free; one over the budget goes to the digest.  The
\* row carries the time its transaction began.
RecordAsk(t) ==
  LET e == triages[t].entry
      w == triages[t].since
      repeat == \E i \in DOMAIN asks : asks[i].entry = e /\ asks[i].week >= w
  IN  /\ triages[t].stage = "counting"
      /\ asks' = IF repeat \/ triages[t].spent >= Budget
                 THEN asks ELSE Append(asks, [entry |-> e, week |-> w])
      /\ askLock' = Free
      /\ triages' = [triages EXCEPT ![t] = NoTriage]
      /\ UNCHANGED <<original, reposts, feed, week>>

NextWeek ==
  /\ week < Weeks /\ week' = week + 1
  /\ UNCHANGED <<original, reposts, feed, asks, askLock, triages>>

AutonomyNext ==
  \/ \E t \in Triages, e \in Entries : Triage(t, e) \/ TriageUnknown(t, e)
  \/ \E t \in Triages : Autopost(t) \/ CountAsks(t) \/ RecordAsk(t)
  \/ \E e \in Entries, a \in Accounts : ApproveCategory(e, a) \/ UndoActivity(e, a)
  \/ NextWeek

AutonomySpec == AutonomyInit /\ [][AutonomyNext]_autonomyVars

-----------------------------------------------------------------------------
(* Properties *)

\* However many entries are triaged at once, and across the turn of a week, the
\* owner is interrupted at most Budget times a week, and once for an entry.
AsksWithinBudget ==
  /\ \A w \in 1..Weeks : Cardinality({i \in DOMAIN asks : asks[i].week = w}) <= Budget
  /\ \A i, j \in DOMAIN asks : asks[i] = asks[j] => i = j

\* What Penny filed is in her feed, once, and nothing else is: a retry, a lost
\* answer or a second tab adds no row, and no filing goes unreported.
FeedFaithful ==
  \A e \in Entries, a \in Accounts :
    /\ (feed[e][a].rows = 1) <=> (reposts[e][<<"autopost", a>>] # "absent")
    /\ feed[e][a].rows <= 1

\* The copies of a transaction that count.
Counting(e) == {k \in Keys : reposts[e][k] = "posted"}

\* Penny and the owner, under keys of their own, never file a transaction
\* twice; it leaves the holding account only for another one or by an undo.
FiledOnce ==
  \A e \in Entries :
    /\ Cardinality(Counting(e)) + (IF original[e] = "posted" THEN 1 ELSE 0) <= 1
    /\ (Counting(e) = {} /\ original[e] = "reversed")
         => \E a \in Accounts : feed[e][a].undone

\* What Penny and the owner file, alone or against each other, is filed once
\* and told once.
FiledAndToldOnce == FiledOnce /\ FeedFaithful

\* Penny stays within her budget, and what she does is done and told once.
AutonomyHolds == AsksWithinBudget /\ FiledAndToldOnce

\* The comment on the undo: the trial balance nets back to where it was before
\* the auto-post.  It does not: the transaction is on no account afterwards.
UndoNetsBack ==
  \A e \in Entries, a \in Accounts : feed[e][a].undone => original[e] = "posted"
=============================================================================
