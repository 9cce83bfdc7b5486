------------------------------ MODULE Discord ------------------------------
(***************************************************************************)
(* Penny on Discord, for one user: the bridge forwards each message, the   *)
(* worker answers it with the memory it loads, appends the exchange and    *)
(* folds old ones into a summary, while other messages, a disconnect or an *)
(* erasure may run.  An exchange is the user's turn and Penny's.           *)
(***************************************************************************)
EXTENDS Integers, Sequences, FiniteSets, SequencesExt

CONSTANTS Handlers,     \* messages that may be in flight together
          Keep, FoldAt, \* exchanges kept word for word, and how many start a fold
          MaxMessages, MaxEpochs

\* What the constants have to be: the modules that use this one assume it.
DiscordAssumption ==
  /\ Keep \in Nat \ {0} /\ FoldAt \in Nat /\ Keep <= FoldAt
  /\ MaxMessages \in Nat /\ MaxEpochs \in Nat

VARIABLES link,       \* the account link: none, pending until confirmed, linked
          active,     \* exchanges kept word for word, oldest first
          summary,    \* exchanges the summary covers
          folded,     \* exchanges archived by a fold since the last fresh start
          flights,    \* what each handler knows
          again,      \* a disconnect's second call is on its way
          said, epoch, calm

discordVars == <<link, active, summary, folded, flights, again, said, epoch, calm>>

\* A message and the number of fresh starts before it.
Messages == [n : 1..MaxMessages, epoch : 0..MaxEpochs]
Ground   == [step |-> "idle", message |-> [n |-> 0, epoch |-> 0], total |-> 0, fold |-> {}]
Steps    == {"idle", "linked", "asked", "overflowing", "folding", "replying"}

DiscordTypeOK ==
  /\ link \in {"none", "pending", "linked"}
  /\ active \in Seq(Messages) /\ summary \subseteq Messages /\ folded \subseteq Messages
  /\ DOMAIN flights = Handlers
  /\ \A h \in Handlers : /\ flights[h].step \in Steps /\ flights[h].fold \subseteq Messages
                         /\ flights[h].total \in Nat
                         /\ flights[h].step # "idle" => flights[h].message \in Messages
  /\ again \in BOOLEAN /\ said \in 0..MaxMessages /\ epoch \in 0..MaxEpochs /\ calm \in BOOLEAN

DiscordInit ==
  /\ link = "none"
  /\ active = <<>> /\ summary = {} /\ folded = {}
  /\ flights = [h \in Handlers |-> Ground]
  /\ again = FALSE /\ said = 0 /\ epoch = 0 /\ calm = TRUE

Busy == {h \in Handlers : flights[h].step # "idle"}

-----------------------------------------------------------------------------
(* A message *)

\* get_user_context_for_discord; a user without a link is sent a token to make one.
Receive(h) ==
  /\ flights[h].step = "idle" /\ said < MaxMessages
  /\ said' = said + 1
  /\ IF link = "linked"
     THEN /\ flights' = [flights EXCEPT ![h] =
               [Ground EXCEPT !.step = "linked", !.message = [n |-> said + 1, epoch |-> epoch]]]
          /\ calm' = (calm /\ Busy = {})
          /\ UNCHANGED link
     ELSE link' = "pending" /\ UNCHANGED <<flights, calm>>
  /\ UNCHANGED <<active, summary, folded, epoch>>

Confirm ==
  /\ link = "pending"
  /\ link' = "linked"
  /\ UNCHANGED <<active, summary, folded, flights, said, epoch, calm>>

Proceed(h, step) == flights' = [flights EXCEPT ![h] = [@ EXCEPT !.step = step]]

\* The model answers from what was loaded, or the request fails.
Answer(h) ==
  /\ flights[h].step = "linked"
  /\ Proceed(h, "asked") \/ flights' = [flights EXCEPT ![h] = Ground]
  /\ UNCHANGED <<link, active, summary, folded, said, epoch, calm>>

\* The exchange is appended, and counted; a failure is swallowed.
AppendExchange(h) ==
  /\ flights[h].step = "asked"
  /\ \/ /\ active' = Append(active, flights[h].message)
        /\ flights' = [flights EXCEPT ![h] =
             [@ EXCEPT !.step = IF Len(active) + 1 > FoldAt THEN "overflowing" ELSE "replying",
                       !.total = Len(active) + 1]]
     \/ Proceed(h, "replying") /\ UNCHANGED active
  /\ UNCHANGED <<link, summary, folded, said, epoch, calm>>

Newest(exchanges) == SubSeq(exchanges, Len(exchanges) - Keep + 1, Len(exchanges))
Older(exchanges)  == {exchanges[i] : i \in 1..(Len(exchanges) - Keep)}

\* Wrong: the summary is of one exchange fewer than the archive takes.
ToFoldShort(exchanges) == {exchanges[i] : i \in 1..(Len(exchanges) - Keep - 1)}

ToFold(exchanges) == Older(exchanges)

\* The newest exchanges, as many as were counted after the append.
Loaded(exchanges, total) ==
  SubSeq(exchanges, IF total < Len(exchanges) THEN Len(exchanges) - total + 1 ELSE 1,
         Len(exchanges))

\* As many are loaded once more, and what is older is summarised with the
\* summary there is.
Summarise(h) ==
  /\ flights[h].step = "overflowing"
  /\ \/ LET old == ToFold(Loaded(active, flights[h].total))
        IN  flights' = [flights EXCEPT ![h] =
              [@ EXCEPT !.step = IF old = {} THEN "replying" ELSE "folding",
                        !.fold = summary \cup old]]
     \/ Proceed(h, "replying")
  /\ UNCHANGED <<link, active, summary, folded, said, epoch, calm>>

\* discord_dm_set_summary writes the summary and archives what is older by then.
SetSummary(h) ==
  /\ flights[h].step = "folding"
  /\ \/ /\ summary' = flights[h].fold
        /\ IF Len(active) >= Keep
           THEN active' = Newest(active) /\ folded' = folded \cup Older(active)
           ELSE UNCHANGED <<active, folded>>
     \/ UNCHANGED <<active, summary, folded>>
  /\ Proceed(h, "replying")
  /\ UNCHANGED <<link, said, epoch, calm>>

SendReply(h) ==
  /\ flights[h].step = "replying"
  /\ flights' = [flights EXCEPT ![h] = Ground]
  /\ UNCHANGED <<link, active, summary, folded, said, epoch, calm>>

-----------------------------------------------------------------------------
(* Fresh starts *)

FreshStart ==
  /\ epoch < MaxEpochs /\ epoch' = epoch + 1
  /\ active' = <<>> /\ folded' = {}
  /\ calm' = (calm /\ Busy = {})
  /\ UNCHANGED <<flights, said>>

\* revoke_discord_link archives every exchange and drops the summary and the
\* link; asked for by the bridge, a second call follows.
Revoke(byBridge) ==
  /\ IF link = "linked"
     THEN link' = "none" /\ FreshStart /\ summary' = {}
     ELSE UNCHANGED <<link, active, summary, folded, flights, said, epoch, calm>>
  /\ again' = (again \/ byBridge)

\* That call, discord_dm_disconnect, does so once more whatever the link is by
\* then; a failure is swallowed.
DisconnectAgain ==
  /\ again /\ again' = FALSE
  /\ \/ FreshStart /\ summary' = {}
     \/ UNCHANGED <<active, summary, folded, flights, said, epoch, calm>>
  /\ UNCHANGED link

\* discord_dm_erase deletes the exchanges, the summary and the link.
Erase ==
  /\ FreshStart /\ summary' = {}
  /\ link' = "none" /\ UNCHANGED again

DiscordNext ==
  \/ /\ \/ \E h \in Handlers : \/ Receive(h) \/ Answer(h) \/ AppendExchange(h)
                               \/ Summarise(h) \/ SetSummary(h) \/ SendReply(h)
        \/ Confirm
     /\ UNCHANGED again
  \/ \E byBridge \in BOOLEAN : Revoke(byBridge)
  \/ DisconnectAgain \/ Erase

DiscordSpec == DiscordInit /\ [][DiscordNext]_discordVars

-----------------------------------------------------------------------------
(* Properties *)

Remembered == ToSet(active) \cup summary

\* Nothing said before the last fresh start is remembered after it, as long as
\* messages came one at a time and none was in flight at a fresh start.
FreshStartForgets == calm => \A m \in Remembered : m.epoch = epoch

\* The bridge tells the user that all of it is deleted, for good.
ForgottenStaysForgotten == \A m \in Remembered : m.epoch = epoch

\* A fold archives only what its summary covers ("once summarized"), as long as
\* messages came one at a time: failed folds are made up for by later ones.
FoldsOnlySummarised == calm => folded \subseteq summary

\* One message after the other, whichever of their calls fail: what is remembered
\* was said since the last fresh start, and no fold loses what its summary lacks.
MemoryHolds == FreshStartForgets /\ FoldsOnlySummarised

\* The migration says turns are archived once summarised: with two messages in
\* flight the fold archives what neither summary has seen.
ArchivedIsSummarised == epoch = 0 => folded \subseteq summary
=============================================================================
