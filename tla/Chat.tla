--------------------------------- MODULE Chat ---------------------------------
(***************************************************************************)
(* Penny's chat on one Worker isolate: the cached eval definitions, the    *)
(* inline gate pass under its time budget, the two canned responses every  *)
(* request of the isolate shares, the CTA gate, and the full panel that    *)
(* grades the answer after it has shipped and writes its one row.          *)
(***************************************************************************)
EXTENDS Naturals, FiniteSets

CONSTANTS Turns,      \* the messages the isolate handles
          RuleGates,  \* gate evals that declare a deterministic check
          LlmGates,   \* gate evals with method llm_judge
          Mandatory,  \* the floor no admin can disable
          Judges,     \* the panel resolvePanel picks for the generator
          Decisions   \* what decideCta may say of the visitors' sessions

\* What the constants have to be: the modules that use this one assume it.
ChatAssumption ==
  /\ Mandatory \subseteq RuleGates \cup LlmGates /\ IsFiniteSet(RuleGates \cup LlmGates \cup Judges)
  /\ Decisions \subseteq {"force", "allow", "block"}

VARIABLES enabled,  \* the gates enabled in ai_use_case_evals
          cache,    \* _evalConfigCache of the isolate
          shared,   \* whether HANDOFF_RESPONSE and FALLBACK_RESPONSE hold a cta
          turns,    \* the requests
          rows      \* ai_decisions: the gate_status of a turn's row

chatVars == <<enabled, cache, shared, turns, rows>>

Gates    == RuleGates \cup LlmGates
GateStatuses == {"passed", "escalated", "blocked", "failed_closed"}
Canned   == {"handoff", "fallback"}

\* warm: the isolate had definitions when the turn began; defs: those it judges
\* by; fails: the rules its answer breaks; inline: the verdict of the inline pass.
ChatTypeOK ==
  /\ enabled \in SUBSET Gates
  /\ cache \in [warm : BOOLEAN, fresh : BOOLEAN, defs : SUBSET Gates]
  /\ shared \in [Canned -> BOOLEAN]
  /\ turns \in [Turns ->
       [at : {"start", "loads", "asks", "replies", "replied", "dead"}, warm : BOOLEAN,
        decision : {"force", "allow", "block"}, defs : SUBSET Gates, fails : SUBSET RuleGates,
        inline : GateStatuses \cup {"none"}, ships : {"answer"} \cup Canned, cta : BOOLEAN]]
  /\ rows \in [Turns -> GateStatuses \cup {"none", "lost", "due"}]

ChatInit ==
  /\ enabled \in {S \in SUBSET Gates : Mandatory \subseteq S}
  /\ cache = [warm |-> FALSE, fresh |-> FALSE, defs |-> {}]
  /\ shared = [c \in Canned |-> FALSE]
  /\ turns = [t \in Turns |->
       [at |-> "start", warm |-> FALSE, decision |-> "allow", defs |-> {}, fails |-> {},
        inline |-> "none", ships |-> "answer", cta |-> FALSE]]
  /\ rows = [t \in Turns |-> "none"]

-----------------------------------------------------------------------------
(* judge *)

Rank == [passed |-> 1, escalated |-> 2, blocked |-> 3, failed_closed |-> 4]
Worst(S) == CHOOSE s \in S : \A r \in S : Rank[r] <= Rank[s]

\* Wrong: the panel, which judges last, has the last word.
worstGateLast(a, b) == b

\* applyOutcome keeps the more severe verdict of the inline pass and the panel.
worstGate(a, b) == Worst({a, b})

\* What the rules alone say, which is all of the inline pass.
Floor(defs, fails) == IF defs \cap fails = {} THEN "passed" ELSE "blocked"

\* The unanimous rule: a judge that cannot be reached fails the gate closed, a
\* split goes to a human, and a vote that cannot be read is not a pass.
Combine(votes) ==
  IF "error" \in votes THEN "failed_closed"
  ELSE IF {"pass", "fail"} \subseteq votes THEN "escalated"
  ELSE IF votes \subseteq {"pass"} THEN "passed"
  ELSE "blocked"

\* A gate whose rule failed is not put to the panel.
PanelSays(defs, fails, votes) ==
  Worst({Floor(defs, fails)} \cup
        {Combine({votes[g, j] : j \in Judges}) : g \in (defs \cap LlmGates) \ fails})

-----------------------------------------------------------------------------
(* handleChat *)

Goes(t, label, defs) ==
  turns' = [turns EXCEPT ![t] = [@ EXCEPT !.at = label, !.warm = cache.warm, !.defs = defs]]

\* Wrong: a turn that cannot read the table goes by no definitions.
BeginTurnForgets(t) ==
  /\ turns[t].at = "start"
  /\ \/ cache.fresh /\ Goes(t, "asks", cache.defs)
     \/ ~cache.fresh /\ (Goes(t, "asks", {}) \/ Goes(t, "loads", enabled))
  /\ UNCHANGED <<enabled, cache, shared, rows>>

\* The message comes in; Promise.all starts the model and the definitions.  A
\* fresh cache answers; otherwise the table is read, or cannot be, and then the
\* turn goes by the last good definitions, or by none.
BeginTurn(t) ==
  /\ turns[t].at = "start"
  /\ \/ Goes(t, "asks", cache.defs)
     \/ ~cache.fresh /\ Goes(t, "loads", enabled)
  /\ UNCHANGED <<enabled, cache, shared, rows>>

StoreDefs(t) ==
  /\ turns[t].at = "loads"
  /\ cache' = [warm |-> TRUE, fresh |-> TRUE, defs |-> turns[t].defs]
  /\ turns' = [turns EXCEPT ![t] = [@ EXCEPT !.at = "asks"]]
  /\ UNCHANGED <<enabled, shared, rows>>

\* decideCta, which depends on the visitor's session, has the last word over the
\* cta of whatever is shipped; a canned response is one object for all requests,
\* and keeps what is written to it.
Ship(t, what, inline, cta, fails) ==
  \E d \in Decisions :
    LET has   == IF what \in Canned THEN shared[what] ELSE cta
        final == d = "force" \/ (d = "allow" /\ has)
    IN  /\ turns' = [turns EXCEPT ![t] =
             [@ EXCEPT !.at = "replies", !.decision = d, !.ships = what, !.cta = final,
                       !.inline = inline, !.fails = fails]]
        /\ shared' = IF what \in Canned THEN [shared EXCEPT ![what] = final] ELSE shared

\* The model fails, or writes what is not an answer: nothing is judged.
ModelFails(t) ==
  /\ turns[t].at = "asks"
  /\ Ship(t, "fallback", "none", FALSE, {})
  /\ UNCHANGED <<enabled, cache, rows>>

chatNeedsHandoff(status) == status \in {"blocked", "failed_closed", "escalated"}

\* The rules are checked, unless the budget runs out first; the row is left to
\* waitUntil.
JudgeInline(t) ==
  /\ turns[t].at = "asks"
  /\ \E fails \in SUBSET RuleGates, cta \in BOOLEAN :
       \E inline \in {Floor(turns[t].defs, fails)} \cup
                     (IF turns[t].defs = {} THEN {} ELSE {"failed_closed"}) :
         Ship(t, IF chatNeedsHandoff(inline) THEN "handoff" ELSE "answer", inline, cta, fails)
  /\ rows' = [rows EXCEPT ![t] = "due"]
  /\ UNCHANGED <<enabled, cache>>

\* The turn is logged before the reply goes out.
Reply(t) ==
  /\ turns[t].at = "replies"
  /\ turns' = [turns EXCEPT ![t] = [turns[t] EXCEPT !.at = "replied",
       !.cta = IF turns[t].ships \in Canned THEN shared[turns[t].ships] ELSE @]]
  /\ UNCHANGED <<enabled, cache, shared, rows>>

\* What the panel judged is forgotten with its closure.
Settle(t, row) ==
  /\ rows' = [rows EXCEPT ![t] = row]
  /\ turns' = [turns EXCEPT ![t] = [turns[t] EXCEPT !.defs = {}, !.inline = "none",
       !.fails = IF turns[t].ships = "answer" THEN @ ELSE {}]]

\* The panel grades the answer and the row is written, or dropped.
FinalizeChatDecision(t) ==
  /\ rows[t] = "due"
  /\ \/ \E votes \in [((turns[t].defs \cap LlmGates) \ turns[t].fails) \X Judges ->
                      {"pass", "fail", "unread", "error"}] :
          Settle(t, worstGate(turns[t].inline, PanelSays(turns[t].defs, turns[t].fails, votes)))
     \/ Settle(t, "lost")
  /\ UNCHANGED <<enabled, cache, shared>>

-----------------------------------------------------------------------------
(* Around the requests *)

CacheExpires ==
  /\ cache.fresh
  /\ cache' = [cache EXCEPT !.fresh = FALSE]
  /\ UNCHANGED <<enabled, shared, turns, rows>>

\* An admin turns evals on and off, except for the mandatory ones.
EditEvals ==
  /\ enabled' \in {S \in SUBSET Gates : Mandatory \subseteq S} \ {enabled}
  /\ UNCHANGED <<cache, shared, turns, rows>>

\* The isolate is evicted with everything it holds, and a new one starts.
Evict ==
  /\ cache' = [warm |-> FALSE, fresh |-> FALSE, defs |-> {}]
  /\ shared' = [c \in Canned |-> FALSE]
  /\ turns' = [t \in Turns |-> IF turns[t].at \in {"loads", "asks", "replies"}
                               THEN [turns[t] EXCEPT !.at = "dead"] ELSE turns[t]]
  /\ rows' = [t \in Turns |-> IF rows[t] = "due" THEN "lost" ELSE rows[t]]
  /\ UNCHANGED enabled

ChatNext ==
  \/ \E t \in Turns : \/ BeginTurn(t) \/ StoreDefs(t) \/ ModelFails(t) \/ JudgeInline(t) \/ Reply(t)
                      \/ FinalizeChatDecision(t)
  \/ CacheExpires \/ EditEvals \/ Evict

ChatSpec == ChatInit /\ [][ChatNext]_chatVars

-----------------------------------------------------------------------------
(* Properties *)

Shipped(t) == turns[t].at = "replied" /\ turns[t].ships = "answer"

\* An isolate that has loaded the definitions once ships no answer that breaks
\* a mandatory rule, however often the table is edited, the cache expires or
\* a later load fails.
WarmFloorHolds ==
  \A t \in Turns : Shipped(t) /\ turns[t].warm => turns[t].fails \cap Mandatory = {}

\* No answer that breaks a mandatory rule ships at all ("never ship ungated,
\* never fail-open").  The code breaks it: an isolate whose first load fails
\* judges by no evals, and passes.
FloorHolds ==
  \A t \in Turns : Shipped(t) => turns[t].fails \cap Mandatory = {}

\* Where the row of an answer that was held back is written at all, the review queue
\* sees it: it never says that the answer passed, though the panel that judged it
\* afterwards may have liked it.  The write that is lost leaves no row.
HeldBackIsReviewed ==
  \A t \in Turns : turns[t].ships = "handoff" /\ rows[t] \in GateStatuses => rows[t] # "passed"

\* A visitor whose turn may carry no call to action gets none ("the runtime
\* safety net that overrides any model output").  The code breaks it: another
\* request writes its own into the canned response before this one is sent.
BlockedTurnHasNoCta ==
  \A t \in Turns : turns[t].at = "replied" /\ turns[t].decision = "block" => ~turns[t].cta
=============================================================================
