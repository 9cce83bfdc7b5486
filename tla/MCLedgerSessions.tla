--------------------------- MODULE MCLedgerSessions ---------------------------
(* Sessions racing over one posted and one pending entry of month 1, with an   *)
(* owner and an accountant, and two request keys.                              *)
EXTENDS LedgerSessions, TLC

CONSTANTS Owner, Cpa, Bank, Uncat, Meals, old, held, k1, k2

MCKeys     == {old, held, k1, k2}
MCActors   == {Owner, Cpa}
MCMembers  == {Owner}
MCAccounts == {Bank, Uncat, Meals}

Spend == [NoLines EXCEPT ![Uncat].D = 1, ![Bank].C = 1]

\* One entry posted by the owner, one by the accountant that awaits approval.
MCJournals ==
  {[i \in Ids |-> IF i = <<old, "">> THEN NewEntry("posted", 1, Spend, "manual", Owner)
                  ELSE IF i = <<held, "">> THEN NewEntry("pending_review", 1, Spend, "manual", Cpa)
                  ELSE NoEntry]}

\* Month 1 may be closed; month 2 has no period row yet: reversals roll into it.
MCPeriods == {[m \in Months |-> IF m = 1 THEN st ELSE "none"] : st \in {"open", "closed"}}

Plain(op, a, k, i, m) ==
  [op |-> op, by |-> a, key |-> k, target |-> i, month |-> m, lines |-> Spend,
   from |-> Uncat, to |-> Meals]

\* Nobody closes month 2: what happens then is the matter of RaceCalls.
MCCalls ==
  {Plain("post", Owner, k1, None, m) : m \in Months}
    \cup {Plain("post", Cpa, k1, None, 1), Plain("approve", Owner, k1, <<held, "">>, None)}
    \cup {Plain("reverse", Owner, k1, <<old, "">>, None)}
    \cup {Plain("recategorize", Cpa, k2, <<old, "">>, None)}
    \cup {Plain(op, Cpa, k1, None, 1) : op \in {"close", "reopen"}}

\* A new organisation: no entry and no period row yet.
RaceJournals == {[i \in Ids |-> NoEntry]}
RacePeriods  == {[m \in Months |-> "none"]}
RaceCalls    == {Plain("post", Owner, k, None, 1) : k \in {k1, k2}}
                  \cup {Plain("close", Cpa, k1, None, 1)}
=============================================================================
