------------------------------- MODULE MCLedger -------------------------------
(* One small organisation: a bank account and three categories, one payload of *)
(* two lines, an owner and an accountant, two request keys, two months.        *)
EXTENDS Ledger, TLC

CONSTANTS Owner, Cpa, Bank, Uncat, Meals, Travel

MCActors   == {Owner, Cpa}
MCMembers  == {Owner}
MCCpas     == {Cpa}
MCAccounts == {Bank, Uncat, Meals, Travel}
MCArchived == {Travel}

MCPayloads == {[NoLines EXCEPT ![Uncat].D = 1, ![Bank].C = 1]}

KeySymmetry == Permutations(Keys)
=============================================================================
