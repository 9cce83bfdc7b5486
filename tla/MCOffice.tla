------------------------------ MODULE MCOffice ------------------------------
(* The components of the office around the ledger: documents, Penny's         *)
(* autonomy, memberships, PayPal payouts, fixed assets, reports, the end of   *)
(* the month.  They share no table, so each is explored by itself: component  *)
(* names the one that moves in a behaviour.                                   *)
EXTENDS Documents, Autonomy, Membership, Payouts, FixedAssets, Statements, MonthEnd

CONSTANTS cash, receivable, euros, equipment, loan, sales, rent,
          u1, u2, mi2,
          acme, bolt, fx1, fx2

\* The second member invitation is for the founder, the others for the other user.
MCRecipient == [i \in MemberInvites \cup ClientInvites |-> IF i = mi2 THEN u1 ELSE u2]

\* Sales with and without a fee and in another currency, a refund, a hold and its
\* release, a transfer to the bank and its return.
Transaction(event, gross, fee, currency) ==
  [event |-> event, gross |-> gross, fee |-> fee, currency |-> currency]
MCShapes ==
  {Transaction("sale", 2, 0, "USD"), Transaction("sale", 3, -1, "USD"),
   Transaction("sale", 2, 0, "EUR"), Transaction("refund", -1, 0, "USD"),
   Transaction("hold", -1, 0, "USD"), Transaction("hold", 1, 0, "USD"),
   Transaction("transfer", -2, 0, "USD"), Transaction("transfer", 2, 0, "USD")}

\* Three years of the seven-year table and the rest in a fourth, three of whose products
\* of 10000 are a cent short as doubles; then a full bonus, and a quarter for which
\* there is no table.  Lives with a half year, an expensing election above the cap, a
\* salvage value above the cost.
Class(bonus, convention, percent) ==
  [period |-> 3, cap |-> 6, bonus |-> bonus, convention |-> convention, percent |-> percent]
MCLaws   == <<Class(4000, "half_year", <<1429, 2449, 1749, 4373>>),
              Class(10000, "mid_quarter", << >>)>>
MCAssets ==
  [cost : {17, 10000}, salvage : {0, 3, 19}, life2 : {3, 4, 6},
   convention : {"half_year", "full_month"}, elected179 : {0, 8}, bonus : BOOLEAN]
MCShort  == {<<10000, 2449>>, <<10000, 1749>>, <<10000, 4373>>}

\* Two receivable accounts have the same label; one of them is in euros.
Account(type, section, label) ==
  [type |-> type, section |-> section, label |-> label, receivable |-> label = 5]
MCChart == [a \in {cash, receivable, euros, equipment, loan, sales, rent} |->
  CASE a = cash                    -> Account("asset", "cash", 1)
    [] a \in {receivable, euros}   -> Account("asset", "operating", 5)
    [] a = equipment               -> Account("asset", "investing", 2)
    [] a = loan                    -> Account("liability", "financing", 3)
    [] a = sales                   -> Account("income", "operating", 4)
    [] a = rent                    -> Account("expense", "operating", 6)]
Posting(debit, credit, amount, base) ==
  [debit |-> debit, credit |-> credit, amount |-> amount, base |-> base]
MCPostings ==
  {Posting(receivable, sales, 1, 1), Posting(euros, sales, 2, 4), Posting(cash, receivable, 2, 2),
   Posting(equipment, cash, 1, 1), Posting(cash, loan, 2, 2), Posting(rent, cash, 1, 1)}

\* Foreign sales that may be uncategorized or wait for approval, closes of either
\* month, also by an accountant whose entries wait, a reopening, and batches over
\* both clients in either order.
FirmRequest(op, clients, month) ==
  [op |-> op, clients |-> clients, month |-> month, trade |-> None, face |-> 0,
   sorted |-> TRUE, held |-> FALSE, force |-> FALSE]
MCFirmRequests ==
  {[FirmRequest("post", <<acme>>, 1) EXCEPT !.trade = fx1, !.face = 1],
   [FirmRequest("post", <<acme>>, 1) EXCEPT !.trade = fx2, !.face = 2, !.sorted = FALSE],
   [FirmRequest("post", <<acme>>, 2) EXCEPT !.trade = fx2, !.face = 2, !.held = TRUE],
   [FirmRequest("sort", <<acme>>, 1) EXCEPT !.trade = fx1],
   FirmRequest("close", <<acme>>, 1), FirmRequest("close", <<acme>>, 2),
   [FirmRequest("close", <<acme>>, 1) EXCEPT !.held = TRUE],
   FirmRequest("reopen", <<acme>>, 1),
   FirmRequest("batch", <<acme, bolt>>, 2), FirmRequest("batch", <<bolt, acme>>, 2),
   [FirmRequest("batch", <<acme>>, 1) EXCEPT !.force = TRUE]}

VARIABLE component

vars == <<component, documentsVars, autonomyVars, membershipVars, payoutsVars, fixedAssetsVars,
          pagesVars, monthEndVars>>

ASSUME OfficeAssumption ==
  /\ DocumentsAssumption /\ AutonomyAssumption
  /\ MembershipAssumption /\ PayoutsAssumption
  /\ FixedAssetsAssumption /\ StatementsAssumption
  /\ MonthEndAssumption

Init ==
  /\ component \in {"documents", "autonomy", "membership", "payouts", "fixed assets",
                   "statements", "pages", "month end"}
  /\ DocumentsInit /\ AutonomyInit /\ MembershipInit
  /\ PayoutsInit /\ PagesInit
  /\ IF component = "fixed assets" THEN FixedAssetsInit
     ELSE FixedAssetsInit /\ asset = CHOOSE a \in Assets : TRUE
  /\ IF component = "month end" THEN MonthEndInit
     ELSE MonthEndInit /\ rates = CHOOSE r \in [Months -> Rates] : TRUE

\* Documents share no row: a behaviour follows one of them.
OneDocument == \A d, e \in Docs :
  docs'[d].status # "absent" /\ docs'[e].status # "absent" => d = e

\* Pages do not look at the accounts: where they are read, one posting will do.
OnlyLoans == \A i \in DOMAIN book' : loan \in {book'[i].debit, book'[i].credit}

Next ==
  /\ UNCHANGED component
  /\ \/ /\ component = "documents" /\ DocumentsNext /\ OneDocument
        /\ UNCHANGED <<autonomyVars, membershipVars, payoutsVars, fixedAssetsVars, pagesVars, monthEndVars>>
     \/ /\ component = "autonomy" /\ AutonomyNext
        /\ UNCHANGED <<documentsVars, membershipVars, payoutsVars, fixedAssetsVars, pagesVars, monthEndVars>>
     \/ /\ component = "membership" /\ MembershipNext
        /\ UNCHANGED <<documentsVars, autonomyVars, payoutsVars, fixedAssetsVars, pagesVars, monthEndVars>>
     \/ /\ component = "payouts" /\ PayoutsNext
        /\ UNCHANGED <<documentsVars, autonomyVars, membershipVars, fixedAssetsVars, pagesVars, monthEndVars>>
     \/ /\ component = "fixed assets" /\ FixedAssetsNext
        /\ UNCHANGED <<documentsVars, autonomyVars, membershipVars, payoutsVars, pagesVars, monthEndVars>>
     \/ /\ \/ component = "statements" /\ UNCHANGED reading /\ PagesNext
           \/ component = "pages" /\ PagesNext /\ OnlyLoans
        /\ UNCHANGED <<documentsVars, autonomyVars, membershipVars, payoutsVars, fixedAssetsVars, monthEndVars>>
     \/ /\ component = "month end" /\ MonthEndNext
        /\ UNCHANGED <<documentsVars, autonomyVars, membershipVars, payoutsVars, fixedAssetsVars,
                       pagesVars>>

Spec == Init /\ [][Next]_vars

\* The types of the components.
TypeOK ==
  /\ component = "documents"    => DocumentsTypeOK
  /\ component = "autonomy"     => AutonomyTypeOK
  /\ component = "membership"   => MembershipTypeOK
  /\ component = "payouts"      => PayoutsTypeOK
  /\ component = "fixed assets" => FixedAssetsTypeOK
  /\ component \in {"statements", "pages"} => PagesTypeOK
  /\ component = "month end"    => MonthEndTypeOK

=============================================================================
