------------------------------ MODULE Payouts ------------------------------
(***************************************************************************)
(* A PayPal payout reaches the ledger along two paths: a read of the       *)
(* provider's transactions in a window of dates, and an uploaded activity  *)
(* report over dates of the owner's choice.  Both split the components of  *)
(* the window and post them under the id of the transfer to the bank.      *)
(***************************************************************************)
EXTENDS Integers, Sequences, FiniteSets, SequencesExt, Functions

CONSTANTS Shapes,          \* what a transaction of the provider may be
          TxnIds,          \* ids of transfers, ordered as strings are, not by time
          PayoutSessions,  \* requests in flight
          MaxTxns, MaxEntries

\* What the constants have to be: the modules that use this one assume it.
PayoutsAssumption ==
  /\ Shapes \subseteq [event : {"sale", "refund", "hold", "transfer"},
                       gross : Int, fee : Int, currency : STRING]
  /\ TxnIds \subseteq Nat \ {0} /\ MaxTxns \in Nat /\ MaxEntries \in Nat

VARIABLES history,         \* the provider's transactions, in order of time
          payoutSessions,  \* a payout read and not yet posted, or NoPayout
          payoutEntries    \* journal entries of source ecommerce_payout

payoutsVars == <<history, payoutSessions, payoutEntries>>

\* Nothing reads the id of a component: it is NoId.
NoId     == 0
Txns     == {t \in {[id |-> i, event |-> s.event, gross |-> s.gross, fee |-> s.fee,
                     currency |-> s.currency] : i \in TxnIds \cup {NoId}, s \in Shapes} :
               (t.event = "transfer") <=> (t.id # NoId)}
NoPayout == [path |-> "none", id |-> NoId, gross |-> 0, net |-> 0, transfers |-> {}]
Paths    == {"api", "csv"}

PayoutsTypeOK ==
  /\ history \in Seq(Txns) /\ Len(history) <= MaxTxns
  /\ \A s \in PayoutSessions :
       LET p == payoutSessions[s]
       IN  /\ DOMAIN p = DOMAIN NoPayout /\ p.path \in Paths \cup {"none"}
           /\ p.path \in Paths => p.id \in p.transfers
  /\ \A i, j \in DOMAIN payoutEntries :
       /\ payoutEntries[i].status \in {"posted", "reversed"} /\ payoutEntries[i].gross >= 0
       /\ payoutEntries[i].id = payoutEntries[j].id => i = j

PayoutsInit ==
  /\ history = <<>> /\ payoutEntries = <<>>
  /\ payoutSessions = [s \in PayoutSessions |-> NoPayout]

-----------------------------------------------------------------------------
(* The split *)

Magnitude(n) == IF n < 0 THEN -n ELSE n
Positive(n)  == IF n > 0 THEN n ELSE 0

\* A refund keeps the sign of its fee and drops that of its gross.
splitSignedGrossFee(kind, t) ==
  CASE kind = "sale"   -> [gross |-> Magnitude(t.gross), fees |-> Positive(-t.fee),
                           refunds |-> 0, adjust |-> Positive(t.fee)]
    [] kind = "refund" -> [gross |-> 0, fees |-> 0,
                           refunds |-> Magnitude(t.gross), adjust |-> t.fee]
    [] OTHER           -> [gross |-> 0, fees |-> Positive(-t.fee),
                           refunds |-> 0, adjust |-> t.gross + Positive(t.fee)]

\* The report names a hold; the event code of one reads as an adjustment.
KindOf(path, t) ==
  CASE t.event = "refund"                 -> "refund"
    [] path = "csv" /\ t.event = "hold"   -> "adjustment"
    [] OTHER -> IF t.gross > 0 THEN "sale" ELSE "adjustment"

IsComponent(t) == t.event # "transfer"

componentsFromRows(path, window) ==
  LET components == {i \in DOMAIN window : IsComponent(window[i])}
  IN  [b \in {"gross", "fees", "refunds", "adjust"} |->
         SumFunction([i \in components |->
                        splitSignedGrossFee(KindOf(path, window[i]), window[i])[b]])]

NetOf(c) == c.gross - c.fees - c.refunds + c.adjust

-----------------------------------------------------------------------------
(* The transfers of a window *)

\* A transfer that came back has a positive gross.
IsOutboundTransfer(t) == t.event = "transfer" /\ t.gross < 0

Transfers(window) == {t \in ToSet(window) : IsOutboundTransfer(t)}
Left(transfers)   == SumFunction([t \in transfers |-> Magnitude(t.gross)])

\* The smallest id of a transfer in the window.
paypalCanonicalPayoutId(window) ==
  LET ids == {t.id : t \in Transfers(window)}
  IN  CHOOSE i \in ids : \A j \in ids : i <= j

\* Wrong: the split is compared with itself.
SelfNet(path, window) == NetOf(componentsFromRows(path, window))

\* What the split must come to: the money that left the provider.  A report
\* is compared with the net column of its own components, which no caller reads.
ReportedNet(path, window) ==
  IF path = "api" THEN Left(Transfers(window)) ELSE NetOf(componentsFromRows(path, window))

Currencies(window) == {t.currency : t \in ToSet(window)}

Reconciles(path, window) ==
  path = "api" => /\ Cardinality(Currencies(window)) = 1
                  /\ ReportedNet(path, window) = NetOf(componentsFromRows(path, window))

-----------------------------------------------------------------------------
(* The provider *)

Balance(txns) == FoldLeft(LAMBDA n, t : n + t.gross + t.fee, 0, txns)

\* The balance pays what leaves it; only a transfer that left comes back.
Transact(t) ==
  /\ Len(history) < MaxTxns
  /\ t.id \notin {h.id : h \in {h \in ToSet(history) : h.event = "transfer"}}
  /\ t.gross < 0 => Balance(Append(history, t)) >= 0
  /\ (t.event = "transfer" /\ t.gross > 0) =>
        \E h \in ToSet(history) : h.event = "transfer" /\ h.gross = -t.gross
  /\ history' = Append(history, t)
  /\ UNCHANGED <<payoutSessions, payoutEntries>>

-----------------------------------------------------------------------------
(* Reading and posting: two steps of a request *)

Pull(s, path, from, to) ==
  LET window == SubSeq(history, from, to)
      split  == componentsFromRows(path, window)
  IN  /\ payoutSessions[s] = NoPayout
      /\ Transfers(window) # {} /\ Reconciles(path, window)
      /\ payoutSessions' = [payoutSessions EXCEPT ![s] =
            [path |-> path, id |-> paypalCanonicalPayoutId(window), gross |-> split.gross,
             net |-> NetOf(split), transfers |-> {t.id : t \in Transfers(window)}]]
      /\ UNCHANGED <<history, payoutEntries>>

\* An entry of the payout exists, posted or reversed.
Recorded(id) == \E e \in ToSet(payoutEntries) : e.id = id

\* The key's entry is returned whatever its status; an empty payout is refused.
PostPayout(s) ==
  LET p == payoutSessions[s]
  IN  /\ p # NoPayout /\ Len(payoutEntries) < MaxEntries
      /\ payoutEntries' = IF Recorded(p.id) \/ (p.net = 0 /\ p.gross = 0) THEN payoutEntries
                          ELSE Append(payoutEntries,
                                 [id |-> p.id, path |-> p.path, gross |-> p.gross, net |-> p.net,
                                  transfers |-> p.transfers, status |-> "posted"])
      /\ payoutSessions' = [payoutSessions EXCEPT ![s] = NoPayout]
      /\ UNCHANGED history

ReversePayout(i) ==
  /\ payoutEntries[i].status = "posted"
  /\ payoutEntries' = [payoutEntries EXCEPT ![i].status = "reversed"]
  /\ UNCHANGED <<history, payoutSessions>>

\* The request dies between its read and its post.
Die(s) ==
  /\ payoutSessions[s] # NoPayout
  /\ payoutSessions' = [payoutSessions EXCEPT ![s] = NoPayout]
  /\ UNCHANGED <<history, payoutEntries>>

PayoutsNext ==
  \/ \E t \in Txns : Transact(t)
  \/ \E s \in PayoutSessions :
       \/ \E path \in Paths : \E to \in DOMAIN history : \E from \in 1..to : Pull(s, path, from, to)
       \/ PostPayout(s) \/ Die(s)
  \/ \E i \in DOMAIN payoutEntries : ReversePayout(i)

PayoutsSpec == PayoutsInit /\ [][PayoutsNext]_payoutsVars

-----------------------------------------------------------------------------
(* Properties *)

Deposits(from)  == {e \in ToSet(payoutEntries) : e.status = "posted" /\ e.path \in from
                                                 /\ Cardinality(e.transfers) = 1}
Booked(es)      == SumFunction([e \in es |-> e.net])
TransfersOf(es) == {t \in ToSet(history) : \E e \in es : t.id \in e.transfers}

\* However windows overlap and requests interleave, the deposits that the
\* provider's own window brought in, each holding one transfer, add up to what
\* those transfers moved: none is booked twice, none for another amount.
DepositsAreTransfers ==
  LET es == Deposits({"api"}) IN Booked(es) = Left(TransfersOf(es))

\* commerceApi.ts says the report reconciles to the money that left PayPal
\* too: the same holds with the uploaded reports.
ReportsReconcile ==
  LET es == Deposits(Paths) IN Booked(es) = Left(TransfersOf(es))

\* The header of commerce-sync says one payout collapses to one posted entry:
\* no two posted entries hold a transfer in common.
CollapsesToOne ==
  \A d, e \in {e \in ToSet(payoutEntries) : e.status = "posted"} :
     d # e => d.transfers \cap e.transfers = {}
=============================================================================
