------------------------------ MODULE Documents ------------------------------
(***************************************************************************)
(* Invoices and bills, which follow one protocol: a draft is edited, sent  *)
(* (entered), paid in parts or voided, and every step but the edit posts   *)
(* to the ledger in its own transaction.  Send, pay and void lock the row  *)
(* of the document before they read it; an edit does not.                  *)
(***************************************************************************)
EXTENDS Integers, FiniteSets

CONSTANTS Invoices, Bills,  \* the documents
          Calls,            \* calls of the edge functions in flight
          MaxTotal,         \* the largest total
          NoDoc

\* What the constants have to be: the modules that use this one assume it.
DocumentsAssumption ==
  /\ Invoices \cap Bills = {} /\ NoDoc \notin Invoices \cup Bills /\ MaxTotal \in Nat
  /\ "none" \notin Calls

VARIABLES docs,     \* the rows of invoices and bills
          entries,  \* what the ledger holds of a document: its accrual, its cash
          locks,    \* the call that holds the lock on a document's row
          rpcs,     \* what each call has read so far
          touched   \* documents changed behind the protocol's back

documentsVars == <<docs, entries, locks, rpcs, touched>>

Docs   == Invoices \cup Bills
Totals == 0..MaxTotal
Doc    == [status : {"absent", "draft", "sent", "partial", "paid", "void"},
           total : Totals, paid : Totals, mailed : BOOLEAN]
NoCall == "none"

DocumentsTypeOK ==
  /\ docs \in [Docs -> Doc]
  /\ entries \in [Docs -> [accrual : {"none", "pending_review", "posted", "reversed"},
                           amount : Totals, cash : Nat]]
  /\ locks \in [Docs -> Calls \cup {NoCall}]
  /\ rpcs \in [Calls -> [op : {"none", "edit", "send", "pay", "void", "mail"},
                         doc : Docs \cup {NoDoc}, seen : Doc]]
  /\ touched \in SUBSET Docs

Blank == [status |-> "absent", total |-> 0, paid |-> 0, mailed |-> FALSE]
Idle  == [op |-> "none", doc |-> NoDoc, seen |-> Blank]

DocumentsInit ==
  /\ docs = [d \in Docs |-> Blank]
  /\ entries = [d \in Docs |-> [accrual |-> "none", amount |-> 0, cash |-> 0]]
  /\ locks = [d \in Docs |-> NoCall]
  /\ rpcs = [c \in Calls |-> Idle]
  /\ touched = {}

-----------------------------------------------------------------------------
(* Edits *)

Create(d) ==
  /\ docs[d].status = "absent"
  /\ \E t \in Totals :
       docs' = [docs EXCEPT ![d] = [status |-> "draft", total |-> t, paid |-> 0, mailed |-> FALSE]]
  /\ UNCHANGED <<entries, locks, rpcs, touched>>

\* upsert reads the status without a lock.
BeginEdit(c, d) ==
  /\ rpcs[c] = Idle /\ docs[d].status = "draft"
  /\ rpcs' = [rpcs EXCEPT ![c] = [op |-> "edit", doc |-> d, seen |-> docs[d]]]
  /\ UNCHANGED <<docs, entries, locks, touched>>

\* Its update waits for the lock of a send, and then goes through all the same.
EndEdit(c) ==
  LET d == rpcs[c].doc
  IN  /\ rpcs[c].op = "edit" /\ locks[d] = NoCall
      /\ \E t \in Totals : docs' = [docs EXCEPT ![d].total = t]
      /\ touched' = touched \cup (IF docs[d].status = "draft" THEN {} ELSE {d})
      /\ rpcs' = [rpcs EXCEPT ![c] = Idle]
      /\ UNCHANGED <<entries, locks>>

-----------------------------------------------------------------------------
(* Send, pay, void *)

\* Wrong: the row is read, but not locked.
SelectUnlocked(c, d) ==
  /\ rpcs[c] = Idle /\ docs[d].status # "absent"
  /\ \E op \in {"send", "pay", "void"} :
       rpcs' = [rpcs EXCEPT ![c] = [op |-> op, doc |-> d, seen |-> docs[d]]]
  /\ UNCHANGED <<docs, entries, locks, touched>>

SelectForUpdate(c, d) ==
  /\ rpcs[c] = Idle /\ docs[d].status # "absent" /\ locks[d] = NoCall
  /\ locks' = [locks EXCEPT ![d] = c]
  /\ \E op \in {"send", "pay", "void"} :
       rpcs' = [rpcs EXCEPT ![c] = [op |-> op, doc |-> d, seen |-> docs[d]]]
  /\ UNCHANGED <<docs, entries, touched>>

\* The transaction commits what it computed from the row it read, and the call
\* of a sent invoice goes on to mail it.
Commit(c, doc, entry) ==
  LET d == rpcs[c].doc
  IN  /\ docs' = [docs EXCEPT ![d] = doc]
      /\ entries' = [entries EXCEPT ![d] = entry]
      /\ locks' = [locks EXCEPT ![d] = NoCall]
      /\ rpcs' = [rpcs EXCEPT ![c] = IF rpcs[c].op = "send" /\ d \in Invoices
                                     THEN [Idle EXCEPT !.op = "mail", !.doc = d] ELSE Idle]
      /\ UNCHANGED touched

\* The accrual may have to wait for approval; a document that is already out is
\* left as it is.
Send(c) ==
  LET d == rpcs[c].doc
      v == rpcs[c].seen
  IN  /\ rpcs[c].op = "send"
      /\ \/ /\ v.status = "draft" /\ v.total > 0
            /\ \E s \in {"posted", "pending_review"} :
                 Commit(c, [docs[d] EXCEPT !.status = "sent"],
                        [entries[d] EXCEPT !.accrual = s, !.amount = v.total])
         \/ v.status \notin {"draft", "void"} /\ Commit(c, docs[d], entries[d])

\* Wrong: the amount is not held against what is open.
PayUnchecked(c) ==
  LET d == rpcs[c].doc
      v == rpcs[c].seen
  IN  /\ rpcs[c].op = "pay" /\ v.status \in {"sent", "partial"}
      /\ \E a \in 1..MaxTotal :
           Commit(c, [docs[d] EXCEPT !.paid = v.paid + a,
                                     !.status = IF v.paid + a >= v.total THEN "paid" ELSE "partial"],
                  [entries[d] EXCEPT !.cash = @ + a])

Pay(c) ==
  LET d == rpcs[c].doc
      v == rpcs[c].seen
  IN  /\ rpcs[c].op = "pay" /\ v.status \in {"sent", "partial"}
      /\ \E a \in 1..MaxTotal :
           /\ a <= v.total - v.paid
           /\ Commit(c, [docs[d] EXCEPT !.paid = v.paid + a,
                                        !.status = IF v.paid + a >= v.total THEN "paid" ELSE "partial"],
                     [entries[d] EXCEPT !.cash = @ + a])

\* reverse_journal_entry refuses an accrual that is not posted.
Void(c) ==
  LET d == rpcs[c].doc
      v == rpcs[c].seen
  IN  /\ rpcs[c].op = "void" /\ v.paid = 0 /\ v.status \notin {"draft", "void"}
      /\ entries[d].accrual = "posted"
      /\ Commit(c, [docs[d] EXCEPT !.status = "void"], [entries[d] EXCEPT !.accrual = "reversed"])

\* A raise, a closed month or a lost connection rolls the transaction back.
RollBack(c) ==
  LET d == rpcs[c].doc
  IN  /\ rpcs[c].op \in {"edit", "send", "pay", "void"}
      /\ locks' = IF locks[d] = c THEN [locks EXCEPT ![d] = NoCall] ELSE locks
      /\ rpcs' = [rpcs EXCEPT ![c] = Idle]
      /\ UNCHANGED <<docs, entries, touched>>

\* The e-mail goes out after the transaction, or fails.
Mail(c) ==
  /\ rpcs[c].op = "mail"
  /\ \/ docs' = [docs EXCEPT ![rpcs[c].doc].mailed = TRUE]
     \/ UNCHANGED docs
  /\ rpcs' = [rpcs EXCEPT ![c] = Idle]
  /\ UNCHANGED <<entries, locks, touched>>

-----------------------------------------------------------------------------
(* The ledger underneath *)

Approve(d) ==
  /\ entries[d].accrual = "pending_review"
  /\ entries' = [entries EXCEPT ![d].accrual = "posted"]
  /\ UNCHANGED <<docs, locks, rpcs, touched>>

\* Any posted entry can be reversed from the ledger, a document's, too.  The
\* document does not hear of it.
ReverseAccrual(d) ==
  /\ entries[d].accrual = "posted"
  /\ entries' = [entries EXCEPT ![d].accrual = "reversed"]
  /\ touched' = touched \cup {d}
  /\ UNCHANGED <<docs, locks, rpcs>>

DocumentsNext ==
  \/ \E d \in Docs : Create(d) \/ Approve(d) \/ ReverseAccrual(d)
  \/ \E c \in Calls : \/ \E d \in Docs : BeginEdit(c, d) \/ SelectForUpdate(c, d)
                      \/ EndEdit(c) \/ Send(c) \/ Pay(c) \/ Void(c) \/ RollBack(c) \/ Mail(c)

DocumentsSpec == DocumentsInit /\ [][DocumentsNext]_documentsVars

-----------------------------------------------------------------------------
(* Properties *)

\* What the ledger holds open for a document, and what the document says is open.
InLedger(d) == (IF entries[d].accrual \in {"posted", "pending_review"} THEN entries[d].amount ELSE 0)
                 - entries[d].cash
Open(d)     == IF docs[d].status \in {"sent", "partial"} THEN docs[d].total - docs[d].paid ELSE 0

\* The control account ties with the aging, document by document, whatever
\* sends, payments and voids overlap or roll back: unless the entry was reversed
\* from the ledger, or an edit landed on a document that was already out.
ControlTies == \A d \in Docs \ touched : InLedger(d) = Open(d)

\* No document takes more money than was billed, and a void one took none,
\* though every payment is checked against a row read before it posts.
NeverOverpaid ==
  \A d \in Docs : /\ d \notin touched => entries[d].cash <= docs[d].total
                  /\ docs[d].status = "void" => entries[d].cash = 0
                  /\ entries[d].cash = docs[d].paid

\* What was mailed to a customer is in the books ("a mail failure must not
\* un-post the books", and the post comes first).
MailedIsPosted ==
  \A d \in Invoices : docs[d].mailed => entries[d].accrual # "none" /\ entries[d].amount > 0

\* Documents, ledger and customers have the same picture of what is open, paid
\* and billed.
DocumentsTie == ControlTies /\ NeverOverpaid /\ MailedIsPosted

\* A document that is out keeps the total its entry was posted with ("a sent
\* invoice is immutable").  The code breaks it: see EndEdit.
SentIsImmutable ==
  \A d \in Docs : docs[d].status \in {"sent", "partial", "paid"} => docs[d].total = entries[d].amount
=============================================================================
